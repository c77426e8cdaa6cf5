SPECIFICATION Spec
CONSTANTS
  Reports <- InstrumentReports
  Writings <- SensorWritings
  Modes = {2, 15}
  MaxDamage = 2
INVARIANTS
  TypeOK
  LengthAnnounced
  RoundTrips
  EchoShowsReading
  DamageNoticed
