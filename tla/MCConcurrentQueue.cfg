\* Two producers and three consumers race for one place and one more.
SPECIFICATION FairSpec
CONSTANTS
    Producers <- TwoProducers
    Consumers <- ThreeConsumers
    Values <- TwoValues
    None = None
    SIZE = 1
    MaxSpurious = 1
INVARIANTS
    TypeOK
    DoneWakesEverybody
    NoLostConsumerWakeup
    NoLostProducerWakeup
    Capacity
    Reservation
PROPERTIES
    AbstractSpec
    DoneReleases
    ConsumersProgress
    ProducersProgress
