CONSTANTS
  Consumers = {"a", "b"}
  Steps = {1, 2}
  Whole = 2
  Keys <- AskedKeys
  Consumptions <- AskedConsumptions
  Productions <- AskedProductions
  IterationSeries <- IterationSeriesRead
  ConsumerSeries <- ConsumerSeriesRead
  FlushBytes = 8
  ConsumerNames <- NamesOf
  ConsumerOrder <- Order
  ReadBack <- ReadBackKeys
  OldDocuments <- OldOnes
  ChunkSizes = {1, 3, 20}
  MaxPoints = {0, 1, 2, 3}
  TooLarge = 150
SPECIFICATION Spec
\* A request that is answered, of a run that is stored, leaves nothing to do.
CHECK_DEADLOCK FALSE
INVARIANTS TypeOK EnergyIsAccountedFor NoEnergyFromNowhere RatesAreShares HeadlineAddsUp
           StreamIsTheDocument SampleIsTheSeries ReadersHoldLittle DetailMatchesSeries
PROPERTIES NotFoundMeansDeleted
