SPECIFICATION Spec
CONSTANTS
  Sizes = {3, 4, 5}
  PushSizes = {1, 2, 3}
  PopSizes = {2, 3}
  Producers = {p1}
  Consumers = {c1}
  MaxStream = 9
PROPERTY
  HeadIsConsumer
