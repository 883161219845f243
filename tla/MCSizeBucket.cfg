SPECIFICATION Spec
CONSTANT MaxLog2 = 30
CONSTANT Lengths <- Samples
INVARIANT BucketHoldsRequest
INVARIANT BucketIsFixedPoint
INVARIANT SlackUnderAQuarter
PROPERTY BucketsAreMonotone
