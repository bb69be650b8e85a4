SPECIFICATION Spec
CONSTANTS
  fun1 = fun1
  fun2 = fun2
  clo1 = clo1
  frame1 = frame1
  frame2 = frame2
  frame3 = frame3
  NoFrame = NoFrame
  Functions <- MCFunctions
  Closures <- MCClosures
  Frames <- MCFrames
  MaximumDepth = 3
  MaxEntries = 4
  HostSteps = FALSE
PROPERTY ReturnLeavesTheNearestFunctionOnly
