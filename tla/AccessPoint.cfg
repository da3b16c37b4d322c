\* Two starts and two stops, in any order; the firmware admits five stations.
CONSTANTS
  Texts <- MCTexts
  max_connection = 5
  MaxCalls = 3
  MaxEvents = 3
SPECIFICATION APSpec
INVARIANTS APTypeOK AbortIsMisuse MethodsInOrder
PROPERTIES NoMethodOnDead InterfaceAsWritten LeaseUsable TrueMeansServed
\* The program stops when it is aborted, or when the object is destroyed.
CHECK_DEADLOCK FALSE
