SPECIFICATION Spec
CONSTANTS
  a = a  b = b  ab = ab 
  Device = {a, b}
  Session = {ab}
  From <- MCFrom
  To <- MCTo
  MaxUpsets = 2
  MaxWrites = 2
INVARIANT RejectedRefused
CHECK_DEADLOCK FALSE
