CONSTANTS
  a = a
  b = b
  k = k
  host = host
  guest = guest
  x = x
  y = y
  Name = {a, b}
  Button = {k}
  Primary = Primary
  Lists = {{a}, {a, Primary}}
  Computer = {host, guest}
  Hub = host
  Session = {x, y}
  MaxMail = 2
  Settings <- OnlyPauses
  Feature <- Control
SPECIFICATION Spec
INVARIANT NoKeyStaysDown
CHECK_DEADLOCK FALSE
