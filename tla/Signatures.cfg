CONSTANTS
  a = a
  b = b
  c = c
  p = p
  q = q
  t = t
  u = u
  f = f
  g = g
  h = h
  None = None
  Key = {a, b, c}
  Program = {p, q}
  Tx = {t, u}
  From <- MCFrom
  Multisig <- MCMultisig
  File = {f, g, h}
  OutOf <- MCOutOf
  Beginnings <- MCBeginnings
  Rekeyings <- MCRekeyings
  MaxSignings = 4
SPECIFICATION Spec
INVARIANT OnlyByConsent
PROPERTY SignaturesKept
