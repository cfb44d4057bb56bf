CONSTANTS
  s1 = s1
  s2 = s2
  s3 = s3
  v1 = v1
  v2 = v2
  v3 = v3
  t1 = t1
  t2 = t2
  r1 = r1
  r2 = r2
  Sub = {s1, s2, s3}
  Envelope = {v1, v2, v3}
  Type = {t1, t2}
  Room = {r1, r2}
  NoRoom = NoRoom
  SubType <- SubTypes
  SubRoom <- SubRooms
  EnvType <- EnvTypes
  EnvRoom <- EnvRooms
  MaxDepth = 2
SPECIFICATION Spec
INVARIANT TypeOK
INVARIANT AtMostOnce
INVARIANT NobodySkipped
INVARIANT OnlySubscribers
