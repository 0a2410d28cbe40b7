SPECIFICATION ProfileFairSpec
CONSTANTS
  Creators = {c1, c2}
  Slugs = {s1, s2}
  Readers = {r1}
  MaxWrites = 3
  MaxFaults = 1
 
PROPERTY FreshAgain
CHECK_DEADLOCK FALSE
