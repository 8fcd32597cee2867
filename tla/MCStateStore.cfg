\* Two processes save, at once or in turn; calls fail, processes die, power is
\* lost, the file is damaged or removed.
CONSTANTS
  v1 = v1  v2 = v2  v3 = v3
  p1 = p1  p2 = p2
  Absent = Absent
  Torn = Torn
  Versions = {v1, v2, v3}
  Procs = {p1, p2}
  Env = {"error", "crash", "power", "damage", "remove"}
SPECIFICATION Spec
SYMMETRY Symmetry
INVARIANTS TypeOK BackupDecodes BackupIsRecent
PROPERTIES NeverTorn RefusesDamaged IsAtomic
