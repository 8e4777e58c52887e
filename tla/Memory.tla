------------------------------- MODULE Memory -------------------------------
(***************************************************************************)
(* Bytes in accounts, instruction data and messages.  Memory is the set of  *)
(* the fields that were written: <<offset, width, value>>.  Reading what    *)
(* was written gives the value, reading untouched memory gives zero, and a  *)
(* read that cuts a field gives Garbage.                                    *)
(***************************************************************************)
EXTENDS Integers, Sequences

CONSTANT Garbage  \* what a read that cuts a field returns

Overlaps(f, off, width) == f[1] < off + width /\ off < f[1] + f[2]

\* mem after the fields fs are written.
Write(mem, fs) == fs \cup {f \in mem : \A g \in fs : ~Overlaps(f, g[1], g[2])}

Read(mem, off, width, zero) ==
  IF \E f \in mem : f[1] = off /\ f[2] = width
  THEN (CHOOSE f \in mem : f[1] = off /\ f[2] = width)[3]
  ELSE IF \E f \in mem : Overlaps(f, off, width) THEN Garbage ELSE zero

-----------------------------------------------------------------------------
(* Byte strings: a length, and the fields in it.                             *)

Bytes(width, v) == [len |-> width, fields |-> {<<0, width, v>>}]
Shifted(by, fs) == {<<by + f[1], f[2], f[3]>> : f \in fs}

\* One after the other; Rows are strings of one width.
Concat(a, b) == [len |-> a.len + b.len, fields |-> a.fields \cup Shifted(a.len, b.fields)]
a ++ b == Concat(a, b)
Rows(width, rows) ==
  [len |-> width * Len(rows),
   fields |-> UNION {Shifted(width * (n - 1), rows[n].fields) : n \in DOMAIN rows}]
=============================================================================
