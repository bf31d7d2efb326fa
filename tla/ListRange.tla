------------------------------ MODULE ListRange ------------------------------
(***************************************************************************)
(* compileListOptions() of src/src/api/actor-state.ts: the half-open range *)
(* of keys a list() call reads, computed from start, startAfter, end and   *)
(* prefix.  A key is a sequence of code units 0..MaxUnit, compared unit by *)
(* unit; MaxUnit stands for the maximal code unit and 0 for NUL.           *)
(***************************************************************************)
EXTENDS Integers, Sequences, FiniteSetsExt

CONSTANTS
  MaxUnit,     \* the maximal code unit
  MaxLength    \* bound on the length of the strings an option is given

ASSUME ListRangeAssumption == MaxUnit \in Nat \ {0} /\ MaxLength \in Nat

Units      == 0..MaxUnit
Strings(n) == UNION {[1..l -> Units] : l \in 0..n}
Undefined  == <<-1>>

Less(a, b) ==
  \E n \in 0..Len(b) - 1 :
    /\ n <= Len(a) /\ \A i \in 1..n : a[i] = b[i]
    /\ n < Len(a) => a[n + 1] < b[n + 1]

AtMost(a, b) == ~Less(b, a)

StartsWith(s, prefix) ==
  Len(prefix) <= Len(s) /\ SubSeq(s, 1, Len(prefix)) = prefix

\* seeded fault: the loop that drops trailing maximal units is missing, and the
\* unit that is raised wraps around.
RaiseLast(prefix) ==
  IF prefix = <<>> THEN Undefined
  ELSE Append(SubSeq(prefix, 1, Len(prefix) - 1),
              (prefix[Len(prefix)] + 1) % (MaxUnit + 1))

\* Trailing maximal units are dropped and the last unit that is left is raised.
FirstKeyAfterPrefix(prefix) ==
  LET raisable == {i \in DOMAIN prefix : prefix[i] # MaxUnit}
      last     == Max(raisable)
  IN IF raisable = {} THEN Undefined
     ELSE Append(SubSeq(prefix, 1, last - 1), prefix[last] + 1)

NoOptions == [start |-> Undefined, startAfter |-> Undefined,
              end |-> Undefined, prefix |-> <<>>]

\* start and startAfter exclude each other; the code throws on both.
Options ==
  LET given == Strings(MaxLength) \cup {Undefined}
  IN {o \in [start : given, startAfter : given, end : given,
             prefix : Strings(MaxLength)] :
        o.start = Undefined \/ o.startAfter = Undefined}

Start(o) ==
  IF o.startAfter # Undefined THEN Append(o.startAfter, 0)
  ELSE IF o.start # Undefined THEN o.start ELSE <<>>

\* The prefix and the range have no key in common: seen from its start, ...
StartsAfterPrefix(o) ==
  o.prefix # <<>> /\ ~Less(Start(o), o.prefix) /\ ~StartsWith(Start(o), o.prefix)

\* ... or from its end, which is not looked at when the prefix has no end.
EndsBeforePrefix(o) ==
  /\ o.prefix # <<>> /\ FirstKeyAfterPrefix(o.prefix) # Undefined
  /\ o.end # Undefined /\ AtMost(o.end, o.prefix)

ClampedStart(o) == IF Less(Start(o), o.prefix) THEN o.prefix ELSE Start(o)

ClampedEnd(o) ==
  LET after == FirstKeyAfterPrefix(o.prefix)
  IN IF after = Undefined \/ (o.end # Undefined /\ StartsWith(o.end, o.prefix))
       THEN o.end ELSE after

NoRange == [start |-> Undefined, end |-> Undefined]

CompileListOptions(o) ==
  LET range == [start |-> ClampedStart(o), end |-> ClampedEnd(o)]
  IN IF \/ StartsAfterPrefix(o) \/ EndsBeforePrefix(o)
        \/ range.end # Undefined /\ AtMost(range.end, range.start)
       THEN NoRange ELSE range

\* WHERE key >= ? AND key < ?
InRange(key, range) ==
  /\ range # NoRange
  /\ AtMost(range.start, key)
  /\ range.end # Undefined => Less(key, range.end)

\* What the options ask for.
Asked(key, o) ==
  /\ o.start # Undefined => AtMost(o.start, key)
  /\ o.startAfter # Undefined => Less(o.startAfter, key)
  /\ o.end # Undefined => Less(key, o.end)
  /\ StartsWith(key, o.prefix)

=============================================================================
