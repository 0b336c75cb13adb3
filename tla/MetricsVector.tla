---------------------------- MODULE MetricsVector ----------------------------
(***************************************************************************)
(* The ring of the last values of a metric: MetricsVector of                *)
(* pkg/plugins/metrics/metrics.go.  The code keeps one ring per name; the   *)
(* worker always pushes under the same one, so a vector has at most one      *)
(* ring here, made by the first push.                                        *)
(***************************************************************************)
EXTENDS Integers, Sequences

CONSTANT Length  \* the length of a vector (DefaultVectorLength)

ASSUME LengthAssumption == Length \in Nat \ {0}

(* The ring, <<>> before the first push; the slot written next, from 0; and   *)
(* how many slots were ever written.                                         *)
Vectors(Values) ==
  [values : {<<>>} \cup [1 .. Length -> Values], ref : 0 .. (Length - 1), count : 0 .. Length]

NewMetricsVector == [values |-> <<>>, ref |-> 0, count |-> 0]

(* make([]float64, v.length) on the first push of a name. *)
Ring(v) == IF v.values = <<>> THEN [i \in 1 .. Length |-> 0] ELSE v.values

(* Slip: the write slot wraps one slot late. *)
PushValueLateWrap(v, x) ==
  [values |-> [Ring(v) EXCEPT ![v.ref + 1] = x],
   ref    |-> IF v.ref + 1 > Length THEN 0 ELSE v.ref + 1,
   count  |-> IF v.count + 1 > Length THEN Length ELSE v.count + 1]

PushValue(v, x) ==
  [values |-> [Ring(v) EXCEPT ![v.ref + 1] = x],
   ref    |-> IF v.ref + 1 >= Length THEN 0 ELSE v.ref + 1,
   count  |-> IF v.count + 1 > Length THEN Length ELSE v.count + 1]

(* len(v.values): how many names have a ring. *)
Rings(v) == IF v.values = <<>> THEN 0 ELSE 1

(* The slots from high down to low, numbered from 0 as in the code.  Those     *)
(* that the ring does not have are passed over.                              *)
Downward(v, high, low) ==
  LET top == IF high < Len(v.values) THEN high ELSE Len(v.values) - 1
  IN  [i \in 1 .. (top - low + 1) |-> v.values[top - i + 2]]

(* Slip: the slot about to be written is read first. *)
LastValuesFromRef(v) == Downward(v, v.ref, 0) \o Downward(v, Rings(v) - 1, v.ref + 1)

(* The second loop starts from the number of names, not from the length.     *)
GetLastValues(v) == Downward(v, v.ref - 1, 0) \o Downward(v, Rings(v) - 1, v.ref + 1)

=============================================================================
