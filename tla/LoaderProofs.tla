---------------------------- MODULE LoaderProofs ----------------------------
(***************************************************************************)
(* Theorems about Loader: whatever daemons are started, cancelled, killed    *)
(* or refused, in whatever order, the attached link, its pin and the one     *)
(* daemon that holds it go together.                                        *)
(***************************************************************************)
EXTENDS Loader, TLAPS

(* Where a daemon is while it holds a link: from Attach to CloseLink.  A      *)
(* secondary also waits in "run", and holds nothing.                         *)
LinkPhases == {"unlink", "pin", "run", "unpin", "close"}

Holds(d) == mode[d] = "primary" /\ phase[d] \in LinkPhases

(* A secondary loader never takes the steps of a primary, nor the other way. *)
ModeInv ==
  \A d \in Daemons : /\ phase[d] \in LinkPhases \ {"run"} => mode[d] = "primary"
                     /\ phase[d] = "hook" => mode[d] = "secondary"

(* The daemons in those phases have a descriptor, after them only one that    *)
(* could not close it, and never two.                                        *)
HolderInv ==
  /\ \A d \in Daemons : Holds(d) => d \in linkHolder
  /\ \A d \in linkHolder : mode[d] = "primary" /\ phase[d] \in LinkPhases \cup {"stop"}
  /\ \A d \in linkHolder : linkHolder = {d}
  /\ linkHolder # {} => iface = "link"

(* A link is attached while a pin or a descriptor keeps it.  The pin is there *)
(* while its daemon waits, and not before that.                              *)
PinInv ==
  /\ linkPinned => iface = "link"
  /\ iface = "link" => linkPinned \/ linkHolder # {}
  /\ \A d \in Daemons :
       /\ phase[d] \in {"unlink", "pin"} => ~linkPinned
       /\ phase[d] = "run" /\ mode[d] = "primary" => linkPinned

(* Without a mishap a pin belongs to a daemon that has still to remove it. *)
MishapInv ==
  linkPinned /\ ~mishap => \E d \in linkHolder : phase[d] \in {"run", "unpin"}

IInv == TypeOK /\ ModeInv /\ HolderInv /\ PinInv /\ MishapInv

-----------------------------------------------------------------------------
(* Type correctness *)

LEMMA TypeSteps ==
  ASSUME TypeOK, [Next]_vars
  PROVE  TypeOK'
<1> USE DEF TypeOK, kernel, process, Goto, KeepLink, Phases
<1>1. ASSUME NEW d \in Daemons, NEW g \in Configs, Start(d, g) PROVE TypeOK'
  BY <1>1, BoundAssumption DEF Start
<1>2. ASSUME NEW d \in Daemons, Advance(d) PROVE TypeOK'
  <2>1. CASE Detect(d) \/ DetectFails(d)
    BY <2>1 DEF Detect, Detected, DetectFails
  <2>2. CASE Load(d) \/ LoadFails(d) \/ Seed(d) \/ SeedFails(d)
    BY <2>2, ConfigsAssumption DEF Load, LoadFails, Seed, SeedFails, IsConfig
  <2>3. CASE Attach(d) \/ AttachFails(d) \/ RemovePin(d) \/ Pin(d) \/ PinFails(d)
    <3>1. CASE Attach(d) \/ AttachFails(d) \/ RemovePin(d) \/ Pin(d)
      BY <3>1 DEF Attach, AttachFails, RemovePin, Pin
    <3>2. CASE PinFails(d)
      BY <3>2 DEF PinFails, Close
    <3> QED
      BY <2>3, <3>1, <3>2
  <2>4. CASE Wake(d) \/ Unpin(d) \/ UnpinFails(d) \/ CloseLink(d) \/ Stop(d)
    <3>1. CASE Wake(d) \/ Unpin(d) \/ UnpinFails(d) \/ Stop(d)
      BY <3>1 DEF Wake, Unpin, UnpinFails, Stop
    <3>2. CASE CloseLink(d)
      BY <3>2 DEF CloseLink, Close
    <3> QED
      BY <2>4, <3>1, <3>2
  <2>5. CASE OpenHook(d) \/ PutFails(d) \/ HookDone(d)
    BY <2>5, ConfigsAssumption DEF OpenHook, PutFails, HookDone, IsConfig
  <2>6. CASE PutHook(d)
    BY <2>6 DEF PutHook
  <2> QED
    BY <1>2, <2>1, <2>2, <2>3, <2>4, <2>5, <2>6 DEF Advance
<1>3. ASSUME NEW d \in Daemons, Cancel(d) \/ Crash(d) PROVE TypeOK'
  BY <1>3 DEF Cancel, Crash
<1>4. ASSUME NEW d \in Daemons, NEW on \in BOOLEAN, Control(d, on) PROVE TypeOK'
  BY <1>4 DEF Control
<1>5. CASE DispatcherUp \/ DispatcherDown
  BY <1>5 DEF DispatcherUp, DispatcherDown
<1>6. CASE UNCHANGED vars
  BY <1>6 DEF vars
<1> QED
  BY <1>1, <1>2, <1>3, <1>4, <1>5, <1>6 DEF Next

-----------------------------------------------------------------------------
(* The link *)

LinkInv == ModeInv /\ HolderInv /\ PinInv /\ MishapInv

(* A daemon outside those phases, and a secondary, has no descriptor. *)
LEMMA NoDescriptor ==
  ASSUME LinkInv, NEW d \in Daemons,
         phase[d] \notin LinkPhases \cup {"stop"} \/ mode[d] # "primary"
  PROVE  d \notin linkHolder
BY DEF LinkInv, HolderInv

(* Steps that leave the link, its pin and its descriptors alone.  Where such a *)
(* step takes a daemon from and to is all that counts: outside the phases in  *)
(* which a link is held, or, for a secondary, through them.                  *)
LEMMA LinkAside ==
  ASSUME TypeOK, LinkInv, TypeOK',
         UNCHANGED <<linkPinned, linkHolder, mishap>>,
         iface' = iface \/ (iface' # "link" /\ iface # "link"),
         \A d \in Daemons :
           \/ phase'[d] = phase[d] /\ mode'[d] = mode[d]
           \/ d \notin linkHolder /\ phase'[d] \notin LinkPhases \cup {"hook"}
           \/ d \notin linkHolder /\ mode'[d] = "secondary" /\ phase'[d] = "hook"
           \/ d \notin linkHolder /\ mode'[d] = "secondary" /\ phase'[d] = "run"
           \/ phase[d] = "run" /\ phase'[d] = "unpin" /\ mode'[d] = mode[d] /\ mode[d] = "primary"
  PROVE  LinkInv'
<1>1. iface' = "link" <=> iface = "link"
  OBVIOUS
<1>2. \A d \in Daemons : Holds(d)' => Holds(d)
  BY DEF TypeOK, Holds, LinkPhases
<1>3. ModeInv'
  BY DEF LinkInv, ModeInv, Holds, LinkPhases
<1>4. HolderInv'
  <2>1. \A d \in linkHolder :
          \/ phase'[d] = phase[d] /\ mode'[d] = mode[d]
          \/ phase'[d] = "unpin" /\ mode'[d] = "primary"
    BY DEF TypeOK
  <2> QED
    BY <1>1, <1>2, <2>1 DEF LinkInv, HolderInv, TypeOK, LinkPhases
<1>5. PinInv'
  BY <1>1 DEF LinkInv, PinInv, LinkPhases
<1>6. MishapInv'
  BY DEF LinkInv, MishapInv, TypeOK
<1> QED
  BY <1>3, <1>4, <1>5, <1>6 DEF LinkInv

LEMMA LinkSteps ==
  ASSUME TypeOK, LinkInv, TypeOK', [Next]_vars
  PROVE  LinkInv'
<1> USE DEF kernel, process, Goto
<1>1. ASSUME NEW d \in Daemons, NEW g \in Configs, Start(d, g) PROVE LinkInv'
  BY <1>1, LinkAside, NoDescriptor DEF Start, TypeOK, LinkPhases
<1>2. ASSUME NEW d \in Daemons, Advance(d) PROVE LinkInv'
  <2>1. CASE Detect(d) \/ DetectFails(d)
    BY <2>1, LinkAside, NoDescriptor DEF Detect, DetectFails, TypeOK, LinkPhases
  <2>2. CASE Load(d) \/ LoadFails(d) \/ Seed(d) \/ SeedFails(d)
    BY <2>2, LinkAside, NoDescriptor DEF Load, LoadFails, Seed, SeedFails, TypeOK, LinkPhases
  <2>3. CASE Attach(d)
    BY <2>3 DEF Attach, TypeOK, LinkInv, ModeInv, HolderInv, PinInv, MishapInv, Holds, LinkPhases
  <2>4. CASE AttachFails(d) \/ PutHook(d) \/ PutFails(d)
    BY <2>4, LinkAside, NoDescriptor DEF AttachFails, PutHook, PutFails, TypeOK, LinkPhases
  <2>11. CASE OpenHook(d)
    BY <2>11, LinkAside, NoDescriptor DEF OpenHook, TypeOK, LinkPhases
  <2>12. CASE HookDone(d)
    BY <2>12, LinkAside, NoDescriptor DEF HookDone, TypeOK, LinkInv, ModeInv, LinkPhases
  <2>5. CASE RemovePin(d)
    BY <2>5 DEF RemovePin, KeepLink, TypeOK, LinkInv, ModeInv, HolderInv, PinInv, MishapInv, Holds, LinkPhases
  <2>6. CASE Pin(d)
    <3>1. linkHolder = {d} /\ linkHolder' = {d} /\ iface = "link" /\ iface' = "link"
      BY <2>6 DEF Pin, KeepLink, LinkInv, ModeInv, HolderInv, Holds, LinkPhases
    <3>2. ModeInv' /\ HolderInv'
      BY <2>6, <3>1 DEF Pin, TypeOK, LinkInv, ModeInv, HolderInv, Holds, LinkPhases
    <3>3. PinInv'
      BY <2>6, <3>1, <3>2 DEF Pin, KeepLink, TypeOK, ModeInv, HolderInv, PinInv, Holds, LinkPhases
    <3> QED
      BY <2>6, <3>1, <3>2, <3>3 DEF Pin, TypeOK, LinkInv, MishapInv
  <2>7. CASE PinFails(d)
    BY <2>7 DEF PinFails, Close, KeepLink, TypeOK, LinkInv, ModeInv, HolderInv, PinInv, MishapInv, Holds, LinkPhases
  <2>8. CASE Wake(d)
    BY <2>8, LinkAside, NoDescriptor DEF Wake, TypeOK, LinkPhases
  <2>9. CASE Unpin(d)
    BY <2>9 DEF Unpin, KeepLink, TypeOK, LinkInv, ModeInv, HolderInv, PinInv, MishapInv, Holds, LinkPhases
  <2>13. CASE UnpinFails(d)
    BY <2>13 DEF UnpinFails, TypeOK, LinkInv, ModeInv, HolderInv, PinInv, MishapInv, Holds, LinkPhases
  <2>10. CASE CloseLink(d)
    BY <2>10 DEF CloseLink, Close, KeepLink, TypeOK, LinkInv, ModeInv, HolderInv, PinInv, MishapInv, Holds, LinkPhases
  <2>14. CASE Stop(d)
    BY <2>14 DEF Stop, KeepLink, TypeOK, LinkInv, ModeInv, HolderInv, PinInv, MishapInv, Holds, LinkPhases
  <2> QED
    BY <1>2, <2>1, <2>2, <2>3, <2>4, <2>5, <2>6, <2>7, <2>8, <2>9, <2>10,
       <2>11, <2>12, <2>13, <2>14 DEF Advance
<1>3. ASSUME NEW d \in Daemons, Cancel(d) PROVE LinkInv'
  BY <1>3, LinkAside DEF Cancel
<1>4. ASSUME NEW d \in Daemons, Crash(d) PROVE LinkInv'
  BY <1>4 DEF Crash, KeepLink, TypeOK, LinkInv, ModeInv, HolderInv, PinInv, MishapInv, Holds, LinkPhases
<1>5. ASSUME NEW d \in Daemons, NEW on \in BOOLEAN, Control(d, on) PROVE LinkInv'
  BY <1>5, LinkAside DEF Control
<1>6. CASE DispatcherUp \/ DispatcherDown
  BY <1>6, LinkAside DEF DispatcherUp, DispatcherDown
<1>7. CASE UNCHANGED vars
  BY <1>7, LinkAside DEF vars
<1> QED
  BY <1>1, <1>2, <1>3, <1>4, <1>5, <1>6, <1>7 DEF Next

LEMMA Invariance == Spec => []IInv
<1>1. Init => IInv
  <2> SUFFICES ASSUME Init PROVE IInv
    OBVIOUS
  <2>1. TypeOK
    <3>1. NoConfig \in Configs
      BY ConfigsAssumption DEF NoConfig
    <3>2. 0 \in 0 .. MaxStarts
      BY BoundAssumption
    <3>3. todo \in [Daemons -> Seq(Nat)] /\ hook \in [HookSlots -> {"none"} \cup Daemons]
      BY DEF Init
    <3> QED
      BY <3>1, <3>2, <3>3 DEF Init, TypeOK, Phases
  <2> QED
    BY <2>1 DEF Init, IInv, ModeInv, HolderInv, PinInv, MishapInv, Holds, LinkPhases
<1>2. IInv /\ [Next]_vars => IInv'
  BY TypeSteps, LinkSteps DEF IInv, LinkInv
<1> QED
  BY <1>1, <1>2, PTL DEF Spec

-----------------------------------------------------------------------------
(* Theorems *)

(* Every variable keeps its type, whatever the configurations are. *)
THEOREM TypeCorrect == Spec => []TypeOK
<1>1. IInv => TypeOK
  BY DEF IInv
<1> QED
  BY <1>1, Invariance, PTL

(* A primary daemon that runs is the one holder of the attached, pinned link, *)
(* however many daemons are started, stopped and killed around it.           *)
THEOREM RunningStaysPinned == Spec => []RunningIsPinned
<1>1. IInv => RunningIsPinned
  BY DEF IInv, HolderInv, PinInv, RunningIsPinned, Holds, LinkPhases
<1> QED
  BY <1>1, Invariance, PTL

(* Nothing but a kill between pin and unpin, or an error of the unpin, leaves *)
(* the program attached without a daemon, and no pin outlives its link.      *)
THEOREM OnlyMishapsLeave == Spec => []LeftOnlyByMishap
<1>1. IInv => LeftOnlyByMishap
  BY DEF IInv, PinInv, MishapInv, LeftOnlyByMishap
<1> QED
  BY <1>1, Invariance, PTL

(* The steps of a daemon that does not hold what is attached leave it        *)
(* attached, and pinned or not as it was.                                    *)
THEOREM NeverTakenOver == Spec => NoTakeover
<1> DEFINE Keeps == \A d \in Daemons : Advance(d) /\ d \notin linkHolder /\ iface # "none"
                      => iface' = iface /\ linkPinned' = linkPinned
<1>1. ASSUME IInv, NEW d \in Daemons, Advance(d), d \notin linkHolder, iface # "none"
      PROVE  iface' = iface /\ linkPinned' = linkPinned
  <2>1. phase[d] \notin LinkPhases \ {"run"}
    BY <1>1 DEF IInv, ModeInv, HolderInv, Holds, LinkPhases
  <2>2. /\ ~RemovePin(d) /\ ~Pin(d) /\ ~PinFails(d) /\ ~Unpin(d) /\ ~UnpinFails(d)
        /\ ~CloseLink(d) /\ ~Attach(d)
    BY <1>1, <2>1 DEF RemovePin, Pin, PinFails, Unpin, UnpinFails, CloseLink, Attach, Goto, LinkPhases
  <2>3. CASE Stop(d)
    <3>1. linkHolder \ {d} = linkHolder
      BY <1>1
    <3>2. iface = "link" => linkPinned \/ linkHolder # {}
      BY <1>1 DEF IInv, PinInv
    <3> QED
      BY <2>3, <3>1, <3>2, <1>1 DEF Stop, KeepLink, IInv
  <2>4. CASE ~Stop(d)
    BY <1>1, <2>2, <2>4
    DEF Advance, Detect, DetectFails, Load, LoadFails, Seed, SeedFails, AttachFails, Wake,
        OpenHook, PutHook, PutFails, HookDone, kernel
  <2> QED
    BY <2>3, <2>4
<1>2. IInv => Keeps
  BY <1>1
<1> QED
  BY <1>2, Invariance, PTL DEF NoTakeover
=============================================================================
