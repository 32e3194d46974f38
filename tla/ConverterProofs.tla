--------------------------- MODULE ConverterProofs --------------------------
(* What conversions do to the file at the output path, and what each of    *)
(* them logs and reports, for any number of them, any requests and any     *)
(* captures.                                                               *)
EXTENDS Converter, FiniteSetTheorems, FunctionTheorems, SequenceTheorems, Induction, TLAPS

Labels == {"begin", "resolve", "unlink", "validate", "open", "read",
           "error", "success", "killed"}

ControlOK ==
  /\ job \in [Conversions -> Job]
  /\ pc \in [Conversions -> Labels]
  /\ file \in [by : Conversions \cup {"nobody", "before"},
               state : {"absent", "partial", "complete"}]
  /\ alone \in [Conversions -> BOOLEAN]

(* What a conversion that nobody has got in the way of knows of the file.  *)
OwnsPath(c) ==
  alone[c] =>
    /\ pc[c] \in {"validate", "open"} => file = Absent
    /\ pc[c] = "read" => file = [by |-> c, state |-> "partial"]
    /\ pc[c] = "success" => file = [by |-> c, state |-> "complete"]

(* Only a conversion with overwrite is about to delete, and one that is    *)
(* past that point has not left an old output where it was.                *)
OldIsGone(c) ==
  /\ pc[c] = "unlink" => job[c].overwrite
  /\ pc[c] \in {"validate", "open"} => file.by # "before"

FileInv == ControlOK /\ \A c \in Conversions : OwnsPath(c) /\ OldIsGone(c)

LEMMA FileInitInv == Init => FileInv
<1> SUFFICES ASSUME Init PROVE FileInv
  OBVIOUS
<1>1. file \in [by : Conversions \cup {"nobody", "before"},
                state : {"absent", "partial", "complete"}]
  BY DEF Init, Absent, OldOutput
<1>2. ControlOK
  BY <1>1 DEF Init, ControlOK, Labels
<1> QED
  BY <1>2 DEF Init, FileInv, OwnsPath, OldIsGone

-----------------------------------------------------------------------------
(* A step that leaves file and alone as they are and takes c to a place    *)
(* where nothing is claimed of them.                                       *)
LEMMA QuietInv ==
  ASSUME FileInv, NEW c \in Conversions, NEW label \in Labels,
         GoTo(c, label), UNCHANGED <<job, file, alone>>,
         OwnsPath(c)', OldIsGone(c)'
  PROVE  FileInv'
<1>1. ControlOK'
  BY DEF FileInv, ControlOK, GoTo
<1>2. ASSUME NEW d \in Conversions
      PROVE  OwnsPath(d)' /\ OldIsGone(d)'
  <2>1. CASE d = c
    BY <2>1
  <2>2. CASE d # c
    BY <2>2 DEF FileInv, ControlOK, GoTo, OwnsPath, OldIsGone
  <2> QED
    BY <2>1, <2>2
<1> QED
  BY <1>1, <1>2 DEF FileInv

LEMMA BeginInv == ASSUME FileInv, NEW c \in Conversions, Begin(c) PROVE FileInv'
<1>1. PICK label \in {"resolve", "error"} : GoTo(c, label)
  BY DEF Begin
<1>2. pc'[c] = label
  BY <1>1 DEF GoTo, FileInv, ControlOK
<1>3. OwnsPath(c)' /\ OldIsGone(c)'
  BY <1>2 DEF OwnsPath, OldIsGone
<1> QED
  BY <1>1, <1>3, QuietInv DEF Begin, Labels

LEMMA ResolveInv == ASSUME FileInv, NEW c \in Conversions, Resolve(c) PROVE FileInv'
<1>1. PICK label \in {"error", "validate", "unlink"} :
        /\ GoTo(c, label)
        /\ label = "validate" => file = Absent
        /\ label = "unlink" => file # Absent /\ ~Refuses(c)
  BY DEF Resolve
<1>2. /\ pc' = [pc EXCEPT ![c] = label]
      /\ alone' = [alone EXCEPT ![c] = file = Absent]
      /\ file' = file /\ job' = job
  BY <1>1 DEF GoTo, Resolve
<1>3. ControlOK'
  BY <1>2 DEF FileInv, ControlOK, Labels
<1>4. ASSUME NEW d \in Conversions
      PROVE  OwnsPath(d)' /\ OldIsGone(d)'
  <2>1. CASE d = c
    <3>1. pc'[c] = label
      BY <1>2 DEF FileInv, ControlOK
    <3>2. OwnsPath(c)'
      BY <1>1, <1>2, <3>1 DEF OwnsPath
    <3>3. label = "unlink" => job[c].overwrite
      BY <1>1 DEF Refuses
    <3>4. label = "validate" => file.by # "before"
      BY <1>1 DEF Absent
    <3> QED
      BY <2>1, <1>2, <3>1, <3>2, <3>3, <3>4 DEF OldIsGone
  <2>2. CASE d # c
    BY <2>2, <1>2 DEF FileInv, ControlOK, OwnsPath, OldIsGone
  <2> QED
    BY <2>1, <2>2
<1> QED
  BY <1>3, <1>4 DEF FileInv

LEMMA UnlinkInv == ASSUME FileInv, NEW c \in Conversions, Unlink(c) PROVE FileInv'
<1>1. CASE file = Absent
  <2>1. GoTo(c, "error") /\ UNCHANGED <<job, file, alone>>
    BY <1>1 DEF Unlink
  <2>2. pc'[c] = "error"
    BY <2>1 DEF GoTo, FileInv, ControlOK
  <2>3. OwnsPath(c)' /\ OldIsGone(c)'
    BY <2>2 DEF OwnsPath, OldIsGone
  <2> QED
    BY <2>1, <2>3, QuietInv DEF Labels
<1>2. CASE file # Absent
  <2>1. /\ pc' = [pc EXCEPT ![c] = "validate"] /\ file' = Absent
        /\ alone' = [d \in Conversions |-> d = c] /\ job' = job
    BY <1>2 DEF Unlink, GoTo, Touches
  <2>2. ControlOK'
    <3>1. Absent \in [by : Conversions \cup {"nobody", "before"},
                      state : {"absent", "partial", "complete"}]
      BY DEF Absent
    <3> QED
      BY <2>1, <3>1 DEF FileInv, ControlOK, Labels
  <2>3. ASSUME NEW d \in Conversions
        PROVE  OwnsPath(d)' /\ OldIsGone(d)'
    <3>1. file'.by # "before"
      BY <2>1 DEF Absent
    <3>2. d = c => pc'[d] = "validate"
      BY <2>1 DEF FileInv, ControlOK
    <3>3. d # c => pc'[d] = pc[d] /\ ~alone'[d]
      BY <2>1 DEF FileInv, ControlOK
    <3> QED
      BY <2>1, <3>1, <3>2, <3>3 DEF FileInv, OwnsPath, OldIsGone
  <2> QED
    BY <2>2, <2>3 DEF FileInv
<1> QED
  BY <1>1, <1>2

LEMMA ValidateInv == ASSUME FileInv, NEW c \in Conversions, Validate(c) PROVE FileInv'
<1>1. PICK label \in {"error", "open"} : GoTo(c, label)
  BY DEF Validate
<1>2. pc'[c] = label /\ pc[c] = "validate" /\ UNCHANGED <<job, file, alone>>
  BY <1>1 DEF GoTo, Validate, FileInv, ControlOK
<1>3. OwnsPath(c)' /\ OldIsGone(c)'
  BY <1>2 DEF FileInv, OwnsPath, OldIsGone
<1> QED
  BY <1>1, <1>2, <1>3, QuietInv DEF Labels

LEMMA OpenInv == ASSUME FileInv, NEW c \in Conversions, Open(c) PROVE FileInv'
<1>1. CASE GoTo(c, "error") /\ UNCHANGED <<file, alone>>
  <2>1. pc'[c] = "error"
    BY <1>1 DEF GoTo, FileInv, ControlOK
  <2>2. OwnsPath(c)' /\ OldIsGone(c)'
    BY <2>1 DEF OwnsPath, OldIsGone
  <2> QED
    BY <1>1, <2>2, QuietInv DEF Open, Labels
<1>2. CASE /\ GoTo(c, "read")
           /\ file' = [by |-> c, state |-> "partial"]
           /\ alone' = [d \in Conversions |-> d = c /\ alone[c]]
  <2>1. /\ pc' = [pc EXCEPT ![c] = "read"] /\ job' = job
    BY <1>2 DEF Open, GoTo
  <2>2. ControlOK'
    BY <1>2, <2>1 DEF FileInv, ControlOK, Labels
  <2>3. ASSUME NEW d \in Conversions
        PROVE  OwnsPath(d)' /\ OldIsGone(d)'
    <3>1. file'.by # "before"
      BY <1>2, ConversionsAssumption
    <3>2. d = c => pc'[d] = "read"
      BY <2>1 DEF FileInv, ControlOK
    <3>3. d # c => pc'[d] = pc[d] /\ ~alone'[d]
      BY <1>2, <2>1 DEF FileInv, ControlOK
    <3> QED
      BY <1>2, <2>1, <3>1, <3>2, <3>3 DEF FileInv, OwnsPath, OldIsGone
  <2> QED
    BY <2>2, <2>3 DEF FileInv
<1> QED
  BY <1>1, <1>2 DEF Open

LEMMA ReadInv ==
  ASSUME FileInv, NEW c \in Conversions, UNCHANGED <<job, pc, file, alone>> PROVE FileInv'
BY DEF FileInv, ControlOK, OwnsPath, OldIsGone

LEMMA GiveUpInv ==
  ASSUME FileInv, NEW c \in Conversions, NEW label \in {"error", "killed"},
         GoTo(c, label), UNCHANGED <<job, file, alone>>
  PROVE  FileInv'
<1>1. pc'[c] = label
  BY DEF GoTo, FileInv, ControlOK
<1>2. OwnsPath(c)' /\ OldIsGone(c)'
  BY <1>1 DEF OwnsPath, OldIsGone
<1> QED
  BY <1>2, QuietInv DEF Labels

LEMMA FinishInv == ASSUME FileInv, NEW c \in Conversions, Finish(c) PROVE FileInv'
<1>1. /\ pc[c] = "read" /\ pc' = [pc EXCEPT ![c] = "success"]
      /\ file' = Closed(c, "complete") /\ job' = job /\ alone' = alone
  BY DEF Finish, GoTo
<1>2. /\ file'.by = file.by
      /\ file.by # c => file' = file
      /\ file.by = c => file' = [by |-> c, state |-> "complete"]
      /\ file' \in [by : Conversions \cup {"nobody", "before"},
                    state : {"absent", "partial", "complete"}]
  BY <1>1 DEF Closed, FileInv, ControlOK
<1>3. ControlOK'
  BY <1>1, <1>2 DEF FileInv, ControlOK, Labels
<1>4. ASSUME NEW d \in Conversions
      PROVE  OwnsPath(d)' /\ OldIsGone(d)'
  <2>1. CASE d = c
    <3>1. pc'[c] = "success"
      BY <1>1 DEF FileInv, ControlOK
    <3>2. alone[c] => file.by = c
      BY <1>1 DEF FileInv, OwnsPath
    <3> QED
      BY <2>1, <1>1, <1>2, <3>1, <3>2 DEF OwnsPath, OldIsGone
  <2>2. CASE d # c
    <3>1. pc'[d] = pc[d]
      BY <2>2, <1>1 DEF FileInv, ControlOK
    <3>2. OwnsPath(d) /\ OldIsGone(d)
      BY DEF FileInv
    <3>3. Absent.by # c
      BY ConversionsAssumption DEF Absent
    <3>4. OwnsPath(d)'
      BY <2>2, <1>1, <1>2, <3>1, <3>2, <3>3 DEF OwnsPath
    <3> QED
      BY <1>1, <1>2, <3>1, <3>2, <3>4 DEF OldIsGone
  <2> QED
    BY <2>1, <2>2
<1> QED
  BY <1>3, <1>4 DEF FileInv

-----------------------------------------------------------------------------
(* The invariant of the output path holds in every execution.              *)
THEOREM FileInvariant == Spec => []FileInv
<1>1. FileInv /\ [Next]_vars => FileInv'
  <2> SUFFICES ASSUME FileInv, [Next]_vars PROVE FileInv'
    OBVIOUS
  <2>1. CASE UNCHANGED vars
    BY <2>1 DEF vars, FileInv, ControlOK, OwnsPath, OldIsGone
  <2>2. ASSUME NEW c \in Conversions, Step(c) PROVE FileInv'
    <3>1. CASE Begin(c) \/ Resolve(c) \/ Unlink(c) \/ Validate(c) \/ Open(c) \/ Finish(c)
      BY <3>1, BeginInv, ResolveInv, UnlinkInv, ValidateInv, OpenInv, FinishInv
    <3>2. CASE Crash(c)
      BY <3>2, GiveUpInv DEF Crash
    <3>3. CASE \E p \in Packets[c] : ReadPacket(c, p)
      BY <3>3, ReadInv DEF ReadPacket
    <3>4. CASE \E p \in Packets[c] : \E n \in 0 .. Len(Events(p, job[c].dbc)) : BreakOff(c, p, n)
      BY <3>4, GiveUpInv DEF BreakOff, Outcome
    <3> QED
      BY <2>2, <3>1, <3>2, <3>3, <3>4 DEF Step
  <2> QED
    BY <2>1, <2>2 DEF Next
<1> QED
  BY <1>1, FileInitInv, PTL DEF Spec

(* A conversion that reports success, and that no other got in the way of  *)
(* since it found the path free, has left its own trace there, whole.      *)
THEOREM SuccessAlwaysLeavesTrace == Spec => []SuccessLeavesTrace
<1>1. FileInv => SuccessLeavesTrace
  BY DEF FileInv, OwnsPath, SuccessLeavesTrace
<1> QED
  BY <1>1, FileInvariant, PTL

(* A file that was there when a conversion was asked for is not lost to a  *)
(* conversion without overwrite.                                           *)
THEOREM NothingLostWithoutOverwrite == Spec => NoLossWithoutOverwrite
<1> DEFINE Keeps == \A c \in Conversions :
             DoesAway(c) => job[c].overwrite \/ (file.by # "before" /\ ~alone[c])
<1>1. FileInv /\ [Next]_vars => Keeps
  <2> SUFFICES ASSUME FileInv, [Next]_vars, NEW c \in Conversions, DoesAway(c)
               PROVE  job[c].overwrite \/ (file.by # "before" /\ ~alone[c])
    OBVIOUS
  <2>1. pc'[c] # pc[c] /\ file # Absent /\ file'.by # file.by
    BY DEF DoesAway
  <2>2. PICK d \in Conversions : Step(d)
    BY <2>1 DEF Next, vars
  <2>3. d = c
    <3>1. \E label \in Labels : pc' = [pc EXCEPT ![d] = label] \/ pc' = pc
      BY <2>2 DEF Step, Begin, Resolve, Unlink, Validate, Open, Finish, Crash, ReadPacket,
                  BreakOff, Outcome, GoTo, Labels
    <3> QED
      BY <2>1, <3>1 DEF FileInv, ControlOK
  <2>4. pc[c] = "unlink" \/ pc[c] = "open"
    <3>1. ~Finish(c)
      BY <2>1 DEF Finish, Closed, FileInv, ControlOK
    <3> QED
      BY <2>1, <2>2, <2>3, <3>1 DEF Step, Begin, Resolve, Unlink, Validate, Open, Crash,
                                    ReadPacket, BreakOff
  <2> QED
    BY <2>1, <2>4 DEF FileInv, ControlOK, OwnsPath, OldIsGone
<1> QED
  BY <1>1, FileInvariant, PTL DEF Spec, NoLossWithoutOverwrite

-----------------------------------------------------------------------------
(* FlattenSeq, which SequencesExt defines recursively: IsFlat(f, ss, n)    *)
(* says that f[i] joins the first i of the sequences ss, for i up to n.    *)
IsFlat(f, ss, n) ==
  f = [i \in 1 .. n |-> IF i = 1 THEN ss[i] ELSE f[i - 1] \o ss[i]]

Joins(f, ss, n) ==
  /\ n # 0 => f[1] = ss[1]
  /\ \A k \in Nat : k # 0 /\ k + 1 <= n => f[k + 1] = f[k] \o ss[k + 1]

LEMMA FlatValues ==
  ASSUME NEW ss, NEW n \in Nat, NEW f, IsFlat(f, ss, n)
  PROVE  Joins(f, ss, n)
<1>1. \A i \in 1 .. n : f[i] = IF i = 1 THEN ss[i] ELSE f[i - 1] \o ss[i]
  BY Zenon DEF IsFlat
<1>2. ASSUME n # 0 PROVE f[1] = ss[1]
  <2>1. 1 \in 1 .. n
    BY <1>2
  <2> QED
    BY <1>1, <2>1
<1>3. ASSUME NEW k \in Nat, k # 0, k + 1 <= n PROVE f[k + 1] = f[k] \o ss[k + 1]
  <2>1. k + 1 \in 1 .. n /\ k + 1 # 1 /\ (k + 1) - 1 = k
    BY <1>3
  <2> QED
    BY <1>1, <2>1, Zenon
<1> QED
  BY <1>2, <1>3 DEF Joins

LEMMA FlatExists ==
  ASSUME NEW S, NEW ss \in Seq(Seq(S)), NEW n \in Nat, n <= Len(ss)
  PROVE  \E f \in [1 .. n -> Seq(S)] : IsFlat(f, ss, n)
<1> DEFINE T == {k \in Nat : k <= Len(ss) => \E f \in [1 .. k -> Seq(S)] : IsFlat(f, ss, k)}
<1>1. 0 \in T
  <2>1. [i \in 1 .. 0 |-> <<>>] \in [1 .. 0 -> Seq(S)]
    OBVIOUS
  <2>2. IsFlat([i \in 1 .. 0 |-> <<>>], ss, 0)
    BY DEF IsFlat
  <2> QED
    BY <2>1, <2>2
<1>2. ASSUME NEW k \in Nat, k \in T PROVE k + 1 \in T
  <2> SUFFICES ASSUME k + 1 <= Len(ss)
               PROVE  \E f \in [1 .. k + 1 -> Seq(S)] : IsFlat(f, ss, k + 1)
    OBVIOUS
  <2>1. PICK f \in [1 .. k -> Seq(S)] : IsFlat(f, ss, k)
    BY <1>2
  <2> DEFINE g == [i \in 1 .. k + 1 |-> IF i = 1 THEN ss[i] ELSE f[i - 1] \o ss[i]]
  <2>2. g \in [1 .. k + 1 -> Seq(S)]
    OBVIOUS
  <2>3. ASSUME NEW i \in 1 .. k + 1, i # 1 PROVE g[i - 1] = f[i - 1]
    <3>1. \A j \in 1 .. k : f[j] = IF j = 1 THEN ss[j] ELSE f[j - 1] \o ss[j]
      BY <2>1, Zenon DEF IsFlat
    <3>2. i - 1 \in 1 .. k /\ i - 1 \in 1 .. k + 1
      BY <2>3
    <3>3. g[i - 1] = IF i - 1 = 1 THEN ss[i - 1] ELSE f[(i - 1) - 1] \o ss[i - 1]
      BY <3>2, Zenon
    <3> QED
      BY <3>1, <3>2, <3>3, Zenon
  <2>4. IsFlat(g, ss, k + 1)
    <3>1. ASSUME NEW i \in 1 .. k + 1
          PROVE  g[i] = IF i = 1 THEN ss[i] ELSE g[i - 1] \o ss[i]
      BY <2>3, Zenon
    <3> QED
      BY <3>1, Zenon DEF IsFlat
  <2> QED
    BY <2>2, <2>4
<1> HIDE DEF T
<1>3. n \in T
  BY <1>1, <1>2, NumberInduction
<1> QED
  BY <1>3 DEF T

Agree(x, y, n) == \A i \in 1 .. n : x[i] = y[i]

LEMMA FlatUnique ==
  ASSUME NEW n \in Nat, NEW m \in Nat, m <= n, NEW ss, NEW zs, Agree(ss, zs, m),
         NEW f, NEW g, IsFlat(f, ss, m), IsFlat(g, zs, n)
  PROVE  Agree(f, g, m)
<1> DEFINE T == {k \in Nat : k \in 1 .. m => f[k] = g[k]}
<1>0. Joins(f, ss, m) /\ Joins(g, zs, n)
  BY FlatValues
<1>1. 0 \in T
  OBVIOUS
<1>2. ASSUME NEW k \in Nat, k \in T PROVE k + 1 \in T
  <2> SUFFICES ASSUME k + 1 \in 1 .. m PROVE f[k + 1] = g[k + 1]
    OBVIOUS
  <2>1. k + 1 <= m /\ k + 1 <= n /\ ss[k + 1] = zs[k + 1]
    BY DEF Agree
  <2>2. CASE k = 0
    <3>1. f[1] = ss[1] /\ g[1] = zs[1]
      BY <1>0, <2>1 DEF Joins
    <3> QED
      BY <2>1, <2>2, <3>1
  <2>3. CASE k # 0
    <3>1. f[k] = g[k]
      BY <1>2, <2>3
    <3>2. f[k + 1] = f[k] \o ss[k + 1]
      BY <1>0, <2>1, <2>3 DEF Joins
    <3>3. g[k + 1] = g[k] \o zs[k + 1]
      BY <1>0, <2>1, <2>3 DEF Joins
    <3> QED
      BY <2>1, <3>1, <3>2, <3>3
  <2> QED
    BY <2>2, <2>3
<1> HIDE DEF T
<1>3. Nat \subseteq T
  BY <1>1, <1>2, NumberInduction
<1> QED
  BY <1>3 DEF T, Agree

LEMMA FlattenIsFlat ==
  ASSUME NEW S, NEW ss \in Seq(Seq(S)), Len(ss) # 0
  PROVE  \E f \in [1 .. Len(ss) -> Seq(S)] : IsFlat(f, ss, Len(ss)) /\ FlattenSeq(ss) = f[Len(ss)]
<1> PICK n \in Nat : n = Len(ss)
  OBVIOUS
<1>1. PICK f \in [1 .. n -> Seq(S)] : IsFlat(f, ss, n)
  BY FlatExists
<1> DEFINE flatten == CHOOSE h : h = [i \in 1 .. n |-> IF i = 1 THEN ss[i] ELSE h[i - 1] \o ss[i]]
<1>2. FlattenSeq(ss) = flatten[n]
  BY DEF FlattenSeq
<1>3. flatten = [i \in 1 .. n |-> IF i = 1 THEN ss[i] ELSE flatten[i - 1] \o ss[i]]
  BY <1>1 DEF IsFlat
<1> HIDE DEF flatten
<1>4. IsFlat(flatten, ss, n)
  BY <1>3 DEF IsFlat
<1>5. n \in 1 .. n
  OBVIOUS
<1>6. flatten[n] = f[n]
  <2>1. n <= n /\ Agree(ss, ss, n)
    BY DEF Agree
  <2>2. Agree(f, flatten, n)
    BY <1>1, <1>4, <2>1, FlatUnique
  <2> QED
    BY <1>5, <2>2 DEF Agree
<1> QED
  BY <1>1, <1>2, <1>6

(* One more sequence is one more piece at the end.                         *)
LEMMA FlattenAppend ==
  ASSUME NEW S, NEW ss \in Seq(Seq(S)), NEW s \in Seq(S)
  PROVE  /\ FlattenSeq(ss) \in Seq(S)
         /\ FlattenSeq(Append(ss, s)) = FlattenSeq(ss) \o s
<1> PICK n, zs : n = Len(ss) /\ zs = Append(ss, s)
  OBVIOUS
<1>1. /\ n \in Nat /\ zs \in Seq(Seq(S)) /\ Len(zs) = n + 1 /\ zs[n + 1] = s
      /\ \A i \in 1 .. n : zs[i] = ss[i]
  OBVIOUS
<1>2. PICK g \in [1 .. Len(zs) -> Seq(S)] : IsFlat(g, zs, Len(zs)) /\ FlattenSeq(zs) = g[Len(zs)]
  <2>1. Len(zs) # 0
    BY <1>1
  <2> QED
    BY <1>1, <2>1, FlattenIsFlat
<1>0. n + 1 \in Nat /\ Joins(g, zs, n + 1)
  BY <1>1, <1>2, FlatValues
<1>3. CASE n = 0
  <2>1. FlattenSeq(ss) = <<>>
    <3>1. ss = <<>>
      BY <1>3, EmptySeq
    <3> QED
      BY <3>1 DEF FlattenSeq
  <2>2. g[n + 1] = zs[n + 1]
    BY <1>0, <1>1, <1>3 DEF Joins
  <2>3. FlattenSeq(zs) = s
    BY <1>1, <1>2, <2>2
  <2> QED
    BY <2>1, <2>3
<1>4. CASE n # 0
  <2>1. PICK f \in [1 .. n -> Seq(S)] : IsFlat(f, ss, n) /\ FlattenSeq(ss) = f[n]
    BY <1>4, FlattenIsFlat
  <2>2. \A i \in 1 .. n : f[i] = g[i]
    <3>1. n <= n + 1 /\ Agree(ss, zs, n)
      BY <1>1 DEF Agree
    <3>2. IsFlat(g, zs, n + 1) /\ n + 1 \in Nat /\ n \in Nat
      BY <1>1, <1>2
    <3>3. Agree(f, g, n)
      BY <2>1, <3>1, <3>2, FlatUnique
    <3> QED
      BY <3>3 DEF Agree
  <2>3. g[n + 1] = g[n] \o zs[n + 1]
    <3>1. n \in Nat /\ n + 1 <= n + 1
      BY <1>1
    <3> QED
      BY <1>0, <1>4, <3>1, Zenon DEF Joins
  <2>4. n \in 1 .. n
    BY <1>1, <1>4
  <2> QED
    BY <1>1, <1>2, <2>1, <2>2, <2>3, <2>4
<1> QED
  BY <1>3, <1>4

LEMMA FlattenOfNothing == FlattenSeq(<<>>) = <<>>
BY DEF FlattenSeq

-----------------------------------------------------------------------------
(* The V2G rows among rows.                                                *)
Own(x) == IF x.event \in V2gEventNames THEN <<x>> ELSE <<>>
Owns(rows) == [i \in DOMAIN rows |-> Own(rows[i])]

LEMMA V2gRowsNone == V2gRows(<<>>) = <<>>
<1>1. [i \in DOMAIN <<>> |-> IF <<>>[i].event \in V2gEventNames THEN <<<<>>[i]>> ELSE <<>>] = <<>>
  OBVIOUS
<1> QED
  BY <1>1, FlattenOfNothing DEF V2gRows

LEMMA OwnRow == ASSUME NEW x \in Row PROVE Own(x) \in Seq(Row)
BY DEF Own

LEMMA OwnsRows == ASSUME NEW r \in Seq(Row) PROVE Owns(r) \in Seq(Seq(Row)) /\ Len(Owns(r)) = Len(r)
<1>1. \A i \in 1 .. Len(r) : Own(r[i]) \in Seq(Row)
  BY OwnRow
<1>2. DOMAIN r = 1 .. Len(r) /\ Len(r) \in Nat
  OBVIOUS
<1> QED
  BY <1>1, <1>2 DEF Owns

LEMMA V2gRowsType == ASSUME NEW r \in Seq(Row) PROVE V2gRows(r) \in Seq(Row)
<1>1. V2gRows(r) = FlattenSeq(Owns(r))
  BY Zenon DEF V2gRows, Owns, Own
<1>2. Owns(r) \in Seq(Seq(Row)) /\ <<>> \in Seq(Row)
  BY OwnsRows
<1> QED
  BY <1>1, <1>2, FlattenAppend

LEMMA V2gRowsAppend ==
  ASSUME NEW r \in Seq(Row), NEW x \in Row
  PROVE  /\ V2gRows(r) \in Seq(Row)
         /\ V2gRows(Append(r, x)) = V2gRows(r) \o Own(x)
<1>1. V2gRows(r) = FlattenSeq(Owns(r)) /\ V2gRows(Append(r, x)) = FlattenSeq(Owns(Append(r, x)))
  BY Zenon DEF V2gRows, Owns, Own
<1>2. Owns(Append(r, x)) = Append(Owns(r), Own(x))
  <2> PICK s, os, ox : s = Append(r, x) /\ os = Owns(r) /\ ox = Own(x)
    OBVIOUS
  <2>1. /\ s \in Seq(Row) /\ Len(s) = Len(r) + 1 /\ s[Len(r) + 1] = x
        /\ \A i \in 1 .. Len(r) : s[i] = r[i]
    OBVIOUS
  <2>2. Owns(s) \in Seq(Seq(Row)) /\ Len(Owns(s)) = Len(r) + 1
    BY <2>1, OwnsRows
  <2>3. \A i \in 1 .. Len(s) : Owns(s)[i] = Own(s[i])
    BY <2>1 DEF Owns
  <2>4. \A i \in 1 .. Len(r) : os[i] = Own(r[i])
    BY DEF Owns
  <2>5. os \in Seq(Seq(Row)) /\ Len(os) = Len(r) /\ ox \in Seq(Row)
    BY OwnsRows, OwnRow
  <2>6. \A i \in 1 .. Len(r) + 1 : Owns(s)[i] = Append(os, ox)[i]
    <3>1. ASSUME NEW i \in 1 .. Len(r) PROVE Owns(s)[i] = Append(os, ox)[i]
      <4>1. Append(os, ox)[i] = os[i]
        BY <2>5
      <4>2. i \in 1 .. Len(s) /\ s[i] = r[i]
        BY <2>1
      <4> QED
        BY <2>3, <2>4, <4>1, <4>2
    <3>2. Owns(s)[Len(r) + 1] = Append(os, ox)[Len(r) + 1]
      <4>1. Append(os, ox)[Len(r) + 1] = ox
        BY <2>5
      <4>2. Len(r) + 1 \in 1 .. Len(s)
        BY <2>1
      <4> QED
        BY <2>1, <2>3, <4>1, <4>2
    <3>3. \A i \in 1 .. Len(r) + 1 : i \in 1 .. Len(r) \/ i = Len(r) + 1
      OBVIOUS
    <3> QED
      BY <3>1, <3>2, <3>3, Zenon
  <2>7. Append(os, ox) \in Seq(Seq(Row)) /\ Len(Append(os, ox)) = Len(r) + 1
    BY <2>5
  <2>8. Owns(s) = Append(os, ox)
    BY <2>2, <2>6, <2>7, SeqEqual
  <2> QED
    BY <2>8
<1>3. Owns(r) \in Seq(Seq(Row)) /\ Own(x) \in Seq(Row)
  BY OwnsRows, OwnRow
<1> QED
  BY <1>1, <1>2, <1>3, FlattenAppend

LEMMA AppendAfter ==
  ASSUME NEW S, NEW s \in Seq(S), NEW t \in Seq(S), NEW x \in S
  PROVE  s \o Append(t, x) = Append(s \o t, x) /\ s \o t \in Seq(S)
<1>1. <<x>> \in Seq(S) /\ s \o t \in Seq(S)
  OBVIOUS
<1>2. Append(t, x) = t \o <<x>> /\ Append(s \o t, x) = (s \o t) \o <<x>>
  BY <1>1, AppendIsConcat
<1>3. (s \o t) \o <<x>> = s \o (t \o <<x>>)
  BY <1>1, ConcatAssociative
<1> QED
  BY <1>1, <1>2, <1>3

(* The rows of a frame that carries V2G traffic are all V2G rows.          *)
AllV2g(t) == \A i \in 1 .. Len(t) : t[i].event \in V2gEventNames

LEMMA V2gRowsConcat ==
  ASSUME NEW r \in Seq(Row), NEW t \in Seq(Row), AllV2g(t)
  PROVE  V2gRows(r \o t) = V2gRows(r) \o t
<1> DEFINE S(k) == SubSeq(t, 1, k)
<1> DEFINE T == {k \in Nat : k <= Len(t) => V2gRows(r \o S(k)) = V2gRows(r) \o S(k)}
<1>1. V2gRows(r) \in Seq(Row)
  BY V2gRowsType
<1>2. 0 \in T
  <2>1. S(0) = <<>>
    BY SubSeqEmpty
  <2>2. r \o <<>> = r /\ V2gRows(r) \o <<>> = V2gRows(r)
    BY <1>1, ConcatEmptySeq
  <2> QED
    BY <2>1, <2>2
<1>3. ASSUME NEW k \in Nat, k \in T PROVE k + 1 \in T
  <2> SUFFICES ASSUME k + 1 <= Len(t) PROVE V2gRows(r \o S(k + 1)) = V2gRows(r) \o S(k + 1)
    OBVIOUS
  <2>1. V2gRows(r \o S(k)) = V2gRows(r) \o S(k)
    BY <1>3
  <2> PICK x : x = t[k + 1]
    OBVIOUS
  <2>2. k + 1 \in 1 .. Len(t) /\ x \in Row /\ x.event \in V2gEventNames
    BY DEF AllV2g
  <2>3. S(k) \in Seq(Row) /\ S(k + 1) = Append(S(k), x)
    BY <2>2, SubSeqProperties, SubSeqRecursiveSecond
  <2> PICK u, v : u = S(k) /\ v = V2gRows(r)
    OBVIOUS
  <2>4. u \in Seq(Row) /\ v \in Seq(Row) /\ r \in Seq(Row)
    BY <1>1, <2>3
  <2>5. r \o u \in Seq(Row)
    BY <2>4
  <2>6. r \o Append(u, x) = Append(r \o u, x)
    BY <2>2, <2>4, AppendAfter
  <2>7. V2gRows(Append(r \o u, x)) = (v \o u) \o <<x>>
    <3>1. Own(x) = <<x>>
      BY <2>2 DEF Own
    <3> QED
      BY <2>1, <2>2, <2>5, <3>1, V2gRowsAppend
  <2>8. v \o u \in Seq(Row) /\ (v \o u) \o <<x>> = Append(v \o u, x)
    BY <2>2, <2>4, AppendIsConcat
  <2>9. v \o Append(u, x) = Append(v \o u, x)
    BY <2>2, <2>4, AppendAfter
  <2> QED
    BY <2>3, <2>5, <2>6, <2>7, <2>8, <2>9
<1> HIDE DEF T
<1>4. Len(t) \in T
  <2>1. Len(t) \in Nat
    OBVIOUS
  <2> QED
    BY <1>2, <1>3, <2>1, NumberInduction
<1>5. S(Len(t)) = t
  BY SubSeqFull
<1>6. V2gRows(r \o S(Len(t))) = V2gRows(r) \o S(Len(t))
  <2>1. Len(t) <= Len(t)
    OBVIOUS
  <2> QED
    BY <1>4, <2>1 DEF T
<1> QED
  BY <1>5, <1>6

(* CAN rows are none of them.                                              *)
LEMMA V2gRowsCan ==
  ASSUME NEW r \in Seq(Row), NEW x \in Row, x.event \notin V2gEventNames
  PROVE  V2gRows(Append(r, x)) = V2gRows(r)
<1>1. Own(x) = <<>>
  BY DEF Own
<1>2. V2gRows(r) \in Seq(Row) /\ V2gRows(Append(r, x)) = V2gRows(r) \o Own(x)
  BY V2gRowsAppend
<1> QED
  BY <1>1, <1>2, ConcatEmptySeq

-----------------------------------------------------------------------------
(* What is logged for a packet.                                            *)
LEMMA EventsOfType ==
  ASSUME NEW r, NEW link, IsRecord(r, link)
  PROVE  EventsOf(r) \in Seq(V2gEventNames)
<1>1. CASE r.kind # "slac"
  <2>1. r.kind \in V2gEventNames
    BY <1>1 DEF IsRecord, V2gEventNames
  <2> QED
    BY <1>1, <2>1 DEF EventsOf
<1>2. CASE r.kind = "slac"
  <2>1. "slac" \in V2gEventNames /\ "slac_attenuation" \in V2gEventNames
        /\ "slac_match" \in V2gEventNames
    BY DEF V2gEventNames
  <2> QED
    BY <1>2, <2>1 DEF EventsOf
<1> QED
  BY <1>1, <1>2

HeldEvents(p) == [i \in DOMAIN p.holds |-> EventsOf(p.holds[i])]

LEMMA V2gEventsType ==
  ASSUME NEW c \in Conversions, NEW p \in Packets[c]
  PROVE  V2gEvents(p) \in Seq(V2gEventNames)
<1> PICK h : h = p.holds
  OBVIOUS
<1>1. h \in Seq(Range(h)) /\ \A r \in Range(h) : IsRecord(r, p.link)
  BY PacketsAssumption
<1>2. \A i \in 1 .. Len(h) : h[i] \in Range(h)
  BY <1>1
<1>3. \A i \in 1 .. Len(h) : EventsOf(h[i]) \in Seq(V2gEventNames)
  BY <1>1, <1>2, EventsOfType
<1>4. DOMAIN h = 1 .. Len(h) /\ Len(h) \in Nat
  BY <1>1
<1>5. HeldEvents(p) \in Seq(Seq(V2gEventNames))
  BY <1>3, <1>4 DEF HeldEvents
<1>6. V2gEvents(p) = FlattenSeq(HeldEvents(p))
  BY DEF V2gEvents, HeldEvents
<1>7. <<>> \in Seq(V2gEventNames)
  OBVIOUS
<1> QED
  BY <1>5, <1>6, <1>7, FlattenAppend

LEMMA CanEventsType ==
  ASSUME NEW p, NEW dbc
  PROVE  /\ CanEvents(p, dbc) \in Seq(EventNames)
         /\ CanEvents(p, dbc) = <<"can_raw">> \/ CanEvents(p, dbc) = <<"can_raw", "can_codec">>
<1>1. "can_raw" \in EventNames /\ "can_codec" \in EventNames
  BY DEF EventNames
<1> QED
  BY <1>1 DEF CanEvents

LEMMA EventsType ==
  ASSUME NEW c \in Conversions, NEW p \in Packets[c], NEW dbc
  PROVE  Events(p, dbc) \in Seq(EventNames) /\ Len(Events(p, dbc)) \in Nat
<1>1. V2gEventNames \subseteq EventNames
  BY DEF V2gEventNames, EventNames
<1>2. V2gEvents(p) \in Seq(EventNames)
  <2> PICK e : e = V2gEvents(p)
    OBVIOUS
  <2>1. e \in Seq(V2gEventNames)
    BY V2gEventsType
  <2> QED
    BY <1>1, <2>1
<1>3. <<>> \in Seq(EventNames)
  OBVIOUS
<1> QED
  BY <1>2, <1>3, CanEventsType DEF Events

LEMMA RowsType ==
  ASSUME NEW p, p.ts \in Nat, NEW E, E \subseteq EventNames, NEW events \in Seq(E)
  PROVE  /\ RowsOf(p, events) \in Seq(Row)
         /\ Len(RowsOf(p, events)) = Len(events)
         /\ \A i \in 1 .. Len(events) : /\ RowsOf(p, events)[i].event = events[i]
                                        /\ RowsOf(p, events)[i].ts = p.ts
<1>1. \A i \in 1 .. Len(events) : [event |-> events[i], ts |-> p.ts] \in Row
  BY DEF Row
<1> QED
  BY <1>1 DEF RowsOf

(* What live mode would log for one packet, and one packet further on.     *)
LiveOf(p, links) == IF p.link \in links THEN RowsOf(p, V2gEvents(p)) ELSE <<>>
LivePerPacket(read, links) == [i \in DOMAIN read |-> LiveOf(read[i], links)]

LEMMA LivePerPacketType ==
  ASSUME NEW c \in Conversions, NEW read \in Seq(Packets[c]), NEW links
  PROVE  /\ LivePerPacket(read, links) \in Seq(Seq(Row))
         /\ Len(LivePerPacket(read, links)) = Len(read)
         /\ \A i \in 1 .. Len(read) : LivePerPacket(read, links)[i] = LiveOf(read[i], links)
<1>1. ASSUME NEW p \in Packets[c] PROVE LiveOf(p, links) \in Seq(Row)
  <2>1. V2gEventNames \subseteq EventNames
    BY DEF V2gEventNames, EventNames
  <2>2. p.ts \in Nat
    BY PacketsAssumption
  <2>3. RowsOf(p, V2gEvents(p)) \in Seq(Row)
    BY <2>1, <2>2, V2gEventsType, RowsType
  <2>4. <<>> \in Seq(Row)
    OBVIOUS
  <2> QED
    BY <2>3, <2>4, Zenon DEF LiveOf
<1>2. \A i \in 1 .. Len(read) : LiveOf(read[i], links) \in Seq(Row)
  BY <1>1
<1>3. DOMAIN read = 1 .. Len(read) /\ Len(read) \in Nat
  OBVIOUS
<1> QED
  BY <1>2, <1>3 DEF LivePerPacket

LEMMA LiveRowsAppend ==
  ASSUME NEW c \in Conversions, NEW read \in Seq(Packets[c]), NEW p \in Packets[c], NEW links
  PROVE  LiveRows(Append(read, p), links) = LiveRows(read, links) \o LiveOf(p, links)
<1> PICK n, s, x : n = Len(read) /\ s = Append(read, p) /\ x = LiveOf(p, links)
  OBVIOUS
<1>1. /\ n \in Nat /\ s \in Seq(Packets[c]) /\ Len(s) = n + 1 /\ s[n + 1] = p
      /\ \A i \in 1 .. n : s[i] = read[i]
  OBVIOUS
<1> PICK l, m : l = LivePerPacket(read, links) /\ m = LivePerPacket(s, links)
  OBVIOUS
<1>2. l \in Seq(Seq(Row)) /\ Len(l) = n
      /\ \A i \in 1 .. n : l[i] = LiveOf(read[i], links)
  BY LivePerPacketType
<1>3. m \in Seq(Seq(Row)) /\ Len(m) = n + 1
      /\ \A i \in 1 .. n + 1 : m[i] = LiveOf(s[i], links)
  BY <1>1, LivePerPacketType
<1>4. m[n + 1] = x /\ x \in Seq(Row)
  <2>1. n + 1 \in 1 .. n + 1 /\ n + 1 \in 1 .. Len(m)
    BY <1>1, <1>3
  <2>2. m[n + 1] = x
    BY <1>1, <1>3, <2>1
  <2>3. m[n + 1] \in Seq(Row)
    BY <1>3, <2>1
  <2> QED
    BY <2>2, <2>3
<1>5. \A i \in 1 .. n : m[i] = l[i]
  <2>1. \A i \in 1 .. n : i \in 1 .. n + 1
    BY <1>1
  <2> QED
    BY <1>1, <1>2, <1>3, <2>1
<1>6. m = Append(l, x)
  <2> PICK a : a = Append(l, x)
    OBVIOUS
  <2>1. a \in Seq(Seq(Row)) /\ Len(a) = n + 1 /\ a[n + 1] = x /\ \A i \in 1 .. n : a[i] = l[i]
    BY <1>2, <1>4
  <2>2. \A i \in 1 .. n + 1 : i \in 1 .. n \/ i = n + 1
    BY <1>1
  <2>3. \A i \in 1 .. Len(m) : m[i] = a[i]
    BY <1>3, <1>4, <1>5, <2>1, <2>2
  <2> QED
    BY <1>3, <2>1, <2>3, SeqEqual
<1>7. LiveRows(read, links) = FlattenSeq(l) /\ LiveRows(s, links) = FlattenSeq(m)
  BY DEF LiveRows, LivePerPacket, LiveOf
<1> QED
  BY <1>2, <1>4, <1>6, <1>7, FlattenAppend

-----------------------------------------------------------------------------
(* Counting rows: those named k in what is appended add to those before.   *)
Named(rows, k) == {i \in DOMAIN rows : rows[i].event = k}
NamedIn(events, k) == {i \in DOMAIN events : events[i] = k}

Shifted(A, B, n) == A \cup {n + i : i \in B}

LEMMA ShiftedCount ==
  ASSUME NEW n \in Nat, NEW m \in Nat, 
         NEW A \in SUBSET (1 .. n), NEW B \in SUBSET (1 .. m)
  PROVE  /\ IsFiniteSet(A) /\ IsFiniteSet(B)
         /\ Cardinality(A) \in Nat /\ Cardinality(B) \in Nat
         /\ Cardinality(Shifted(A, B, n)) = Cardinality(A) + Cardinality(B)
<1>1. IsFiniteSet(1 .. n) /\ IsFiniteSet(1 .. m)
  BY FS_Interval
<1>2. /\ IsFiniteSet(A) /\ IsFiniteSet(B)
      /\ Cardinality(A) \in Nat /\ Cardinality(B) \in Nat
  BY <1>1, FS_Subset, FS_CardinalityType
<1> PICK C : C = {n + i : i \in B}
  OBVIOUS
<1>3. IsFiniteSet(C) /\ Cardinality(C) = Cardinality(B)
  <2> DEFINE f == [i \in B |-> n + i]
  <2>1. f \in [B -> C]
    OBVIOUS
  <2>2. \A i \in B : f[i] = n + i
    OBVIOUS
  <2>3. \A i, j \in B : f[i] = f[j] => i = j
    OBVIOUS
  <2>4. \A y \in C : \E i \in B : f[i] = y
    OBVIOUS
  <2> HIDE DEF f
  <2>5. f \in Bijection(B, C)
    BY <2>1, <2>3, <2>4 DEF Bijection, Injection, Surjection, IsInjective
  <2>6. ExistsBijection(B, C)
    BY <2>5 DEF ExistsBijection
  <2> QED
    BY <1>2, <2>6, FS_Bijection
<1>4. A \cap C = {}
  OBVIOUS
<1>5. Cardinality(A \cup C) = Cardinality(A) + Cardinality(C) - Cardinality({})
  BY <1>2, <1>3, <1>4, FS_Union
<1>6. Cardinality({}) = 0
  BY FS_EmptySet
<1> QED
  BY <1>2, <1>3, <1>5, <1>6 DEF Shifted

LEMMA NamedConcat ==
  ASSUME NEW r \in Seq(Row), NEW t \in Seq(Row), NEW k
  PROVE  /\ Cardinality(Named(r, k)) \in Nat /\ Cardinality(Named(t, k)) \in Nat
         /\ Cardinality(Named(r \o t, k)) = Cardinality(Named(r, k)) + Cardinality(Named(t, k))
         /\ Named(r \o t, k) = {} <=> Named(r, k) = {} /\ Named(t, k) = {}
<1> PICK n, m, s : n = Len(r) /\ m = Len(t) /\ s = r \o t
  OBVIOUS
<1>1. /\ n \in Nat /\ m \in Nat /\ DOMAIN r = 1 .. n /\ DOMAIN t = 1 .. m /\ DOMAIN s = 1 .. n + m
      /\ \A i \in 1 .. n : s[i] = r[i]
      /\ \A i \in 1 .. m : s[n + i] = t[i]
  OBVIOUS
<1> PICK A, B : A = Named(r, k) /\ B = Named(t, k)
  OBVIOUS
<1>2. A \in SUBSET (1 .. n) /\ B \in SUBSET (1 .. m)
  BY <1>1 DEF Named
<1>3. Named(s, k) = Shifted(A, B, n)
  <2>1. ASSUME NEW i \in Named(s, k) PROVE i \in A \cup {n + j : j \in B}
    <3>1. i \in 1 .. n + m /\ s[i].event = k
      BY <1>1 DEF Named
    <3>2. CASE i \in 1 .. n
      BY <1>1, <3>1, <3>2 DEF Named
    <3>3. CASE i \notin 1 .. n
      <4>1. i - n \in 1 .. m /\ n + (i - n) = i
        BY <1>1, <3>1, <3>3
      <4>2. t[i - n].event = k
        BY <1>1, <3>1, <4>1
      <4>3. i - n \in B
        BY <1>1, <4>1, <4>2 DEF Named
      <4> QED
        BY <4>1, <4>3
    <3> QED
      BY <3>2, <3>3
  <2>2. ASSUME NEW i \in A PROVE i \in Named(s, k)
    BY <1>1 DEF Named
  <2>3. ASSUME NEW i \in B PROVE n + i \in Named(s, k)
    <3>1. i \in 1 .. m /\ t[i].event = k
      BY <1>1 DEF Named
    <3>2. n + i \in 1 .. n + m /\ s[n + i].event = k
      BY <1>1, <3>1
    <3> QED
      BY <1>1, <3>2 DEF Named
  <2> QED
    BY <2>1, <2>2, <2>3 DEF Shifted
<1>4. /\ Cardinality(A) \in Nat /\ Cardinality(B) \in Nat
      /\ Cardinality(Shifted(A, B, n)) = Cardinality(A) + Cardinality(B)
  BY <1>1, <1>2, ShiftedCount, Zenon
<1>5. Shifted(A, B, n) = {} <=> A = {} /\ B = {}
  BY DEF Shifted
<1> QED
  BY <1>3, <1>4, <1>5

LEMMA NamedRows ==
  ASSUME NEW p, p.ts \in Nat, NEW events \in Seq(EventNames), NEW k
  PROVE  Named(RowsOf(p, events), k) = NamedIn(events, k)
<1> PICK rows : rows = RowsOf(p, events)
  OBVIOUS
<1>1. rows \in Seq(Row) /\ Len(rows) = Len(events)
      /\ \A i \in 1 .. Len(events) : rows[i].event = events[i]
  BY RowsType
<1>2. DOMAIN rows = 1 .. Len(events) /\ DOMAIN events = 1 .. Len(events)
  BY <1>1
<1>3. Named(rows, k) = NamedIn(events, k)
  BY <1>1, <1>2 DEF Named, NamedIn
<1> QED
  BY <1>3

-----------------------------------------------------------------------------
(* What a conversion has read and made of it.                              *)
AllPackets == UNION {Packets[c] : c \in Conversions}

WorkType ==
  [read : Seq(AllPackets), rows : Seq(Row), counts : [Counters -> Nat],
   span : {<<>>} \cup (Nat \X Nat), ingest : BOOLEAN]

(* The span of the rows: from the earliest to the latest of them.          *)
Spanned(rows, span) ==
  /\ span = <<>> <=> rows = <<>>
  /\ rows # <<>> =>
       /\ \A i \in DOMAIN rows : span[1] <= rows[i].ts /\ rows[i].ts <= span[2]
       /\ \E i \in DOMAIN rows : rows[i].ts = span[1]
       /\ \E i \in DOMAIN rows : rows[i].ts = span[2]

Reported(w) ==
  /\ w.ingest <=> Named(w.rows, "can_raw") # {}
  /\ \A k \in Counters : w.counts[k] = Cardinality(Named(w.rows, k))
  /\ Spanned(w.rows, w.span)

LEMMA TrackType ==
  ASSUME NEW s \in {<<>>} \cup (Nat \X Nat), NEW t \in Nat
  PROVE  Track(s, t) \in Nat \X Nat
<1>1. CASE s = <<>>
  BY <1>1 DEF Track
<1>2. CASE s # <<>>
  <2>1. s[1] \in Nat /\ s[2] \in Nat
    BY <1>2
  <2> QED
    BY <1>2, <2>1 DEF Track
<1> QED
  BY <1>1, <1>2

(* The rows of one more packet, all of its time, widen the span by it.     *)
LEMMA TrackSpans ==
  ASSUME NEW r \in Seq(Row), NEW t \in Seq(Row), t # <<>>, NEW ts \in Nat,
         \A i \in 1 .. Len(t) : t[i].ts = ts,
         NEW span \in {<<>>} \cup (Nat \X Nat), Spanned(r, span)
  PROVE  Spanned(r \o t, Track(span, ts))
<1> PICK n, m, s, u : n = Len(r) /\ m = Len(t) /\ s = r \o t /\ u = Track(span, ts)
  OBVIOUS
<1>1. /\ n \in Nat /\ m \in Nat /\ DOMAIN r = 1 .. n /\ DOMAIN s = 1 .. n + m /\ s \in Seq(Row)
      /\ \A i \in 1 .. n : s[i] = r[i]
      /\ \A i \in 1 .. m : s[n + i] = t[i]
  OBVIOUS
<1>2. m # 0 /\ 1 \in 1 .. m
  <2>1. m # 0
    BY EmptySeq
  <2> QED
    BY <1>1, <2>1
<1>3. s # <<>> /\ u # <<>>
  <2>1. 1 \in DOMAIN s
    BY <1>1, <1>2
  <2>2. s # <<>>
    BY <2>1
  <2>3. u \in Nat \X Nat
    BY TrackType
  <2>4. u # <<>>
    <3>1. PICK x, y \in Nat : u = <<x, y>>
      BY <2>3
    <3>2. Len(<<x, y>>) # Len(<<>>)
      OBVIOUS
    <3> QED
      BY <3>1, <3>2
  <2> QED
    BY <2>2, <2>4
<1>4. \A i \in 1 .. n + m : i \in 1 .. n \/ (i - n \in 1 .. m /\ s[i].ts = ts)
  <2> SUFFICES ASSUME NEW i \in 1 .. n + m, i \notin 1 .. n
               PROVE  i - n \in 1 .. m /\ s[i].ts = ts
    OBVIOUS
  <2>1. i - n \in 1 .. m /\ n + (i - n) = i
    BY <1>1
  <2> QED
    BY <1>1, <2>1
<1>5. n + 1 \in 1 .. n + m /\ s[n + 1].ts = ts
  BY <1>1, <1>2
<1>6. CASE span = <<>>
  <2>1. n = 0 /\ u = <<ts, ts>>
    BY <1>6 DEF Spanned, Track
  <2>2. \A i \in 1 .. n + m : s[i].ts = ts
    BY <1>1, <1>4, <2>1
  <2> QED
    BY <1>1, <1>3, <1>5, <2>1, <2>2 DEF Spanned
<1>7. CASE span # <<>>
  <2>1. r # <<>> /\ span[1] \in Nat /\ span[2] \in Nat
    BY <1>7 DEF Spanned
  <2> PICK a, b : a = span[1] /\ b = span[2]
    OBVIOUS
  <2>2. u[1] = (IF ts < a THEN ts ELSE a) /\ u[2] = (IF ts > b THEN ts ELSE b)
    BY <1>7 DEF Track
  <2>3. /\ \A i \in 1 .. n : a <= s[i].ts /\ s[i].ts <= b /\ s[i].ts \in Nat
        /\ \E i \in 1 .. n : s[i].ts = a
        /\ \E i \in 1 .. n : s[i].ts = b
    <3>1. \A x \in Row : x.ts \in Nat
      BY DEF Row
    <3>2. \A i \in 1 .. n : r[i] \in Row
      BY <1>1
    <3> QED
      BY <1>1, <2>1, <3>1, <3>2 DEF Spanned
  <2>4. \A i \in 1 .. n + m : u[1] <= s[i].ts /\ s[i].ts <= u[2]
    <3>1. u[1] <= a /\ u[1] <= ts /\ b <= u[2] /\ ts <= u[2] /\ u[1] \in Nat /\ u[2] \in Nat
      BY <2>1, <2>2
    <3>2. \A i \in 1 .. n : u[1] <= s[i].ts /\ s[i].ts <= u[2]
      BY <2>1, <2>3, <3>1, SMTT(30)
    <3> QED
      BY <1>4, <3>1, <3>2
  <2>5. \A i \in 1 .. n : i \in 1 .. n + m
    BY <1>1
  <2>6. (\E i \in 1 .. n + m : s[i].ts = u[1]) /\ (\E i \in 1 .. n + m : s[i].ts = u[2])
    BY <1>5, <2>1, <2>2, <2>3, <2>5
  <2> QED
    BY <1>1, <1>3, <2>4, <2>6 DEF Spanned
<1> QED
  BY <1>6, <1>7

-----------------------------------------------------------------------------
(* A packet that is read keeps the work well-typed, and the statistics in  *)
(* line with the rows.                                                     *)
LEMMA AfterPacketType ==
  ASSUME NEW w \in WorkType, NEW c \in Conversions, NEW p \in Packets[c],
         NEW events \in Seq(EventNames)
  PROVE  /\ AfterPacket(w, p, events) \in WorkType
         /\ w.read \in Seq(Packets[c]) => AfterPacket(w, p, events).read \in Seq(Packets[c])
         /\ \A k \in Counters :
              AfterPacket(w, p, events).counts[k] = w.counts[k] + Cardinality(NamedIn(events, k))
<1>1. /\ w.read \in Seq(AllPackets) /\ w.rows \in Seq(Row) /\ w.counts \in [Counters -> Nat]
      /\ w.span \in {<<>>} \cup (Nat \X Nat) /\ w.ingest \in BOOLEAN
  BY DEF WorkType
<1>2. p \in AllPackets /\ p.ts \in Nat
  BY PacketsAssumption DEF AllPackets
<1>3. \A k \in Counters : Cardinality(NamedIn(events, k)) \in Nat
  <2> SUFFICES ASSUME NEW k \in Counters PROVE Cardinality(NamedIn(events, k)) \in Nat
    OBVIOUS
  <2>1. NamedIn(events, k) \in SUBSET (1 .. Len(events)) /\ Len(events) \in Nat
    BY DEF NamedIn
  <2>2. IsFiniteSet(1 .. Len(events))
    BY <2>1, FS_Interval
  <2> QED
    BY <2>1, <2>2, FS_Subset, FS_CardinalityType
<1> PICK a : a = AfterPacket(w, p, events)
  OBVIOUS
<1>4. a = [read   |-> Append(w.read, p), rows |-> w.rows \o RowsOf(p, events),
           counts |-> Count(w.counts, events),
           span   |-> IF events = <<>> THEN w.span ELSE Track(w.span, p.ts),
           ingest |-> w.ingest \/ \E i \in DOMAIN events : events[i] = "can_raw"]
  BY DEF AfterPacket
<1>5. /\ Append(w.read, p) \in Seq(AllPackets)
      /\ w.read \in Seq(Packets[c]) => Append(w.read, p) \in Seq(Packets[c])
  <2>1. ASSUME NEW S, NEW s \in Seq(S), NEW x \in S PROVE Append(s, x) \in Seq(S)
    OBVIOUS
  <2> QED
    BY <1>1, <1>2, <2>1
<1>6. w.rows \o RowsOf(p, events) \in Seq(Row)
  BY <1>1, <1>2, RowsType
<1>7. \A k \in Counters : Count(w.counts, events)[k]
                            = w.counts[k] + Cardinality(NamedIn(events, k))
  BY DEF Count, NamedIn
<1>8. Count(w.counts, events) \in [Counters -> Nat]
  BY <1>1, <1>3 DEF Count, NamedIn
<1>9. (IF events = <<>> THEN w.span ELSE Track(w.span, p.ts)) \in {<<>>} \cup (Nat \X Nat)
  BY <1>1, <1>2, TrackType
<1>10. (w.ingest \/ \E i \in DOMAIN events : events[i] = "can_raw") \in BOOLEAN
  OBVIOUS
<1>11. a \in WorkType
  <2> PICK read, rows, counts, span, ingest :
        /\ read = Append(w.read, p) /\ rows = w.rows \o RowsOf(p, events)
        /\ counts = Count(w.counts, events)
        /\ span = (IF events = <<>> THEN w.span ELSE Track(w.span, p.ts))
        /\ ingest = (w.ingest \/ \E i \in DOMAIN events : events[i] = "can_raw")
    OBVIOUS
  <2>1. /\ read \in Seq(AllPackets) /\ rows \in Seq(Row) /\ counts \in [Counters -> Nat]
        /\ span \in {<<>>} \cup (Nat \X Nat) /\ ingest \in BOOLEAN
    BY <1>5, <1>6, <1>8, <1>9, <1>10, Zenon
  <2>2. a = [read |-> read, rows |-> rows, counts |-> counts, span |-> span, ingest |-> ingest]
    BY <1>4, Zenon
  <2> QED
    BY <2>1, <2>2 DEF WorkType
<1> QED
  BY <1>4, <1>5, <1>7, <1>11

LEMMA AfterPacketReported ==
  ASSUME NEW w \in WorkType, Reported(w), NEW c \in Conversions, NEW p \in Packets[c],
         NEW events \in Seq(EventNames)
  PROVE  Reported(AfterPacket(w, p, events))
<1>1. /\ w.rows \in Seq(Row) /\ w.counts \in [Counters -> Nat]
      /\ w.span \in {<<>>} \cup (Nat \X Nat) /\ w.ingest \in BOOLEAN
  BY DEF WorkType
<1>2. p.ts \in Nat
  BY PacketsAssumption
<1> PICK a, t : a = AfterPacket(w, p, events) /\ t = RowsOf(p, events)
  OBVIOUS
<1>3. /\ a.rows = w.rows \o t
      /\ a.span = (IF events = <<>> THEN w.span ELSE Track(w.span, p.ts))
      /\ a.ingest <=> w.ingest \/ NamedIn(events, "can_raw") # {}
  BY DEF AfterPacket, NamedIn
<1>4. t \in Seq(Row) /\ Len(t) = Len(events) /\ \A i \in 1 .. Len(t) : t[i].ts = p.ts
  BY <1>2, RowsType
<1>5. \A k : Named(t, k) = NamedIn(events, k)
  BY <1>2, NamedRows
<1>6. \A k \in Counters : a.counts[k] = Cardinality(Named(a.rows, k))
  <2> SUFFICES ASSUME NEW k \in Counters PROVE a.counts[k] = Cardinality(Named(a.rows, k))
    OBVIOUS
  <2>1. a.counts[k] = w.counts[k] + Cardinality(NamedIn(events, k))
    BY AfterPacketType
  <2>2. w.counts[k] = Cardinality(Named(w.rows, k))
    BY DEF Reported
  <2>3. Cardinality(Named(a.rows, k)) = Cardinality(Named(w.rows, k)) + Cardinality(Named(t, k))
    BY <1>1, <1>3, <1>4, NamedConcat
  <2> QED
    BY <1>5, <2>1, <2>2, <2>3
<1>7. a.ingest <=> Named(a.rows, "can_raw") # {}
  <2>1. Named(a.rows, "can_raw") = {} <=> Named(w.rows, "can_raw") = {} /\ Named(t, "can_raw") = {}
    BY <1>1, <1>3, <1>4, NamedConcat
  <2>2. w.ingest <=> Named(w.rows, "can_raw") # {}
    BY DEF Reported
  <2> QED
    BY <1>3, <1>5, <2>1, <2>2
<1>8. Spanned(a.rows, a.span)
  <2>1. Spanned(w.rows, w.span)
    BY DEF Reported
  <2>2. CASE events = <<>>
    <3>1. t = <<>>
      <4>1. Len(t) = 0
        BY <1>4, <2>2
      <4> QED
        BY <1>4, <4>1, EmptySeq
    <3>2. a.rows = w.rows
      BY <1>1, <1>3, <3>1, ConcatEmptySeq
    <3> QED
      BY <1>3, <2>1, <2>2, <3>2
  <2>3. CASE events # <<>>
    <3>1. t # <<>>
      <4>1. Len(events) # 0
        BY <2>3, EmptySeq
      <4> QED
        BY <1>4, <4>1
    <3>2. Spanned(w.rows \o t, Track(w.span, p.ts))
      BY <1>1, <1>2, <1>4, <2>1, <3>1, TrackSpans
    <3> QED
      BY <1>3, <2>3, <3>2
  <2> QED
    BY <2>2, <2>3
<1> QED
  BY <1>6, <1>7, <1>8 DEF Reported

-----------------------------------------------------------------------------
(* The packets with a link frame lead to the rows of live mode, the others *)
(* to CAN rows, one each, or to none.                                      *)
SameAsLive(w) == V2gRows(w.rows) = LiveRows(w.read, Framed)

Loose(read) == {i \in DOMAIN read : read[i].link \in Unframed}
CanIsLoose(w) == Cardinality(Named(w.rows, "can_raw")) <= Cardinality(Loose(w.read))

LEMMA RowsOfNothing == ASSUME NEW p PROVE RowsOf(p, <<>>) = <<>>
BY DEF RowsOf

CanRow(p, e) == [event |-> e, ts |-> p.ts]

LEMMA CanRowsOnly ==
  ASSUME NEW c \in Conversions, NEW p \in Packets[c], NEW dbc, NEW r \in Seq(Row)
  PROVE  V2gRows(r \o RowsOf(p, CanEvents(p, dbc))) = V2gRows(r)
<1> PICK x, y : x = CanRow(p, "can_raw") /\ y = CanRow(p, "can_codec")
  OBVIOUS
<1>1. x \in Row /\ y \in Row
  <2>1. p.ts \in Nat
    BY PacketsAssumption
  <2> QED
    BY <2>1 DEF CanRow, Row, EventNames
<1>2. x.event \notin V2gEventNames /\ y.event \notin V2gEventNames
  BY DEF CanRow, V2gEventNames
<1>3. Append(r, x) \in Seq(Row)
  BY <1>1
<1>4. V2gRows(Append(r, x)) = V2gRows(r) /\ V2gRows(Append(Append(r, x), y)) = V2gRows(r)
  BY <1>1, <1>2, <1>3, V2gRowsCan
<1>5. r \o <<x>> = Append(r, x)
  BY <1>1, AppendIsConcat
<1>6. r \o <<x, y>> = Append(Append(r, x), y)
  <2>1. <<x>> \in Seq(Row) /\ <<x, y>> = Append(<<x>>, y)
    BY <1>1
  <2>2. r \o Append(<<x>>, y) = Append(r \o <<x>>, y)
    BY <1>1, <2>1, AppendAfter
  <2> QED
    BY <1>5, <2>1, <2>2
<1>7. RowsOf(p, <<"can_raw">>) = <<x>>
  BY DEF RowsOf, CanRow
<1>8. RowsOf(p, <<"can_raw", "can_codec">>) = <<x, y>>
  BY DEF RowsOf, CanRow
<1>9. CanEvents(p, dbc) = <<"can_raw">> \/ CanEvents(p, dbc) = <<"can_raw", "can_codec">>
  BY CanEventsType
<1> QED
  BY <1>4, <1>5, <1>6, <1>7, <1>8, <1>9

LEMMA LiveRowsType ==
  ASSUME NEW c \in Conversions, NEW read \in Seq(Packets[c]), NEW links
  PROVE  LiveRows(read, links) \in Seq(Row)
<1>1. LiveRows(read, links) = FlattenSeq(LivePerPacket(read, links))
  BY DEF LiveRows, LivePerPacket, LiveOf
<1>2. LivePerPacket(read, links) \in Seq(Seq(Row)) /\ <<>> \in Seq(Row)
  BY LivePerPacketType
<1> QED
  BY <1>1, <1>2, FlattenAppend

LEMMA AfterPacketSame ==
  ASSUME NEW w \in WorkType, NEW c \in Conversions, w.read \in Seq(Packets[c]),
         SameAsLive(w), NEW p \in Packets[c], NEW dbc
  PROVE  SameAsLive(AfterPacket(w, p, Events(p, dbc)))
<1> PICK a, ev, r, read : /\ ev = Events(p, dbc) /\ r = w.rows /\ read = w.read
                          /\ a = AfterPacket(w, p, ev)
  OBVIOUS
<1>1. r \in Seq(Row) /\ read \in Seq(Packets[c]) /\ V2gRows(r) = LiveRows(read, Framed)
  BY DEF WorkType, SameAsLive
<1>2. a.rows = r \o RowsOf(p, ev) /\ a.read = Append(read, p)
  BY DEF AfterPacket
<1>3. LiveRows(Append(read, p), Framed) = LiveRows(read, Framed) \o LiveOf(p, Framed)
  BY <1>1, LiveRowsAppend
<1>4. CASE p.link # "none"
  <2>1. ev = V2gEvents(p) /\ LiveOf(p, Framed) = RowsOf(p, ev)
    <3>1. p.link \in Framed
      BY <1>4, PacketsAssumption DEF Framed
    <3> QED
      BY <1>4, <3>1 DEF Events, LiveOf
  <2>2. ev \in Seq(V2gEventNames)
    BY <2>1, V2gEventsType
  <2> PICK t : t = RowsOf(p, ev)
    OBVIOUS
  <2>3. t \in Seq(Row) /\ Len(t) = Len(ev) /\ \A i \in 1 .. Len(ev) : t[i].event = ev[i]
    <3>1. V2gEventNames \subseteq EventNames
      BY DEF V2gEventNames, EventNames
    <3>2. p.ts \in Nat
      BY PacketsAssumption
    <3> QED
      BY <2>2, <3>1, <3>2, RowsType
  <2>4. AllV2g(t)
    BY <2>2, <2>3 DEF AllV2g
  <2>5. V2gRows(r \o t) = V2gRows(r) \o t
    BY <1>1, <2>3, <2>4, V2gRowsConcat
  <2> QED
    BY <1>1, <1>2, <1>3, <2>1, <2>5 DEF SameAsLive
<1>5. CASE p.link = "none"
  <2>1. LiveOf(p, Framed) = <<>>
    BY <1>5 DEF LiveOf, Framed
  <2>2. LiveRows(read, Framed) \in Seq(Row)
    BY <1>1, LiveRowsType
  <2>3. LiveRows(Append(read, p), Framed) = LiveRows(read, Framed)
    BY <1>3, <2>1, <2>2, ConcatEmptySeq
  <2>4. V2gRows(r \o RowsOf(p, ev)) = V2gRows(r)
    <3>1. CASE IsSocketcan(p)
      <4>1. ev = CanEvents(p, dbc)
        BY <1>5, <3>1 DEF Events
      <4> QED
        BY <1>1, <4>1, CanRowsOnly
    <3>2. CASE ~IsSocketcan(p)
      <4>1. ev = <<>>
        BY <1>5, <3>2 DEF Events
      <4> QED
        BY <1>1, <4>1, RowsOfNothing, ConcatEmptySeq
    <3> QED
      BY <3>1, <3>2
  <2> QED
    BY <1>1, <1>2, <2>3, <2>4 DEF SameAsLive
<1> QED
  BY <1>4, <1>5

LEMMA LooseAppend ==
  ASSUME NEW S, NEW read \in Seq(S), NEW p
  PROVE  /\ Cardinality(Loose(read)) \in Nat /\ Cardinality(Loose(Append(read, p))) \in Nat
         /\ Cardinality(Loose(read)) <= Cardinality(Loose(Append(read, p)))
         /\ p.link \in Unframed =>
              Cardinality(Loose(Append(read, p))) = Cardinality(Loose(read)) + 1
<1> PICK n, s : n = Len(read) /\ s = Append(read, p)
  OBVIOUS
<1>1. /\ n \in Nat /\ DOMAIN read = 1 .. n /\ DOMAIN s = 1 .. n + 1 /\ s[n + 1] = p
      /\ \A i \in 1 .. n : s[i] = read[i]
  OBVIOUS
<1> PICK A : A = Loose(read)
  OBVIOUS
<1>2. A \in SUBSET (1 .. n) /\ n + 1 \notin A
  BY <1>1 DEF Loose
<1>3. IsFiniteSet(A) /\ Cardinality(A) \in Nat
  <2>1. IsFiniteSet(1 .. n)
    BY <1>1, FS_Interval
  <2> QED
    BY <1>2, <2>1, FS_Subset, FS_CardinalityType
<1>4. \A i \in 1 .. n + 1 : i \in 1 .. n \/ i = n + 1
  BY <1>1
<1>5. \A i \in 1 .. n : i \in 1 .. n + 1
  BY <1>1
<1>6. CASE p.link \in Unframed
  <2>1. Loose(s) = A \cup {n + 1}
    BY <1>1, <1>4, <1>5, <1>6 DEF Loose
  <2>2. Cardinality(A \cup {n + 1}) = Cardinality(A) + 1
    BY <1>2, <1>3, FS_AddElement
  <2> QED
    BY <1>3, <2>1, <2>2
<1>7. CASE p.link \notin Unframed
  <2>1. Loose(s) = A
    BY <1>1, <1>2, <1>4, <1>5, <1>7 DEF Loose
  <2> QED
    BY <1>3, <1>7, <2>1
<1> QED
  BY <1>6, <1>7

LEMMA AfterPacketLoose ==
  ASSUME NEW w \in WorkType, NEW c \in Conversions, CanIsLoose(w),
         NEW p \in Packets[c], NEW dbc
  PROVE  CanIsLoose(AfterPacket(w, p, Events(p, dbc)))
<1> PICK a, ev, r, read : /\ ev = Events(p, dbc) /\ r = w.rows /\ read = w.read
                          /\ a = AfterPacket(w, p, ev)
  OBVIOUS
<1>1. r \in Seq(Row) /\ read \in Seq(AllPackets) /\ p.ts \in Nat /\ ev \in Seq(EventNames)
  BY PacketsAssumption, EventsType DEF WorkType
<1>2. a.rows = r \o RowsOf(p, ev) /\ a.read = Append(read, p)
  BY DEF AfterPacket
<1>3. Cardinality(Named(r, "can_raw")) <= Cardinality(Loose(read))
  BY DEF CanIsLoose
<1>4. RowsOf(p, ev) \in Seq(Row)
  BY <1>1, RowsType
<1>5. /\ Cardinality(Named(r, "can_raw")) \in Nat
      /\ Cardinality(Named(a.rows, "can_raw"))
           = Cardinality(Named(r, "can_raw")) + Cardinality(NamedIn(ev, "can_raw"))
  BY <1>1, <1>2, <1>4, NamedConcat, NamedRows
<1>6. /\ Cardinality(Loose(read)) \in Nat /\ Cardinality(Loose(a.read)) \in Nat
      /\ Cardinality(Loose(read)) <= Cardinality(Loose(a.read))
      /\ p.link \in Unframed => Cardinality(Loose(a.read)) = Cardinality(Loose(read)) + 1
  BY <1>1, <1>2, LooseAppend
<1>7. CASE NamedIn(ev, "can_raw") = {}
  <2>1. Cardinality(NamedIn(ev, "can_raw")) = 0
    BY <1>7, FS_EmptySet
  <2> QED
    BY <1>3, <1>5, <1>6, <2>1 DEF CanIsLoose
<1>8. CASE NamedIn(ev, "can_raw") # {}
  <2>1. p.link = "none" /\ ev = CanEvents(p, dbc)
    <3>1. "can_raw" \notin V2gEventNames
      BY DEF V2gEventNames
    <3>2. CASE p.link # "none"
      <4>1. ev = V2gEvents(p)
        BY <3>2 DEF Events
      <4>2. ev \in Seq(V2gEventNames)
        BY <4>1, V2gEventsType
      <4> QED
        BY <1>8, <3>1, <4>2 DEF NamedIn
    <3>3. ev # <<>>
      BY <1>8 DEF NamedIn
    <3> QED
      BY <3>2, <3>3 DEF Events
  <2>2. p.link \in Unframed
    BY <2>1 DEF Unframed
  <2>3. NamedIn(ev, "can_raw") = {1}
    <3>1. CASE ev = <<"can_raw">>
      BY <3>1 DEF NamedIn
    <3>2. CASE ev = <<"can_raw", "can_codec">>
      BY <3>2 DEF NamedIn
    <3> QED
      BY <2>1, <3>1, <3>2, CanEventsType
  <2>4. Cardinality(NamedIn(ev, "can_raw")) = 1
    BY <2>3, FS_Singleton
  <2> QED
    BY <1>3, <1>5, <1>6, <2>2, <2>4 DEF CanIsLoose
<1> QED
  BY <1>7, <1>8

-----------------------------------------------------------------------------
(* What is so of the work of a conversion that reads, or has reported.     *)
WorkOK(w) == Reported(w) /\ SameAsLive(w) /\ CanIsLoose(w)

(* Nothing is read before the trace is open, nor a trace opened for        *)
(* anything but a capture.                                                 *)
WorkAt(c) ==
  /\ pc[c] \in {"open", "read", "success"} => job[c].input = "capture" /\ job[c].dbc # "missing"
  /\ pc[c] \in {"begin", "resolve", "unlink", "validate", "open"} => work[c] = NoWork
  /\ pc[c] \in {"read", "success"} => WorkOK(work[c])

WorkInv ==
  /\ work \in [Conversions -> WorkType]
  /\ \A c \in Conversions : work[c].read \in Seq(Packets[c]) /\ WorkAt(c)

LEMMA NoWorkOK ==
  ASSUME NEW S
  PROVE  NoWork \in WorkType /\ NoWork.read \in Seq(S) /\ WorkOK(NoWork)
<1>1. NoWork.read = <<>> /\ NoWork.rows = <<>> /\ NoWork.span = <<>>
      /\ NoWork.ingest = FALSE /\ NoWork.counts = [k \in Counters |-> 0]
  BY DEF NoWork
<1>2. NoWork \in WorkType
  <2>1. <<>> \in Seq(AllPackets) /\ <<>> \in Seq(Row) /\ [k \in Counters |-> 0] \in [Counters -> Nat]
    OBVIOUS
  <2> QED
    BY <2>1 DEF NoWork, WorkType
<1>3. \A k : Named(<<>>, k) = {}
  BY DEF Named
<1>4. Reported(NoWork)
  <2>1. \A k \in Counters : NoWork.counts[k] = Cardinality(Named(NoWork.rows, k))
    BY <1>1, <1>3, FS_EmptySet
  <2> QED
    BY <1>1, <1>3, <2>1 DEF Reported, Spanned
<1>5. LiveRows(<<>>, Framed) = <<>>
  <2>1. LivePerPacket(<<>>, Framed) = <<>>
    BY DEF LivePerPacket
  <2> QED
    BY <2>1, FlattenOfNothing DEF LiveRows, LivePerPacket, LiveOf
<1>6. SameAsLive(NoWork)
  BY <1>1, <1>5, V2gRowsNone DEF SameAsLive
<1>7. CanIsLoose(NoWork)
  <2>1. Loose(NoWork.read) = {} /\ Named(NoWork.rows, "can_raw") = {}
    BY <1>1, <1>3 DEF Loose
  <2>2. Cardinality(Loose(NoWork.read)) = 0 /\ Cardinality(Named(NoWork.rows, "can_raw")) = 0
    BY <2>1, FS_EmptySet, Zenon
  <2> QED
    BY <2>2 DEF CanIsLoose
<1> QED
  BY <1>1, <1>2, <1>4, <1>6, <1>7 DEF WorkOK

(* A step that moves c and leaves the work alone.                          *)
LEMMA MoveKeepsWork ==
  ASSUME FileInv, WorkInv, NEW c \in Conversions, NEW label, GoTo(c, label),
         UNCHANGED <<job, work>>, WorkAt(c)'
  PROVE  WorkInv'
<1>1. ASSUME NEW d \in Conversions, d # c PROVE WorkAt(d)'
  <2>1. pc'[d] = pc[d]
    BY <1>1 DEF GoTo, FileInv, ControlOK
  <2>2. WorkAt(d)
    BY DEF WorkInv
  <2> QED
    BY <2>1, <2>2 DEF WorkAt
<1> QED
  BY <1>1 DEF WorkInv

LEMMA LeavesKeepWork ==
  ASSUME FileInv, WorkInv, NEW c \in Conversions, NEW label \in {"error", "killed"},
         GoTo(c, label), UNCHANGED <<job, work>>
  PROVE  WorkInv'
<1>1. pc'[c] = label
  BY DEF GoTo, FileInv, ControlOK
<1>2. WorkAt(c)'
  BY <1>1 DEF WorkAt
<1> QED
  BY <1>2, MoveKeepsWork

LEMMA EarlyKeepsWork ==
  ASSUME FileInv, WorkInv, NEW c \in Conversions,
         Begin(c) \/ Resolve(c) \/ Unlink(c) \/ Validate(c)
  PROVE  WorkInv'
<1>1. PICK label \in {"error", "resolve", "unlink", "validate", "open"} :
        /\ GoTo(c, label)
        /\ label = "open" => job[c].input = "capture" /\ job[c].dbc # "missing"
        /\ pc[c] \in {"begin", "resolve", "unlink", "validate"} /\ UNCHANGED <<job, work>>
  BY DEF Begin, Resolve, Unlink, Validate, Invalid
<1>2. pc'[c] = label
  BY <1>1 DEF GoTo, FileInv, ControlOK
<1>3. work[c] = NoWork
  BY <1>1 DEF WorkInv, WorkAt
<1>4. WorkAt(c)'
  BY <1>1, <1>2, <1>3 DEF WorkAt
<1> QED
  BY <1>1, <1>4, MoveKeepsWork

LEMMA OpenKeepsWork ==
  ASSUME FileInv, WorkInv, NEW c \in Conversions, Open(c) PROVE WorkInv'
<1>1. PICK label \in {"error", "read"} :
        GoTo(c, label) /\ pc[c] = "open" /\ UNCHANGED <<job, work>>
  BY DEF Open
<1>2. pc'[c] = label
  BY <1>1 DEF GoTo, FileInv, ControlOK
<1>3. WorkAt(c) /\ WorkOK(NoWork)
  BY NoWorkOK DEF WorkInv
<1>4. WorkAt(c)'
  BY <1>1, <1>2, <1>3 DEF WorkAt
<1> QED
  BY <1>1, <1>4, MoveKeepsWork

LEMMA FinishKeepsWork ==
  ASSUME FileInv, WorkInv, NEW c \in Conversions, Finish(c) PROVE WorkInv'
<1>1. GoTo(c, "success") /\ pc[c] = "read" /\ UNCHANGED <<job, work>>
  BY DEF Finish
<1>2. pc'[c] = "success"
  BY <1>1 DEF GoTo, FileInv, ControlOK
<1>3. WorkAt(c)
  BY DEF WorkInv
<1>4. WorkAt(c)'
  BY <1>1, <1>2, <1>3 DEF WorkAt
<1> QED
  BY <1>1, <1>4, MoveKeepsWork

LEMMA ReadKeepsWork ==
  ASSUME WorkInv, NEW c \in Conversions, NEW p \in Packets[c], ReadPacket(c, p) PROVE WorkInv'
<1> PICK w, ev, a : w = work[c] /\ ev = Events(p, job[c].dbc) /\ a = AfterPacket(w, p, ev)
  OBVIOUS
<1>1. /\ pc[c] = "read" /\ UNCHANGED <<job, pc>>
      /\ work' = [work EXCEPT ![c] = a]
  BY DEF ReadPacket
<1>2. /\ w \in WorkType /\ w.read \in Seq(Packets[c]) /\ WorkOK(w)
      /\ job[c].input = "capture" /\ job[c].dbc # "missing"
  BY <1>1 DEF WorkInv, WorkAt
<1>3. ev \in Seq(EventNames)
  BY EventsType
<1>4. a \in WorkType /\ a.read \in Seq(Packets[c])
  BY <1>2, <1>3, AfterPacketType
<1>5. WorkOK(a)
  <2>1. Reported(a)
    BY <1>2, <1>3, AfterPacketReported DEF WorkOK
  <2>2. SameAsLive(a) /\ CanIsLoose(a)
    BY <1>2, AfterPacketSame, AfterPacketLoose DEF WorkOK
  <2> QED
    BY <2>1, <2>2 DEF WorkOK
<1>6. work' \in [Conversions -> WorkType] /\ work'[c] = a
      /\ \A d \in Conversions : d # c => work'[d] = work[d]
  BY <1>1, <1>4 DEF WorkInv
<1>7. ASSUME NEW d \in Conversions PROVE work'[d].read \in Seq(Packets[d]) /\ WorkAt(d)'
  <2>1. CASE d = c
    BY <1>1, <1>2, <1>4, <1>5, <1>6, <2>1 DEF WorkAt
  <2>2. CASE d # c
    BY <1>1, <1>6, <2>2 DEF WorkInv, WorkAt
  <2> QED
    BY <2>1, <2>2
<1> QED
  BY <1>6, <1>7 DEF WorkInv

LEMMA BreakOffKeepsWork ==
  ASSUME FileInv, WorkInv, NEW c \in Conversions, NEW p \in Packets[c],
         NEW n \in 0 .. Len(Events(p, job[c].dbc)), BreakOff(c, p, n)
  PROVE  WorkInv'
<1> PICK w, ev, rows : /\ w = work[c] /\ ev = Events(p, job[c].dbc)
                       /\ rows = w.rows \o SubSeq(RowsOf(p, ev), 1, n)
  OBVIOUS
<1>1. /\ GoTo(c, "error") /\ UNCHANGED job
      /\ work' = [work EXCEPT ![c] = [w EXCEPT !.rows = rows]]
  BY DEF BreakOff, Outcome
<1>2. w \in WorkType /\ w.read \in Seq(Packets[c]) /\ w.rows \in Seq(Row)
  BY DEF WorkInv, WorkType
<1>3. rows \in Seq(Row)
  <2>1. ev \in Seq(EventNames) /\ n \in Nat /\ n <= Len(ev) /\ p.ts \in Nat
    BY EventsType, PacketsAssumption
  <2> PICK t : t = RowsOf(p, ev)
    OBVIOUS
  <2>2. t \in Seq(Row) /\ Len(t) = Len(ev)
    BY <2>1, RowsType
  <2>3. SubSeq(t, 1, n) \in Seq(Row)
    BY <2>1, <2>2
  <2> QED
    BY <1>2, <2>3
<1> PICK a : a = [w EXCEPT !.rows = rows]
  OBVIOUS
<1>4. a \in WorkType /\ a.read = w.read
  BY <1>2, <1>3 DEF WorkType
<1>5. work' \in [Conversions -> WorkType] /\ work'[c] = a
      /\ \A d \in Conversions : d # c => work'[d] = work[d]
  BY <1>1, <1>4 DEF WorkInv
<1>6. pc'[c] = "error" /\ \A d \in Conversions : d # c => pc'[d] = pc[d]
  BY <1>1 DEF GoTo, FileInv, ControlOK
<1>7. ASSUME NEW d \in Conversions PROVE work'[d].read \in Seq(Packets[d]) /\ WorkAt(d)'
  <2>1. CASE d = c
    BY <1>2, <1>4, <1>5, <1>6, <2>1 DEF WorkAt
  <2>2. CASE d # c
    BY <1>1, <1>5, <1>6, <2>2 DEF WorkInv, WorkAt
  <2> QED
    BY <2>1, <2>2
<1> QED
  BY <1>5, <1>7 DEF WorkInv

(* The work of a conversion is of its packets and well-typed, and as it    *)
(* should be in one that reads or has reported, in every execution.        *)
THEOREM WorkInvariant == Spec => []WorkInv
<1>1. Init => WorkInv
  <2> SUFFICES ASSUME Init PROVE WorkInv
    OBVIOUS
  <2>1. \A c \in Conversions : work[c] = NoWork /\ pc[c] = "begin"
    BY DEF Init
  <2>2. NoWork \in WorkType /\ \A S : NoWork.read \in Seq(S)
    BY NoWorkOK
  <2> QED
    BY <2>1, <2>2 DEF Init, WorkInv, WorkAt
<1>2. FileInv /\ WorkInv /\ [Next]_vars => WorkInv'
  <2> SUFFICES ASSUME FileInv, WorkInv, [Next]_vars PROVE WorkInv'
    OBVIOUS
  <2>1. CASE UNCHANGED vars
    BY <2>1 DEF vars, WorkInv, WorkAt
  <2>2. ASSUME NEW c \in Conversions, Step(c) PROVE WorkInv'
    <3>1. CASE Begin(c) \/ Resolve(c) \/ Unlink(c) \/ Validate(c)
      BY <3>1, EarlyKeepsWork
    <3>2. CASE Open(c) \/ Finish(c)
      BY <3>2, OpenKeepsWork, FinishKeepsWork
    <3>3. CASE Crash(c)
      BY <3>3, LeavesKeepWork DEF Crash
    <3>4. CASE \E p \in Packets[c] : ReadPacket(c, p)
      BY <3>4, ReadKeepsWork
    <3>5. CASE \E p \in Packets[c] : \E n \in 0 .. Len(Events(p, job[c].dbc)) : BreakOff(c, p, n)
      BY <3>5, BreakOffKeepsWork
    <3> QED
      BY <2>2, <3>1, <3>2, <3>3, <3>4, <3>5 DEF Step
  <2> QED
    BY <2>1, <2>2 DEF Next
<1> QED
  BY <1>1, <1>2, FileInvariant, PTL DEF Spec

(* Types are right, and only a capture, with a DBC that is there if one    *)
(* was named, is ever read.                                                *)
THEOREM ConverterTypeCorrect == Spec => []TypeOK
<1>1. FileInv /\ WorkInv => TypeOK
  <2> SUFFICES ASSUME FileInv, WorkInv PROVE TypeOK
    OBVIOUS
  <2>1. ASSUME NEW c \in Conversions
        PROVE  /\ work[c].read \in Seq(Packets[c]) /\ work[c].rows \in Seq(Row)
               /\ work[c].counts \in [Counters -> Nat]
               /\ work[c].span = <<>> \/ work[c].span \in Nat \X Nat
               /\ work[c].ingest \in BOOLEAN
               /\ pc[c] \in {"read", "success"} =>
                    job[c].input = "capture" /\ job[c].dbc # "missing"
    <3>1. work[c] \in WorkType /\ work[c].read \in Seq(Packets[c]) /\ WorkAt(c)
      BY DEF WorkInv
    <3> QED
      BY <3>1 DEF WorkType, WorkAt
  <2> QED
    BY <2>1 DEF FileInv, ControlOK, Labels, TypeOK
<1> QED
  BY <1>1, FileInvariant, WorkInvariant, PTL

(* The statistics of a conversion that reports success are those of the    *)
(* trace it wrote: one count per record, a duration from the earliest to   *)
(* the latest row, and CAN figures exactly if there was a CAN frame.       *)
THEOREM ReportAlwaysMatchesTrace == Spec => []ReportMatchesTrace
<1>1. WorkInv => ReportMatchesTrace
  <2> SUFFICES ASSUME WorkInv, NEW c \in Conversions, pc[c] = "success"
               PROVE  LET w == work[c] IN
                      /\ w.ingest <=> RowsNamed(c, "can_raw") # {}
                      /\ \A k \in Counters : w.counts[k] = Cardinality(RowsNamed(c, k))
                      /\ w.span = <<>> <=> w.rows = <<>>
                      /\ w.rows # <<>> =>
                           /\ \A i \in DOMAIN w.rows : w.rows[i].ts \in w.span[1] .. w.span[2]
                           /\ \A k \in {1, 2} : \E i \in DOMAIN w.rows : w.rows[i].ts = w.span[k]
    BY DEF ReportMatchesTrace
  <2> PICK w : w = work[c]
    OBVIOUS
  <2>1. w \in WorkType /\ Reported(w)
    BY DEF WorkInv, WorkAt, WorkOK
  <2>2. \A k : RowsNamed(c, k) = Named(w.rows, k)
    BY DEF RowsNamed, Named
  <2>3. ASSUME NEW i \in DOMAIN w.rows, w.rows # <<>>
        PROVE  w.rows[i].ts \in w.span[1] .. w.span[2]
    <3>1. w.rows \in Seq(Row) /\ w.span \in {<<>>} \cup (Nat \X Nat)
      BY <2>1 DEF WorkType
    <3>2. w.rows[i].ts \in Nat
      <4>1. w.rows[i] \in Row
        BY <3>1
      <4> QED
        BY <4>1 DEF Row
    <3>3. w.span # <<>> /\ w.span[1] <= w.rows[i].ts /\ w.rows[i].ts <= w.span[2]
      BY <2>1, <2>3 DEF Reported, Spanned
    <3>4. w.span[1] \in Nat /\ w.span[2] \in Nat
      BY <3>1, <3>3
    <3> QED
      BY <3>2, <3>3, <3>4
  <2>4. /\ w.ingest <=> Named(w.rows, "can_raw") # {}
        /\ \A k \in Counters : w.counts[k] = Cardinality(Named(w.rows, k))
        /\ w.span = <<>> <=> w.rows = <<>>
    BY <2>1 DEF Reported, Spanned
  <2>5. ASSUME w.rows # <<>>
        PROVE  \A k \in {1, 2} : \E i \in DOMAIN w.rows : w.rows[i].ts = w.span[k]
    BY <2>1, <2>5 DEF Reported, Spanned
  <2> QED
    BY <2>2, <2>3, <2>4, <2>5
<1> QED
  BY <1>1, WorkInvariant, PTL

(* Whatever a capture holds, the V2G rows of its trace are those that live *)
(* mode logs for its packets with a link frame, in the same order, and     *)
(* there are no more CAN frames in it than packets without one.            *)
THEOREM FramedTrafficAlwaysAgrees == Spec => []FramedTrafficAgrees
<1>1. WorkInv => FramedTrafficAgrees
  <2> SUFFICES ASSUME WorkInv, NEW c \in Conversions, pc[c] \in {"read", "success"}
               PROVE  /\ V2gRows(work[c].rows) = LiveRows(work[c].read, Framed)
                      /\ Cardinality(RowsNamed(c, "can_raw")) <= Cardinality(Read(c, Unframed))
    BY DEF FramedTrafficAgrees
  <2>1. SameAsLive(work[c]) /\ CanIsLoose(work[c])
    BY DEF WorkInv, WorkAt, WorkOK
  <2>2. /\ RowsNamed(c, "can_raw") = Named(work[c].rows, "can_raw")
        /\ Read(c, Unframed) = Loose(work[c].read)
    BY DEF RowsNamed, Named, Read, Loose
  <2> QED
    BY <2>1, <2>2 DEF SameAsLive, CanIsLoose
<1> QED
  BY <1>1, WorkInvariant, PTL

=============================================================================
