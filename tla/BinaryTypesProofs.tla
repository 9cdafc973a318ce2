------------------------- MODULE BinaryTypesProofs -------------------------
(****************************************************************************)
(* What BinaryTypes guarantees for any number of tasks, objects and         *)
(* classes.  The argument has three layers.  The agendas: a put follows the *)
(* query of its class, an assign its put, a header the assign of its class  *)
(* unless it is for a hash code, and "send" the object it sends; before the *)
(* footer of an object come only its own steps and those of its inner one,  *)
(* so it has one footer.  The registry: an assign comes after the class was *)
(* found or put, so the cluster has every key of the registry.  The bytes:  *)
(* those without a footer have it in the agenda of their task, show the     *)
(* object as it is or are marked, and inner ones are closed first; because  *)
(* one task runs, nothing comes between a footer and what is done with it.  *)
(****************************************************************************)
EXTENDS BinaryTypes, SequenceTheorems, TLAPS

-----------------------------------------------------------------------------
(* Agendas                                                                  *)

(* A sequence of whatever steps.                                            *)
IsSeq(s) == \E S : s \in Seq(S)

(* What a step is about.                                                    *)
StepOK(s) ==
  /\ s[1] \in {"put", "assign"} => s[2] \in Own
  /\ s[1] \in {"enter", "open", "footer", "send", "hash"} => s[2] \in Objects
  /\ s[1] = "footer" => s = <<"footer", s[2], s[3]>> /\ s[3] \in BOOLEAN

(* What comes directly before a step.                                       *)
Follows(a, b) ==
  /\ b[1] = "put" => a = <<"query", b[2][1], b[2][2]>>
  /\ b[1] = "assign" => a = <<"put", b[2]>>
  /\ b[1] = "open" => a = <<"assign", ClassOf[b[2]]>>
  /\ b[1] = "send" => a \in {<<"enter", b[2]>>, <<"footer", b[2], FALSE>>}

(* What may come before the footer of an object: the steps of the object    *)
(* and of its inner one.                                                    *)
BeforeFooter(a, o) ==
  /\ a[1] \in {"enter", "footer"} => a[2] = Inner[o]
  /\ a[1] = "open" => a[2] \in {o, Inner[o]}
  /\ a[1] \notin {"send", "hash"}

(* Each step is about what it should be, comes directly after the step it   *)
(* needs, and no footer before what is inside the object; what is opened is *)
(* closed.                                                                  *)
Valid(s) ==
  /\ IsSeq(s)
  /\ \A i \in 1 .. Len(s) : StepOK(s[i])
  /\ \A i \in 2 .. Len(s) : Follows(s[i - 1], s[i])
  /\ \A i, j \in 1 .. Len(s) : j < i /\ s[i][1] = "footer" => BeforeFooter(s[j], s[i][2])
  /\ \A i \in 1 .. Len(s) : s[i][1] = "open" =>
        \E j \in 1 .. Len(s) : i < j /\ s[j][1] = "footer" /\ s[j][2] = s[i][2]

(* One sequence after another.                                              *)
LEMMA Joined ==
    ASSUME NEW p, IsSeq(p), NEW r, IsSeq(r)
    PROVE  /\ IsSeq(p \o r)
           /\ Len(p) \in Nat /\ Len(r) \in Nat
           /\ Len(p \o r) = Len(p) + Len(r)
           /\ \A i \in 1 .. Len(p) + Len(r) : (p \o r)[i] = IF i <= Len(p) THEN p[i] ELSE r[i - Len(p)]
<1>1. PICK S : p \in Seq(S)
  BY DEF IsSeq
<1>2. PICK T : r \in Seq(T)
  BY DEF IsSeq
<1>3. p \in Seq(S \cup T) /\ r \in Seq(S \cup T)
  BY <1>1, <1>2, SeqMonotonic
<1>4. /\ p \o r \in Seq(S \cup T)
      /\ Len(p \o r) = Len(p) + Len(r)
      /\ \A i \in 1 .. Len(p) + Len(r) : (p \o r)[i] = IF i <= Len(p) THEN p[i] ELSE r[i - Len(p)]
  BY <1>3, ConcatProperties
<1>5. Len(p) \in Nat /\ Len(r) \in Nat
  BY <1>3, LenProperties
<1>6. IsSeq(p \o r)
  BY <1>4 DEF IsSeq
<1> QED BY <1>4, <1>5, <1>6

(* A sequence without its first step.                                       *)
LEMMA Rest ==
    ASSUME NEW s, IsSeq(s), s # <<>>
    PROVE  /\ Len(s) \in Nat \ {0}
           /\ IsSeq(Tail(s))
           /\ Len(Tail(s)) = Len(s) - 1
           /\ \A i \in 1 .. Len(Tail(s)) : Tail(s)[i] = s[i + 1]
           /\ Head(s) = s[1]
<1>1. PICK S : s \in Seq(S)
  BY DEF IsSeq
<1>2. Len(s) \in Nat \ {0}
  BY <1>1, EmptySeq
<1> QED BY <1>1, <1>2, HeadTailProperties DEF IsSeq

(* Two valid agendas, the one done after the other.                         *)
LEMMA ValidJoined ==
    ASSUME NEW p, Valid(p), NEW r, Valid(r),
           Len(p) > 0 /\ Len(r) > 0 => Follows(p[Len(p)], r[1]),
           \A j \in 1 .. Len(p), i \in 1 .. Len(r) : r[i][1] = "footer" => BeforeFooter(p[j], r[i][2])
    PROVE  Valid(p \o r)
<1> DEFINE q == p \o r
           m == Len(p)
           n == Len(r)
<1>1. /\ IsSeq(q) /\ m \in Nat /\ n \in Nat /\ Len(q) = m + n
      /\ \A i \in 1 .. m + n : q[i] = IF i <= m THEN p[i] ELSE r[i - m]
  BY Joined DEF Valid
<1>4. m > 0 /\ n > 0 => Follows(p[m], r[1])
  OBVIOUS
<1>5. \A j \in 1 .. m, i \in 1 .. n : r[i][1] = "footer" => BeforeFooter(p[j], r[i][2])
  OBVIOUS
<1>6. /\ \A i \in 1 .. m : StepOK(p[i])
      /\ \A i \in 2 .. m : Follows(p[i - 1], p[i])
      /\ \A i, j \in 1 .. m : j < i /\ p[i][1] = "footer" => BeforeFooter(p[j], p[i][2])
      /\ \A i \in 1 .. m : p[i][1] = "open" =>
            \E j \in 1 .. m : i < j /\ p[j][1] = "footer" /\ p[j][2] = p[i][2]
  BY DEF Valid
<1>7. /\ \A i \in 1 .. n : StepOK(r[i])
      /\ \A i \in 2 .. n : Follows(r[i - 1], r[i])
      /\ \A i, j \in 1 .. n : j < i /\ r[i][1] = "footer" => BeforeFooter(r[j], r[i][2])
      /\ \A i \in 1 .. n : r[i][1] = "open" =>
            \E j \in 1 .. n : i < j /\ r[j][1] = "footer" /\ r[j][2] = r[i][2]
  BY DEF Valid
<1> HIDE DEF q, m, n
<1>0. m \in Nat /\ n \in Nat /\ Len(q) = m + n
  BY <1>1
<1>2. \A i \in 1 .. Len(q) : i \in 1 .. m \/ (i - m \in 1 .. n /\ i = m + (i - m))
  BY <1>1
<1>3. \A i \in 1 .. Len(q) : q[i] = IF i \in 1 .. m THEN p[i] ELSE r[i - m]
  BY <1>1, <1>2
<1>10. \A i \in 1 .. Len(q) : StepOK(q[i])
  BY <1>2, <1>3, <1>6, <1>7
<1>11. ASSUME NEW i \in 2 .. Len(q)
       PROVE  Follows(q[i - 1], q[i])
  <2>1. i \in Int /\ i - 1 \in 1 .. Len(q) /\ i \in 1 .. Len(q)
    BY <1>1
  <2>2. CASE i <= m
    <3>1. i \in 2 .. m /\ i \in 1 .. m /\ i - 1 \in 1 .. m
      BY <2>1, <2>2, <1>1
    <3> QED BY <3>1, <2>1, <1>3, <1>6
  <2>3. CASE i = m + 1
    <3>1. i \notin 1 .. m /\ i - m = 1 /\ i - 1 = m /\ (m > 0 => m \in 1 .. m) /\ m > 0 /\ n > 0
      BY <2>1, <2>3, <1>1
    <3> QED BY <3>1, <2>1, <1>3, <1>4
  <2>4. CASE i > m + 1
    <3>1. i \notin 1 .. m /\ i - 1 \notin 1 .. m /\ i - m \in 2 .. n /\ (i - 1) - m = (i - m) - 1
      BY <2>1, <2>4, <1>0
    <3> QED BY <3>1, <2>1, <1>3, <1>7
  <2> QED BY <2>1, <2>2, <2>3, <2>4, <1>1
<1>12. ASSUME NEW i \in 1 .. Len(q), NEW j \in 1 .. Len(q), j < i, q[i][1] = "footer"
       PROVE  BeforeFooter(q[j], q[i][2])
  <2>1. CASE i \in 1 .. m
    <3>1. j \in 1 .. m
      BY <2>1, <1>1, <1>12
    <3> QED BY <3>1, <2>1, <1>3, <1>6, <1>12
  <2>2. CASE i \notin 1 .. m /\ j \in 1 .. m
    BY <2>2, <1>2, <1>3, <1>5, <1>12
  <2>3. CASE i \notin 1 .. m /\ j \notin 1 .. m
    <3>1. i - m \in 1 .. n /\ j - m \in 1 .. n /\ j - m < i - m
      BY <2>3, <1>1, <1>2, <1>12
    <3> QED BY <3>1, <2>3, <1>3, <1>7, <1>12
  <2> QED BY <2>1, <2>2, <2>3
<1>13. ASSUME NEW i \in 1 .. Len(q), q[i][1] = "open"
       PROVE  \E j \in 1 .. Len(q) : i < j /\ q[j][1] = "footer" /\ q[j][2] = q[i][2]
  <2>1. CASE i \in 1 .. m
    <3>1. PICK j \in 1 .. m : i < j /\ p[j][1] = "footer" /\ p[j][2] = p[i][2]
      BY <2>1, <1>3, <1>6, <1>13
    <3>2. j \in 1 .. Len(q)
      BY <1>1
    <3> QED BY <3>1, <3>2, <2>1, <1>3
  <2>2. CASE i \notin 1 .. m
    <3>1. i - m \in 1 .. n /\ r[i - m][1] = "open"
      BY <2>2, <1>2, <1>3, <1>13
    <3>2. PICK j \in 1 .. n : i - m < j /\ r[j][1] = "footer" /\ r[j][2] = r[i - m][2]
      BY <3>1, <1>7
    <3>3. m + j \in 1 .. Len(q) /\ i < m + j /\ q[m + j] = r[j]
      BY <3>2, <1>1
    <3> QED BY <3>2, <3>3, <2>2, <1>3
  <2> QED BY <2>1, <2>2
<1> QED BY <1>1, <1>10, <1>11, <1>12, <1>13 DEF Valid, q, m, n

(* What remains of a valid agenda after a step is valid.                    *)
LEMMA ValidRest ==
    ASSUME NEW s, Valid(s), s # <<>>
    PROVE  Valid(Tail(s))
<1> DEFINE r == Tail(s)
           n == Len(s)
           k == Len(r)
<1>1. /\ IsSeq(r) /\ n \in Nat /\ k \in Nat /\ k = n - 1
      /\ \A i \in 1 .. k : r[i] = s[i + 1]
  BY Rest DEF Valid
<1>2. /\ \A i \in 1 .. n : StepOK(s[i])
      /\ \A i \in 2 .. n : Follows(s[i - 1], s[i])
      /\ \A i, j \in 1 .. n : j < i /\ s[i][1] = "footer" => BeforeFooter(s[j], s[i][2])
      /\ \A i \in 1 .. n : s[i][1] = "open" =>
            \E j \in 1 .. n : i < j /\ s[j][1] = "footer" /\ s[j][2] = s[i][2]
  BY DEF Valid
<1> HIDE DEF r, n, k
<1>3. \A i \in 1 .. k : i + 1 \in 1 .. n
  BY <1>1
<1>4. \A i \in 1 .. k : StepOK(r[i])
  BY <1>1, <1>2, <1>3
<1>5. ASSUME NEW i \in 2 .. k
      PROVE  Follows(r[i - 1], r[i])
  <2>1. i + 1 \in 2 .. n /\ (i + 1) - 1 = (i - 1) + 1 /\ i \in 1 .. k /\ i - 1 \in 1 .. k
    BY <1>1
  <2> QED BY <2>1, <1>1, <1>2
<1>6. ASSUME NEW i \in 1 .. k, NEW j \in 1 .. k, j < i, r[i][1] = "footer"
      PROVE  BeforeFooter(r[j], r[i][2])
  <2>1. i + 1 \in 1 .. n /\ j + 1 \in 1 .. n /\ j + 1 < i + 1
    BY <1>1, <1>6
  <2> QED BY <2>1, <1>1, <1>2, <1>6
<1>7. ASSUME NEW i \in 1 .. k, r[i][1] = "open"
      PROVE  \E j \in 1 .. k : i < j /\ r[j][1] = "footer" /\ r[j][2] = r[i][2]
  <2>1. i + 1 \in 1 .. n /\ s[i + 1][1] = "open"
    BY <1>1, <1>3, <1>7
  <2>2. PICK j \in 1 .. n : i + 1 < j /\ s[j][1] = "footer" /\ s[j][2] = s[i + 1][2]
    BY <2>1, <1>2
  <2>3. j - 1 \in 1 .. k /\ i < j - 1 /\ (j - 1) + 1 = j
    BY <2>2, <1>1
  <2>4. r[j - 1] = s[j] /\ r[i] = s[i + 1]
    BY <2>3, <1>1
  <2> QED BY <2>2, <2>3, <2>4
<1> QED BY <1>1, <1>4, <1>5, <1>6, <1>7 DEF Valid, r, n, k

-----------------------------------------------------------------------------
(* The agendas of the calls                                                 *)

(* The class of an object is one of this program, and an inner object has   *)
(* none inside.                                                             *)
LEMMA InnerObjects ==
    ASSUME NEW o \in Objects
    PROVE  /\ ClassOf[o] \in Own
           /\ Inner[o] # NoObject => Inner[o] \in Objects /\ Inner[Inner[o]] = NoObject
           /\ Inner[o] # o
           /\ o # NoObject
<1>1. Inner[o] \in Objects \cup {NoObject} /\ (Inner[o] # NoObject => Inner[Inner[o]] = NoObject) /\ o # NoObject
  BY ObjectsAssumption
<1>2. ClassOf[o] \in Own
  BY DEF Own
<1> QED BY <1>1, <1>2

(* A task without steps.                                                    *)
LEMMA ValidNothing == Valid(<<>>)
<1>1. <<>> \in Seq({}) /\ Len(<<>>) = 0
  BY EmptySeq
<1>2. IsSeq(<<>>)
  BY <1>1 DEF IsSeq
<1>3. \A i : i \notin 1 .. Len(<<>>) /\ i \notin 2 .. Len(<<>>)
  BY <1>1
<1> QED BY <1>2, <1>3 DEF Valid

(* The three steps of register_binary_type.                                 *)
LEMMA ValidRegisters ==
    ASSUME NEW class \in Own
    PROVE  LET s == Registers(class) IN
           /\ Valid(s)
           /\ Len(s) = 3
           /\ s[1] = <<"query", class[1], class[2]>> /\ s[2] = <<"put", class>> /\ s[3] = <<"assign", class>>
<1> DEFINE q == <<"query", class[1], class[2]>>
           p == <<"put", class>>
           a == <<"assign", class>>
           s == <<q, p, a>>
<1>0. Registers(class) = s
  BY DEF Registers
<1>1. s \in Seq({q, p, a}) /\ Len(s) = 3 /\ s[1] = q /\ s[2] = p /\ s[3] = a
  OBVIOUS
<1>2. IsSeq(s)
  BY <1>1 DEF IsSeq
<1>3. StepOK(q) /\ StepOK(p) /\ StepOK(a)
  BY DEF StepOK
<1>4. Follows(q, p) /\ Follows(p, a)
  BY DEF Follows
<1>5. q[1] = "query" /\ p[1] = "put" /\ a[1] = "assign"
  OBVIOUS
<1> HIDE DEF s, q, p, a
<1>6. \A i \in 1 .. Len(s) : i \in {1, 2, 3}
  BY <1>1
<1>7. \A i \in 1 .. Len(s) : StepOK(s[i]) /\ s[i][1] \notin {"footer", "open"}
  BY <1>1, <1>3, <1>5, <1>6
<1>8. \A i \in 2 .. Len(s) : (i = 2 /\ i - 1 = 1) \/ (i = 3 /\ i - 1 = 2)
  BY <1>1
<1>9. \A i \in 2 .. Len(s) : Follows(s[i - 1], s[i])
  BY <1>1, <1>4, <1>8
<1>10. Valid(s)
  BY <1>2, <1>7, <1>9 DEF Valid
<1> QED BY <1>0, <1>1, <1>10 DEF q, p, a

(* A sequence of one step.                                                  *)
LEMMA Single ==
    ASSUME NEW a
    PROVE  IsSeq(<<a>>) /\ Len(<<a>>) = 1 /\ <<a>>[1] = a
<1>1. <<a>> \in Seq({a}) /\ Len(<<a>>) = 1 /\ <<a>>[1] = a
  OBVIOUS
<1> QED BY <1>1 DEF IsSeq

(* One step at the end of a sequence.                                       *)
LEMMA OneMore ==
    ASSUME NEW p, IsSeq(p), NEW a
    PROVE  /\ IsSeq(p \o <<a>>) /\ Len(p) \in Nat /\ Len(p \o <<a>>) = Len(p) + 1
           /\ \A i \in 1 .. Len(p) : (p \o <<a>>)[i] = p[i]
           /\ (p \o <<a>>)[Len(p) + 1] = a
<1>1. PICK r : r = <<a>>
  OBVIOUS
<1>2. IsSeq(r) /\ Len(r) = 1 /\ r[1] = a
  BY <1>1, Single
<1>3. IsSeq(p \o r) /\ Len(p) \in Nat /\ Len(p \o r) = Len(p) + Len(r)
  BY <1>2, Joined
<1>4. \A i \in 1 .. Len(p) + Len(r) : (p \o r)[i] = IF i <= Len(p) THEN p[i] ELSE r[i - Len(p)]
  BY <1>2, Joined
<1>5. /\ Len(p) + 1 \in 1 .. Len(p) + Len(r) /\ ~(Len(p) + 1 <= Len(p)) /\ (Len(p) + 1) - Len(p) = 1
      /\ \A i \in 1 .. Len(p) : i \in 1 .. Len(p) + Len(r) /\ i <= Len(p)
  BY <1>2, <1>3
<1>6. (p \o r)[Len(p) + 1] = a /\ Len(p \o r) = Len(p) + 1
  BY <1>2, <1>3, <1>4, <1>5
<1>7. \A i \in 1 .. Len(p) : (p \o r)[i] = p[i]
  BY <1>4, <1>5
<1> QED BY <1>1, <1>3, <1>6, <1>7

(* The header, an inner object, and the footer.                             *)
LEMMA ValidBody ==
    ASSUME NEW o \in Objects, NEW save \in BOOLEAN
    PROVE  LET s == Body(o, save)
               n == IF Inner[o] = NoObject THEN 2 ELSE 3 IN
           /\ Valid(s)
           /\ Len(s) = n
           /\ s[1] = <<"open", o>>
           /\ s[n] = <<"footer", o, save>>
           /\ n = 3 => s[2] = <<"enter", Inner[o]>>
<1> DEFINE a == <<"open", o>>
           e == <<"enter", Inner[o]>>
           f == <<"footer", o, save>>
<1>1. StepOK(a) /\ StepOK(f) /\ (Inner[o] # NoObject => StepOK(e))
  BY InnerObjects DEF StepOK
<1>2. Follows(a, f) /\ Follows(a, e) /\ Follows(e, f)
  BY DEF Follows
<1>3. BeforeFooter(a, o) /\ BeforeFooter(e, o)
  BY DEF BeforeFooter
<1>4. a[1] = "open" /\ a[2] = o /\ e[1] = "enter" /\ f[1] = "footer" /\ f[2] = o
  OBVIOUS
<1>5. CASE Inner[o] = NoObject
  <2> DEFINE b == <<a>> \o <<>>
             s == b \o <<f>>
  <2>1. Body(o, save) = s
    BY <1>5 DEF Body
  <2>0. IsSeq(<<>>) /\ Len(<<>>) = 0
    BY ValidNothing, EmptySeq DEF Valid
  <2>11. IsSeq(b) /\ Len(b) = 1 /\ b[1] = a
    BY <2>0, Joined, Single
  <2> HIDE DEF b
  <2>2. IsSeq(s) /\ Len(s) = 2 /\ s[1] = a /\ s[2] = f
    <3> HIDE DEF a, e, f
    <3>1. /\ IsSeq(b \o <<f>>) /\ Len(b \o <<f>>) = Len(b) + 1
          /\ \A i \in 1 .. Len(b) : (b \o <<f>>)[i] = b[i]
          /\ (b \o <<f>>)[Len(b) + 1] = f
      BY <2>11, OneMore
    <3> QED BY <2>11, <3>1
  <2>3. IsSeq(s)
    BY <2>2
  <2> HIDE DEF s, a, f, e
  <2>4. 1 \in 1 .. Len(s) /\ 2 \in 1 .. Len(s) /\ \A i \in 1 .. Len(s) : i = 1 \/ i = 2
    BY <2>2
  <2>5. \A i \in 1 .. Len(s) : StepOK(s[i])
    BY <1>1, <2>2, <2>4
  <2>6. \A i \in 2 .. Len(s) : i = 2 /\ i - 1 = 1
    BY <2>2
  <2>7. \A i \in 2 .. Len(s) : Follows(s[i - 1], s[i])
    BY <1>2, <2>2, <2>6
  <2>8. \A i, j \in 1 .. Len(s) : j < i /\ s[i][1] = "footer" => BeforeFooter(s[j], s[i][2])
    BY <1>3, <1>4, <2>2, <2>4
  <2>9. \A i \in 1 .. Len(s) : s[i][1] = "open" =>
          \E j \in 1 .. Len(s) : i < j /\ s[j][1] = "footer" /\ s[j][2] = s[i][2]
    BY <1>4, <2>2, <2>4
  <2>10. Valid(s)
    BY <2>3, <2>5, <2>7, <2>8, <2>9 DEF Valid
  <2> QED BY <1>5, <2>1, <2>2, <2>10 DEF a, f
<1>6. CASE Inner[o] # NoObject
  <2> DEFINE b == <<a>> \o <<e>>
             s == b \o <<f>>
  <2>1. Body(o, save) = s
    BY <1>6 DEF Body, FromPython
  <2>0. 1 \in 1 .. 1 /\ 1 + 1 = 2 /\ 1 \in 1 .. 2 /\ 2 \in 1 .. 2 /\ 2 + 1 = 3
    OBVIOUS
  <2>11. IsSeq(b) /\ Len(b) = 2 /\ b[1] = a /\ b[2] = e
    BY <2>0, Single, OneMore
  <2> HIDE DEF b
  <2>2. IsSeq(s) /\ Len(s) = 3 /\ s[1] = a /\ s[2] = e /\ s[3] = f
    <3> HIDE DEF a, e, f
    <3>1. /\ IsSeq(b \o <<f>>) /\ Len(b \o <<f>>) = Len(b) + 1
          /\ \A i \in 1 .. Len(b) : (b \o <<f>>)[i] = b[i]
          /\ (b \o <<f>>)[Len(b) + 1] = f
      BY <2>11, OneMore
    <3> QED BY <2>11, <3>1
  <2>3. IsSeq(s)
    BY <2>2
  <2> HIDE DEF s, a, f, e
  <2>4. 1 \in 1 .. Len(s) /\ 2 \in 1 .. Len(s) /\ 3 \in 1 .. Len(s) /\ \A i \in 1 .. Len(s) : i = 1 \/ i = 2 \/ i = 3
    BY <2>2
  <2>5. \A i \in 1 .. Len(s) : StepOK(s[i])
    BY <1>1, <1>6, <2>2, <2>4
  <2>6. \A i \in 2 .. Len(s) : (i = 2 /\ i - 1 = 1) \/ (i = 3 /\ i - 1 = 2)
    BY <2>2
  <2>7. \A i \in 2 .. Len(s) : Follows(s[i - 1], s[i])
    BY <1>2, <2>2, <2>6
  <2>8. \A i, j \in 1 .. Len(s) : j < i /\ s[i][1] = "footer" => BeforeFooter(s[j], s[i][2])
    BY <1>3, <1>4, <2>2, <2>4
  <2>9. \A i \in 1 .. Len(s) : s[i][1] = "open" =>
          \E j \in 1 .. Len(s) : i < j /\ s[j][1] = "footer" /\ s[j][2] = s[i][2]
    BY <1>4, <2>2, <2>4
  <2>10. Valid(s)
    BY <2>3, <2>5, <2>7, <2>8, <2>9 DEF Valid
  <2> QED BY <1>6, <2>1, <2>2, <2>10 DEF a, e, f
<1> QED BY <1>5, <1>6

(* A step alone that is neither a "put", nor an "assign", nor an "open".    *)
LEMMA ValidStep ==
    ASSUME NEW a, StepOK(a), a[1] # "open"
    PROVE  Valid(<<a>>)
<1> DEFINE s == <<a>>
<1>1. s \in Seq({a}) /\ Len(s) = 1 /\ s[1] = a
  OBVIOUS
<1>2. IsSeq(s)
  BY <1>1 DEF IsSeq
<1> HIDE DEF s
<1>3. \A i \in 1 .. Len(s) : i = 1 /\ StepOK(s[i]) /\ s[i][1] # "open"
  BY <1>1
<1>4. \A i : i \notin 2 .. Len(s)
  BY <1>1
<1> QED BY <1>2, <1>3, <1>4 DEF Valid, s

-----------------------------------------------------------------------------
(* What an agenda consists of, in whatever order                            *)

(* The steps of an agenda, in whatever order.                               *)
Pending(s) == {s[i] : i \in 1 .. Len(s)}

(* The steps of two agendas, the one done after the other.                  *)
LEMMA PendingJoined ==
    ASSUME NEW p, IsSeq(p), NEW r, IsSeq(r)
    PROVE  Pending(p \o r) = Pending(p) \cup Pending(r)
<1> DEFINE q == p \o r
           m == Len(p)
           n == Len(r)
<1>1. /\ m \in Nat /\ n \in Nat /\ Len(q) = m + n
      /\ \A i \in 1 .. m + n : q[i] = IF i <= m THEN p[i] ELSE r[i - m]
  BY Joined
<1> HIDE DEF q, m, n
<1>2. m \in Nat /\ n \in Nat /\ Len(q) = m + n
  BY <1>1
<1>3. ASSUME NEW i \in 1 .. m
      PROVE  i \in 1 .. Len(q) /\ q[i] = p[i]
  <2>1. i \in 1 .. m + n /\ i <= m
    BY <1>2
  <2> QED BY <2>1, <1>1, <1>2
<1>4. ASSUME NEW i \in 1 .. n
      PROVE  m + i \in 1 .. Len(q) /\ q[m + i] = r[i]
  <2>1. m + i \in 1 .. m + n /\ ~(m + i <= m) /\ (m + i) - m = i
    BY <1>2
  <2> QED BY <2>1, <1>1, <1>2
<1>5. ASSUME NEW i \in 1 .. Len(q)
      PROVE  q[i] \in {p[j] : j \in 1 .. m} \cup {r[j] : j \in 1 .. n}
  <2>1. CASE i <= m
    <3>1. i \in 1 .. m
      BY <2>1, <1>2
    <3> QED BY <3>1, <1>3
  <2>2. CASE ~(i <= m)
    <3>1. i - m \in 1 .. n /\ m + (i - m) = i
      BY <2>2, <1>2
    <3>2. q[i] = r[i - m]
      BY <3>1, <1>4
    <3> QED BY <3>1, <3>2
  <2> QED BY <2>1, <2>2
<1>6. {q[i] : i \in 1 .. Len(q)} = {p[j] : j \in 1 .. m} \cup {r[j] : j \in 1 .. n}
  BY <1>3, <1>4, <1>5
<1> QED BY <1>6 DEF Pending, q, m, n

(* What remains of an agenda, and which steps may come before a footer.     *)
LEMMA Popped ==
    ASSUME NEW s, Valid(s), s # <<>>
    PROVE  /\ Valid(Tail(s))
           /\ <<>> \o Tail(s) = Tail(s)
           /\ Head(s) = s[1] /\ StepOK(s[1])
           /\ Pending(s) = {s[1]} \cup Pending(Tail(s))
           /\ Tail(s) # <<>> => Follows(s[1], Head(Tail(s)))
           /\ \A x \in Pending(Tail(s)) : x[1] = "footer" => BeforeFooter(s[1], x[2])
           /\ s[1][1] = "open" => \E x \in Pending(Tail(s)) : x[1] = "footer" /\ x[2] = s[1][2]
<1> DEFINE r == Tail(s)
           n == Len(s)
           k == Len(r)
<1>1. /\ IsSeq(s) /\ IsSeq(r) /\ n \in Nat \ {0} /\ k \in Nat /\ k = n - 1
      /\ \A i \in 1 .. k : r[i] = s[i + 1]
      /\ Head(s) = s[1]
  BY Rest DEF Valid
<1>2. <<>> \o r = r
  <2>1. PICK S : r \in Seq(S)
    BY <1>1 DEF IsSeq
  <2> QED BY <2>1, ConcatEmptySeq
<1>3. /\ \A i \in 1 .. n : StepOK(s[i])
      /\ \A i \in 2 .. n : Follows(s[i - 1], s[i])
      /\ \A i, j \in 1 .. n : j < i /\ s[i][1] = "footer" => BeforeFooter(s[j], s[i][2])
      /\ \A i \in 1 .. n : s[i][1] = "open" =>
            \E j \in 1 .. n : i < j /\ s[j][1] = "footer" /\ s[j][2] = s[i][2]
  BY DEF Valid
<1>4. r # <<>> => Follows(s[1], Head(r))
  <2> SUFFICES ASSUME r # <<>> PROVE Follows(s[1], Head(r))
    OBVIOUS
  <2>1. k \in Nat \ {0} /\ Head(r) = r[1]
    BY <1>1, Rest
  <2> HIDE DEF r, n, k
  <2>2. 2 \in 2 .. n /\ 1 \in 1 .. k /\ 2 - 1 = 1 /\ 1 + 1 = 2
    BY <2>1, <1>1
  <2>3. Follows(s[2 - 1], s[2]) /\ r[1] = s[1 + 1]
    BY <2>2, <1>1, <1>3
  <2> QED BY <2>1, <2>2, <2>3
<1>5. Valid(r)
  BY ValidRest
<1> HIDE DEF r, n, k
<1>6. /\ 1 \in 1 .. n
      /\ \A i \in 1 .. k : i + 1 \in 1 .. n /\ 1 < i + 1
      /\ \A i \in 1 .. n : i = 1 \/ (i - 1 \in 1 .. k /\ (i - 1) + 1 = i)
  BY <1>1
<1>7. \A i \in 1 .. n : i = 1 \/ (i - 1 \in 1 .. k /\ s[i] = r[i - 1])
  BY <1>1, <1>6
<1>8. {s[i] : i \in 1 .. n} = {s[1]} \cup {r[i] : i \in 1 .. k}
  BY <1>1, <1>6, <1>7
<1>9. \A i \in 1 .. k : r[i][1] = "footer" => BeforeFooter(s[1], r[i][2])
  BY <1>1, <1>3, <1>6
<1>10. s[1][1] = "open" => \E i \in 1 .. k : r[i][1] = "footer" /\ r[i][2] = s[1][2]
  <2> SUFFICES ASSUME s[1][1] = "open" PROVE \E i \in 1 .. k : r[i][1] = "footer" /\ r[i][2] = s[1][2]
    OBVIOUS
  <2>1. PICK j \in 1 .. n : 1 < j /\ s[j][1] = "footer" /\ s[j][2] = s[1][2]
    BY <1>3, <1>6
  <2>2. j - 1 \in 1 .. k /\ s[j] = r[j - 1]
    BY <2>1, <1>7
  <2> QED BY <2>1, <2>2
<1>11. StepOK(s[1])
  BY <1>3, <1>6
<1> QED BY <1>1, <1>2, <1>4, <1>5, <1>8, <1>9, <1>10, <1>11 DEF Pending, r, n, k

(* An object has one footer.                                                *)
LEMMA OneFooter ==
    ASSUME NEW s, Valid(s), NEW x \in Pending(s), NEW y \in Pending(s),
           x[1] = "footer", y[1] = "footer", x[2] = y[2]
    PROVE  x = y
<1>1. PICK i \in 1 .. Len(s) : x = s[i]
  BY DEF Pending
<1>2. PICK j \in 1 .. Len(s) : y = s[j]
  BY DEF Pending
<1>3. x[2] \in Objects
  BY <1>1 DEF Valid, StepOK
<1>4. Inner[x[2]] # x[2]
  BY <1>3, InnerObjects
<1>5. ~(j < i)
  BY <1>1, <1>2, <1>4 DEF Valid, BeforeFooter
<1>6. ~(i < j)
  BY <1>1, <1>2, <1>4 DEF Valid, BeforeFooter
<1>7. Len(s) \in Nat
  <2>1. PICK S : s \in Seq(S)
    BY DEF Valid, IsSeq
  <2> QED BY <2>1, LenProperties
<1> QED BY <1>1, <1>2, <1>5, <1>6, <1>7

-----------------------------------------------------------------------------
(* Writing an object                                                        *)

(* The first step of what is done first.                                    *)
LEMMA HeadJoined ==
    ASSUME NEW p, IsSeq(p), NEW r, IsSeq(r), Len(p) > 0
    PROVE  p \o r # <<>> /\ Head(p \o r) = p[1]
<1>1. /\ IsSeq(p \o r) /\ Len(p) \in Nat /\ Len(r) \in Nat /\ Len(p \o r) = Len(p) + Len(r)
      /\ \A i \in 1 .. Len(p) + Len(r) : (p \o r)[i] = IF i <= Len(p) THEN p[i] ELSE r[i - Len(p)]
  BY Joined
<1>2. 1 \in 1 .. Len(p) + Len(r) /\ 1 <= Len(p) /\ Len(p) + Len(r) > 0
  BY <1>1
<1>3. (p \o r)[1] = p[1]
  BY <1>1, <1>2
<1>4. p \o r # <<>>
  <2>1. Len(p \o r) > 0 /\ Len(<<>>) = 0
    BY <1>1, <1>2, EmptySeq
  <2> QED BY <2>1
<1> QED BY <1>1, <1>3, <1>4, Rest

(* The steps of writing an object, in place of a step that asks for it.     *)
LEMMA Written ==
    ASSUME NEW s, Valid(s), s # <<>>, NEW save \in BOOLEAN,
           s[1][1] = IF save THEN "hash" ELSE "enter"
    PROVE  LET o == s[1][2]
               r == Body(o, save) \o Tail(s) IN
           /\ o \in Objects
           /\ Valid(r)
           /\ r # <<>> /\ Head(r) = <<"open", o>>
           /\ <<"open", o>> \in Pending(r) /\ <<"footer", o, save>> \in Pending(r)
           /\ Pending(Tail(s)) \subseteq Pending(r)
           /\ \A x \in Pending(r) : x[1] = "footer" => x = <<"footer", o, save>> \/ x \in Pending(Tail(s))
<1> DEFINE o == s[1][2]
           b == Body(o, save)
           t == Tail(s)
           f == <<"footer", o, save>>
           n == IF Inner[o] = NoObject THEN 2 ELSE 3
<1>1. /\ Valid(t)
      /\ StepOK(s[1])
      /\ t # <<>> => Follows(s[1], Head(t))
      /\ \A x \in Pending(t) : x[1] = "footer" => BeforeFooter(s[1], x[2])
  BY Popped
<1>2. o \in Objects
  BY <1>1 DEF StepOK
<1>3. /\ Valid(b) /\ Len(b) = n /\ b[1] = <<"open", o>> /\ b[n] = f
      /\ n = 3 => b[2] = <<"enter", Inner[o]>>
  BY <1>2, ValidBody
<1>4. Len(b) > 0 => (Len(t) > 0 => Follows(b[Len(b)], t[1]))
  <2> SUFFICES ASSUME Len(t) > 0 PROVE Follows(f, t[1])
    BY <1>3
  <2>1. t # <<>>
    BY EmptySeq
  <2>2. Head(t) = t[1]
    BY <1>1, <2>1, Rest DEF Valid
  <2>3. Follows(s[1], t[1])
    BY <1>1, <2>1, <2>2
  <2>4. t[1][1] \notin {"put", "assign", "open"}
    BY <2>3 DEF Follows
  <2>5. ASSUME t[1][1] = "send"
        PROVE  ~save /\ o = t[1][2]
    <3>1. s[1] = <<"enter", t[1][2]>> \/ s[1] = <<"footer", t[1][2], FALSE>>
      BY <2>3, <2>5 DEF Follows
    <3>2. CASE s[1] = <<"enter", t[1][2]>>
      <4>1. s[1][1] = "enter" /\ s[1][2] = t[1][2]
        BY <3>2
      <4> QED BY <4>1
    <3>3. CASE s[1] = <<"footer", t[1][2], FALSE>>
      <4>1. s[1][1] = "footer"
        BY <3>3
      <4> QED BY <4>1
    <3> QED BY <3>1, <3>2, <3>3
  <2> QED BY <2>4, <2>5 DEF Follows
<1>5. \A x \in Pending(t) : x[1] = "footer" => x[2] \in Objects /\ ~save /\ o = Inner[x[2]]
  <2>1. \A x \in Pending(t) : StepOK(x)
    BY <1>1 DEF Valid, Pending
  <2> QED BY <1>1, <2>1 DEF BeforeFooter, StepOK
<1>6. ASSUME NEW j \in 1 .. Len(b), NEW i \in 1 .. Len(t), t[i][1] = "footer"
      PROVE  BeforeFooter(b[j], t[i][2])
  <2>1. o = Inner[t[i][2]] /\ t[i][2] \in Objects
    BY <1>5, <1>6 DEF Pending
  <2>2. Inner[o] = NoObject
    BY <2>1, <1>2, InnerObjects
  <2>3. j = 1 \/ j = 2
    BY <2>2, <1>3
  <2>4. b[j] = <<"open", o>> \/ b[j] = f
    BY <2>2, <2>3, <1>3
  <2> QED BY <2>1, <2>4 DEF BeforeFooter
<1>7. Valid(b \o t)
  BY <1>1, <1>3, <1>4, <1>6, ValidJoined
<1>8. Pending(b \o t) = Pending(b) \cup Pending(t)
  BY <1>1, <1>3, PendingJoined DEF Valid
<1>9. <<"open", o>> \in Pending(b) /\ f \in Pending(b)
  BY <1>3 DEF Pending
<1>10. \A x \in Pending(b) : x[1] = "footer" => x = f
  <2>1. \A i \in 1 .. Len(b) : i = 1 \/ i = n \/ (n = 3 /\ i = 2)
    BY <1>3
  <2>2. \A i \in 1 .. Len(b) : b[i][1] = "footer" => b[i] = f
    BY <2>1, <1>3
  <2> QED BY <2>2 DEF Pending
<1>11. b \o t # <<>> /\ Head(b \o t) = <<"open", o>>
  <2>1. Len(b) > 0
    BY <1>3
  <2> QED BY <2>1, <1>1, <1>3, HeadJoined DEF Valid
<1> QED BY <1>2, <1>7, <1>8, <1>9, <1>10, <1>11

(* An object that is written is registered before.                          *)
LEMMA Entered ==
    ASSUME NEW s, Valid(s), s # <<>>, s[1][1] = "enter"
    PROVE  LET o == s[1][2]
               r == (Registers(ClassOf[o]) \o Body(o, FALSE)) \o Tail(s) IN
           /\ o \in Objects
           /\ Valid(r)
           /\ r # <<>> /\ Head(r)[1] = "query"
           /\ <<"open", o>> \in Pending(r)
           /\ Pending(Tail(s)) \subseteq Pending(r)
           /\ \A x \in Pending(r) : x[1] = "footer" => x = <<"footer", o, FALSE>> \/ x \in Pending(Tail(s))
<1> DEFINE o == s[1][2]
           g == Registers(ClassOf[o])
           b == Body(o, FALSE)
           t == Tail(s)
           w == b \o t
<1>1. /\ o \in Objects
      /\ Valid(w)
      /\ w # <<>> /\ Head(w) = <<"open", o>>
      /\ <<"open", o>> \in Pending(w)
      /\ Pending(t) \subseteq Pending(w)
      /\ \A x \in Pending(w) : x[1] = "footer" => x = <<"footer", o, FALSE>> \/ x \in Pending(t)
  BY Written
<1>2. /\ Valid(g) /\ Len(g) = 3
      /\ g[1] = <<"query", ClassOf[o][1], ClassOf[o][2]>>
      /\ g[2] = <<"put", ClassOf[o]>> /\ g[3] = <<"assign", ClassOf[o]>>
  BY <1>1, InnerObjects, ValidRegisters
<1>3. Valid(b) /\ Valid(t)
  BY <1>1, ValidBody, ValidRest
<1>4. (g \o b) \o t = g \o w
  <2>1. PICK S : g \in Seq(S)
    BY <1>2 DEF Valid, IsSeq
  <2>2. PICK T : b \in Seq(T)
    BY <1>3 DEF Valid, IsSeq
  <2>3. PICK U : t \in Seq(U)
    BY <1>3 DEF Valid, IsSeq
  <2> DEFINE V == S \cup T \cup U
  <2>4. S \subseteq V /\ T \subseteq V /\ U \subseteq V
    OBVIOUS
  <2> HIDE DEF V, g, b, t
  <2>5. g \in Seq(V) /\ b \in Seq(V) /\ t \in Seq(V)
    BY <2>1, <2>2, <2>3, <2>4, SeqMonotonic
  <2> QED BY <2>5, ConcatAssociative
<1> HIDE DEF w
<1>5. \A i \in 1 .. Len(g) : g[i][1] \in {"query", "put", "assign"}
  <2>1. \A i \in 1 .. Len(g) : i = 1 \/ i = 2 \/ i = 3
    BY <1>2
  <2> QED BY <2>1, <1>2
<1>6. Valid(g \o w)
  <2>1. Head(w) = w[1]
    BY <1>1, Rest DEF Valid
  <2>2. Follows(g[Len(g)], w[1])
    BY <2>1, <1>1, <1>2 DEF Follows
  <2>3. \A j \in 1 .. Len(g) : \A x : BeforeFooter(g[j], x)
    BY <1>5 DEF BeforeFooter
  <2> QED BY <2>2, <2>3, <1>1, <1>2, ValidJoined
<1>7. Pending(g \o w) = Pending(g) \cup Pending(w)
  BY <1>1, <1>2, PendingJoined DEF Valid
<1>8. \A x \in Pending(g) : x[1] # "footer"
  BY <1>5 DEF Pending
<1>9. g \o w # <<>> /\ Head(g \o w)[1] = "query"
  <2>1. Len(g) > 0
    BY <1>2
  <2>2. g \o w # <<>> /\ Head(g \o w) = g[1]
    BY <2>1, <1>1, <1>2, HeadJoined DEF Valid
  <2> QED BY <2>2, <1>2
<1> QED BY <1>1, <1>4, <1>6, <1>7, <1>8, <1>9

-----------------------------------------------------------------------------
(* Where the tasks are                                                      *)

(* Where a task is and the next step of its agenda.                         *)
PlaceOK(where, s) ==
  /\ where \in {"idle", "run", "wait", "ask", "asked", "put", "done"}
  /\ where = "idle" => s = <<>>
  /\ where \in {"wait", "ask", "asked"} => s # <<>> /\ Head(s)[1] = "query"
  /\ where \in {"put", "done"} => s # <<>> /\ Head(s)[1] = "put"

(* Every task has a valid agenda that fits its place, and one task at most  *)
(* is running.                                                              *)
TasksInv ==
  /\ DOMAIN at = Tasks /\ DOMAIN agenda = Tasks
  /\ \A t \in Tasks : Valid(agenda[t]) /\ PlaceOK(at[t], agenda[t])
  /\ \A t, u \in Tasks : at[t] = "run" /\ at[u] = "run" => t = u

(* The agenda a call begins with.                                           *)
Begun(s) ==
  /\ Valid(s) /\ s # <<>> /\ Head(s)[1] \in {"enter", "hash", "query"}
  /\ \A x \in Pending(s) : x[1] \notin {"open", "footer"}

(* An agenda of one step.                                                   *)
LEMMA PendingStep ==
    ASSUME NEW a
    PROVE  Pending(<<a>>) = {a}
<1>1. Len(<<a>>) = 1 /\ <<a>>[1] = a
  BY Single
<1>2. \A i \in 1 .. Len(<<a>>) : i = 1
  BY <1>1
<1>3. 1 \in 1 .. Len(<<a>>)
  BY <1>1
<1> QED BY <1>1, <1>2, <1>3 DEF Pending

(* A call of one step.                                                      *)
LEMMA BegunStep ==
    ASSUME NEW a, StepOK(a), a[1] \in {"enter", "hash", "query"}
    PROVE  Begun(<<a>>)
<1>1. Valid(<<a>>)
  BY ValidStep
<1>2. Pending(<<a>>) = {a}
  BY PendingStep
<1>3. <<a>> # <<>> /\ Head(<<a>>) = a
  OBVIOUS
<1> QED BY <1>1, <1>2, <1>3 DEF Begun

(* A value is written and sent.                                             *)
LEMMA BegunSends ==
    ASSUME NEW o \in Objects
    PROVE  Begun(Sends(o))
<1> DEFINE a == <<"enter", o>>
           b == <<"send", o>>
<1>1. StepOK(a) /\ StepOK(b) /\ Follows(a, b) /\ a[1] = "enter" /\ b[1] = "send"
  BY DEF StepOK, Follows
<1>2. Sends(o) = <<a>> \o <<b>>
  BY DEF Sends, FromPython
<1> HIDE DEF a, b
<1>3. /\ Valid(<<a>>) /\ IsSeq(<<a>>) /\ Len(<<a>>) = 1 /\ <<a>>[1] = a
      /\ Valid(<<b>>) /\ IsSeq(<<b>>) /\ Len(<<b>>) = 1 /\ <<b>>[1] = b
      /\ Pending(<<a>>) = {a} /\ Pending(<<b>>) = {b}
  BY <1>1, Single, ValidStep, PendingStep
<1>4. \A i \in 1 .. Len(<<b>>) : <<b>>[i][1] # "footer"
  <2>1. \A i \in 1 .. Len(<<b>>) : i = 1
    BY <1>3
  <2> QED BY <2>1, <1>1, <1>3
<1>5. Valid(<<a>> \o <<b>>)
  BY <1>1, <1>3, <1>4, ValidJoined
<1>6. Pending(<<a>> \o <<b>>) = {a} \cup {b}
  BY <1>3, PendingJoined
<1>7. <<a>> \o <<b>> # <<>> /\ Head(<<a>> \o <<b>>) = a
  BY <1>3, HeadJoined
<1> QED BY <1>1, <1>2, <1>5, <1>6, <1>7 DEF Begun

(* A key is hashed, written and sent.                                       *)
LEMMA BegunRoutes ==
    ASSUME NEW o \in Objects
    PROVE  Begun(Routes(o))
<1> DEFINE a == <<"hash", o>>
           r == Sends(o)
<1>1. StepOK(a) /\ a[1] = "hash"
  BY DEF StepOK
<1>2. Routes(o) = <<a>> \o r
  BY DEF Routes
<1>3. Valid(r) /\ IsSeq(r) /\ r # <<>> /\ Head(r) = r[1] /\ r[1][1] \in {"enter", "hash", "query"}
      /\ \A x \in Pending(r) : x[1] \notin {"open", "footer"}
  BY BegunSends, Rest DEF Begun, Valid
<1> HIDE DEF a, r
<1>4. Follows(a, r[1])
  BY <1>3 DEF Follows
<1>5. Valid(<<a>>) /\ IsSeq(<<a>>) /\ Len(<<a>>) = 1 /\ <<a>>[1] = a /\ Pending(<<a>>) = {a}
  BY <1>1, Single, ValidStep, PendingStep
<1>6. \A i \in 1 .. Len(r) : r[i][1] # "footer"
  BY <1>3 DEF Pending
<1>7. Valid(<<a>> \o r)
  BY <1>3, <1>4, <1>5, <1>6, ValidJoined
<1>8. Pending(<<a>> \o r) = {a} \cup Pending(r)
  BY <1>3, <1>5, PendingJoined
<1>9. <<a>> \o r # <<>> /\ Head(<<a>> \o r) = a
  BY <1>3, <1>5, HeadJoined
<1> QED BY <1>1, <1>2, <1>3, <1>7, <1>8, <1>9 DEF Begun

(* register_binary_type is called.                                          *)
LEMMA BegunRegisters ==
    ASSUME NEW class \in Own
    PROVE  Begun(Registers(class))
<1> DEFINE r == Registers(class)
<1>1. /\ Valid(r) /\ Len(r) = 3
      /\ r[1] = <<"query", class[1], class[2]>> /\ r[2] = <<"put", class>> /\ r[3] = <<"assign", class>>
  BY ValidRegisters
<1> HIDE DEF r
<1>2. r # <<>>
  BY <1>1, EmptySeq
<1>3. Head(r) = r[1]
  BY <1>1, <1>2, Rest DEF Valid
<1>4. \A i \in 1 .. Len(r) : i = 1 \/ i = 2 \/ i = 3
  BY <1>1
<1>5. \A i \in 1 .. Len(r) : r[i][1] \notin {"open", "footer"}
  BY <1>1, <1>4
<1> QED BY <1>1, <1>2, <1>3, <1>5 DEF Begun, Pending, r

(* An object is read.                                                       *)
LEMMA BegunReads ==
    ASSUME NEW key, NEW compact
    PROVE  Begun(Reads(key, compact))
<1> DEFINE q == <<"query", key[1], key[2]>>
           d == <<"dataclass", key>>
           y == <<"style", compact>>
           s == <<q, d, y, q>>
<1>1. s \in Seq({q, d, y}) /\ Len(s) = 4 /\ s[1] = q /\ s[2] = d /\ s[3] = y /\ s[4] = q /\ s # <<>>
  OBVIOUS
<1>2. q[1] = "query" /\ d[1] = "dataclass" /\ y[1] = "style"
  OBVIOUS
<1>3. Reads(key, compact) = s
  BY DEF Reads
<1> HIDE DEF s, q, d, y
<1>4. IsSeq(s)
  BY <1>1 DEF IsSeq
<1>5. \A i \in 1 .. Len(s) : i = 1 \/ i = 2 \/ i = 3 \/ i = 4
  BY <1>1
<1>6. \A i \in 1 .. Len(s) : s[i][1] \in {"query", "dataclass", "style"}
  BY <1>1, <1>2, <1>5
<1>7. \A i \in 1 .. Len(s) : StepOK(s[i])
  BY <1>6 DEF StepOK
<1>8. \A i \in 2 .. Len(s) : i \in 1 .. Len(s)
  BY <1>1
<1>9. \A i \in 2 .. Len(s) : Follows(s[i - 1], s[i])
  BY <1>6, <1>8 DEF Follows
<1>10. Valid(s)
  BY <1>4, <1>6, <1>7, <1>9 DEF Valid
<1>11. Head(s)[1] = "query"
  BY <1>1, <1>2, <1>4, Rest
<1> QED BY <1>1, <1>3, <1>6, <1>10, <1>11 DEF Begun, Pending

(* Every call begins with such an agenda, and changes nothing else.         *)
LEMMA CallBegins ==
    ASSUME NEW t \in Tasks, Call(t)
    PROVE  /\ at[t] = "idle" /\ Turn
           /\ \E s : Begun(s) /\ Goes(t, "run", s)
           /\ UNCHANGED <<shared, object, nodes, found, info, out>>
<1>1. ASSUME NEW s, Begun(s), Begin(t, s)
      PROVE  /\ at[t] = "idle" /\ Turn
             /\ \E x : Begun(x) /\ Goes(t, "run", x)
             /\ UNCHANGED <<shared, object, nodes, found, info, out>>
  BY <1>1 DEF Begin
<1>2. ASSUME NEW o \in Objects, Begin(t, Sends(o)) \/ Begin(t, Routes(o))
      PROVE  \E s : Begun(s) /\ Begin(t, s)
  BY <1>2, BegunSends, BegunRoutes
<1>3. ASSUME NEW class \in Offered, Begin(t, Registers(class))
      PROVE  \E s : Begun(s) /\ Begin(t, s)
  BY <1>3, BegunRegisters DEF Own
<1>4. ASSUME NEW key \in Keys, Begin(t, <<<<"query", key[1], NoSchema>>>>)
      PROVE  \E s : Begun(s) /\ Begin(t, s)
  <2>1. StepOK(<<"query", key[1], NoSchema>>) /\ <<"query", key[1], NoSchema>>[1] = "query"
    BY DEF StepOK
  <2> QED BY <2>1, <1>4, BegunStep
<1>5. ASSUME NEW x, Begin(t, Reads(x[1], x[2]))
      PROVE  \E s : Begun(s) /\ Begin(t, s)
  BY <1>5, BegunReads
<1>6. \E s : Begun(s) /\ Begin(t, s)
  BY <1>2, <1>3, <1>4, <1>5 DEF Call
<1> QED BY <1>1, <1>6

-----------------------------------------------------------------------------
(* The steps of a task                                                      *)

(* A task alone goes to another place.                                      *)
GoesTo(t, where, s) ==
  /\ DOMAIN at' = Tasks /\ DOMAIN agenda' = Tasks
  /\ at'[t] = where /\ agenda'[t] = s
  /\ \A u \in Tasks : u # t => at'[u] = at[u] /\ agenda'[u] = agenda[u]

(* Goes, for functions over the tasks.                                      *)
LEMMA GoesThere ==
    ASSUME TasksInv, NEW t \in Tasks, NEW where, NEW s, Goes(t, where, s)
    PROVE  GoesTo(t, where, s)
BY DEF Goes, GoesTo, TasksInv

(* A task that goes to a place that fits its steps, and runs only in its    *)
(* turn.                                                                    *)
LEMMA Places ==
    ASSUME TasksInv, NEW t \in Tasks, NEW where, NEW s, GoesTo(t, where, s),
           Valid(s), PlaceOK(where, s), where = "run" => at[t] = "run" \/ Turn
    PROVE  TasksInv'
<1>1. DOMAIN at' = Tasks /\ DOMAIN agenda' = Tasks
  BY DEF GoesTo
<1>2. \A u \in Tasks : Valid(agenda'[u]) /\ PlaceOK(at'[u], agenda'[u])
  BY DEF GoesTo, TasksInv
<1>3. \A u, v \in Tasks : at'[u] = "run" /\ at'[v] = "run" => u = v
  BY DEF GoesTo, TasksInv, Turn
<1> QED BY <1>1, <1>2, <1>3 DEF TasksInv

(* A task that does a step is the only one that runs.                       *)
LEMMA DoingHead ==
    ASSUME TasksInv, NEW t \in Tasks, NEW what, Doing(t, what)
    PROVE  /\ at[t] = "run" /\ agenda[t] # <<>> /\ Valid(agenda[t])
           /\ Head(agenda[t]) = agenda[t][1] /\ StepOK(Head(agenda[t])) /\ Head(agenda[t])[1] = what
           /\ \A u \in Tasks : u # t => at[u] # "run"
<1>1. at[t] = "run" /\ agenda[t] # <<>> /\ Valid(agenda[t]) /\ Head(agenda[t])[1] = what
  BY DEF Doing, TasksInv
<1>2. Head(agenda[t]) = agenda[t][1] /\ StepOK(agenda[t][1])
  BY <1>1, Popped
<1>3. \A u \in Tasks : u # t => at[u] # "run"
  BY <1>1 DEF TasksInv
<1> QED BY <1>1, <1>2, <1>3

(* A task that is suspended is at a query or at a put.                      *)
LEMMA WaitingHead ==
    ASSUME TasksInv, NEW t \in Tasks, at[t] \in {"wait", "ask", "asked", "put", "done"}
    PROVE  /\ agenda[t] # <<>> /\ Valid(agenda[t])
           /\ Head(agenda[t]) = agenda[t][1] /\ StepOK(Head(agenda[t]))
           /\ at[t] \in {"wait", "ask", "asked"} => Head(agenda[t])[1] = "query"
           /\ at[t] \in {"put", "done"} => Head(agenda[t])[1] = "put"
<1>1. agenda[t] # <<>> /\ Valid(agenda[t])
      /\ (at[t] \in {"wait", "ask", "asked"} => Head(agenda[t])[1] = "query")
      /\ (at[t] \in {"put", "done"} => Head(agenda[t])[1] = "put")
  BY DEF TasksInv, PlaceOK
<1> QED BY <1>1, Popped

(* A step is done and nothing takes its place.                              *)
LEMMA GoneOn ==
    ASSUME TasksInv, NEW t \in Tasks, agenda[t] # <<>>, at[t] = "run" \/ Turn, Continues(t, <<>>)
    PROVE  TasksInv' /\ GoesTo(t, "run", Tail(agenda[t]))
<1>1. Valid(agenda[t])
  BY DEF TasksInv
<1>2. Valid(Tail(agenda[t])) /\ <<>> \o Tail(agenda[t]) = Tail(agenda[t])
  BY <1>1, Popped
<1>3. GoesTo(t, "run", Tail(agenda[t]))
  BY <1>2, GoesThere DEF Continues
<1>4. PlaceOK("run", Tail(agenda[t]))
  BY DEF PlaceOK
<1> QED BY <1>2, <1>3, <1>4, Places

(* A task stays at the step it is at.                                       *)
LEMMA Suspended ==
    ASSUME TasksInv, NEW t \in Tasks, NEW where, GoesTo(t, where, agenda[t]), agenda[t] # <<>>,
           \/ where \in {"wait", "ask", "asked"} /\ Head(agenda[t])[1] = "query"
           \/ where \in {"put", "done"} /\ Head(agenda[t])[1] = "put"
    PROVE  TasksInv'
<1>1. PlaceOK(where, agenda[t]) /\ where # "run"
  BY DEF PlaceOK
<1>2. Valid(agenda[t])
  BY DEF TasksInv
<1> QED BY <1>1, <1>2, Places

(* A call ends.                                                             *)
LEMMA Ended ==
    ASSUME TasksInv, NEW t \in Tasks, Ends(t)
    PROVE  TasksInv' /\ GoesTo(t, "idle", <<>>)
<1>1. GoesTo(t, "idle", <<>>)
  BY GoesThere DEF Ends
<1>2. PlaceOK("idle", <<>>)
  BY DEF PlaceOK
<1> QED BY <1>1, <1>2, Places, ValidNothing

(* query_binary_type, up to its first suspension.                           *)
LEMMA QueryStep ==
    ASSUME TasksInv, NEW t \in Tasks, Query(t)
    PROVE  LET q == Head(agenda[t])
               classes == GetFromRegistry(registry, q[2], q[3]) IN
           /\ TasksInv'
           /\ \/ /\ classes # {} /\ GoesTo(t, "run", Tail(agenda[t]))
                 /\ found' = [found EXCEPT ![t] = classes]
              \/ classes = {} /\ GoesTo(t, "wait", agenda[t]) /\ found' = found
              \/ classes = {} /\ GoesTo(t, "ask", agenda[t]) /\ found' = found
           /\ UNCHANGED <<registry, style, object, nodes, info, out>>
<1> DEFINE q == Head(agenda[t])
           classes == GetFromRegistry(registry, q[2], q[3])
           waits == mux # NoTask \/ queue # <<>>
<1>1. Doing(t, "query") /\ UNCHANGED <<registry, style, object, nodes, info, out>>
  BY DEF Query
<1>2. agenda[t] # <<>> /\ at[t] = "run" /\ q[1] = "query"
  BY <1>1, DoingHead
<1>3. CASE classes # {}
  <2>1. Continues(t, <<>>) /\ found' = [found EXCEPT ![t] = classes]
    BY <1>3 DEF Query
  <2> HIDE DEF classes, q
  <2>2. TasksInv' /\ GoesTo(t, "run", Tail(agenda[t]))
    BY <2>1, <1>2, GoneOn
  <2> QED BY <2>1, <2>2, <1>1, <1>3 DEF classes, q
<1>4. CASE classes = {}
  <2>1. Goes(t, IF waits THEN "wait" ELSE "ask", agenda[t]) /\ found' = found
    BY <1>4 DEF Query
  <2>2. PICK where \in {"wait", "ask"} : Goes(t, where, agenda[t])
    BY <2>1
  <2> HIDE DEF classes, q
  <2>3. GoesTo(t, where, agenda[t])
    BY <2>2, GoesThere
  <2>4. TasksInv'
    BY <2>3, <1>2, Suspended DEF q
  <2> QED BY <2>1, <2>2, <2>3, <2>4, <1>1, <1>4 DEF classes, q
<1> QED BY <1>3, <1>4

(* The mutex is acquired and the registry looked at again.                  *)
LEMMA AcquireStep ==
    ASSUME TasksInv, NEW t \in Tasks, Acquire(t)
    PROVE  LET q == Head(agenda[t])
               classes == GetFromRegistry(registry, q[2], q[3]) IN
           /\ TasksInv' /\ Turn /\ at[t] = "wait"
           /\ \/ /\ classes # {} /\ GoesTo(t, "run", Tail(agenda[t]))
                 /\ found' = [found EXCEPT ![t] = classes]
              \/ classes = {} /\ GoesTo(t, "ask", agenda[t]) /\ found' = found
           /\ UNCHANGED <<registry, style, object, nodes, info, out>>
<1> DEFINE q == Head(agenda[t])
           classes == GetFromRegistry(registry, q[2], q[3])
<1>1. at[t] = "wait" /\ Turn /\ UNCHANGED <<registry, style, object, nodes, info, out>>
  BY DEF Acquire
<1>2. agenda[t] # <<>> /\ q[1] = "query"
  BY <1>1, WaitingHead
<1>3. CASE classes # {}
  <2>1. Continues(t, <<>>) /\ found' = [found EXCEPT ![t] = classes]
    BY <1>3 DEF Acquire
  <2> HIDE DEF classes, q
  <2>2. TasksInv' /\ GoesTo(t, "run", Tail(agenda[t]))
    BY <2>1, <1>1, <1>2, GoneOn
  <2> QED BY <2>1, <2>2, <1>1, <1>3 DEF classes, q
<1>4. CASE classes = {}
  <2>1. Goes(t, "ask", agenda[t]) /\ found' = found
    BY <1>4 DEF Acquire
  <2> HIDE DEF classes, q
  <2>2. GoesTo(t, "ask", agenda[t])
    BY <2>1, GoesThere
  <2>3. TasksInv'
    BY <2>2, <1>2, Suspended DEF q
  <2> QED BY <2>1, <2>2, <2>3, <1>1, <1>4 DEF classes, q
<1> QED BY <1>3, <1>4

(* The cluster answers a lookup.                                            *)
LEMMA NodeAnswersStep ==
    ASSUME TasksInv, NEW t \in Tasks, NodeAnswers(t)
    PROVE  TasksInv' /\ at[t] = "ask" /\ GoesTo(t, "asked", agenda[t])
<1>1. at[t] = "ask" /\ at' = [at EXCEPT ![t] = "asked"] /\ agenda' = agenda
  BY DEF NodeAnswers, shared, nodes
<1>2. GoesTo(t, "asked", agenda[t])
  BY <1>1 DEF GoesTo, TasksInv
<1>3. agenda[t] # <<>> /\ Head(agenda[t])[1] = "query"
  BY <1>1, WaitingHead
<1> QED BY <1>1, <1>2, <1>3, Suspended

(* The cluster registers a class.                                           *)
LEMMA NodePutsStep ==
    ASSUME TasksInv, NEW t \in Tasks, NodePuts(t)
    PROVE  TasksInv' /\ at[t] = "put" /\ GoesTo(t, "done", agenda[t])
<1>1. at[t] = "put" /\ at' = [at EXCEPT ![t] = "done"] /\ agenda' = agenda
  BY DEF NodePuts, shared
<1>2. GoesTo(t, "done", agenda[t])
  BY <1>1 DEF GoesTo, TasksInv
<1>3. agenda[t] # <<>> /\ Head(agenda[t])[1] = "put"
  BY <1>1, WaitingHead
<1> QED BY <1>1, <1>2, <1>3, Suspended

(* The answer to a lookup arrives.                                          *)
LEMMA SynchroniseStep ==
    ASSUME TasksInv, NEW t \in Tasks, Synchronise(t)
    PROVE  TasksInv' /\ Turn /\ at[t] = "asked" /\ GoesTo(t, "run", Tail(agenda[t]))
<1>1. at[t] = "asked" /\ Turn /\ Continues(t, <<>>)
  BY DEF Synchronise
<1>2. agenda[t] # <<>>
  BY <1>1, WaitingHead
<1> QED BY <1>1, <1>2, GoneOn

(* put_binary_type, up to its suspension; a class that was found is not     *)
(* put.                                                                     *)
LEMMA PutStep ==
    ASSUME TasksInv, NEW t \in Tasks, PutBinaryType(t)
    PROVE  /\ TasksInv'
           /\ \/ found[t] = {} /\ GoesTo(t, "put", agenda[t])
              \/ found[t] # {} /\ GoesTo(t, "run", Tail(agenda[t]))
<1>1. Doing(t, "put")
  BY DEF PutBinaryType
<1>2. agenda[t] # <<>> /\ at[t] = "run" /\ Head(agenda[t])[1] = "put"
  BY <1>1, DoingHead
<1>3. CASE found[t] = {}
  <2>1. GoesTo(t, "put", agenda[t])
    BY <1>3, GoesThere DEF PutBinaryType
  <2> QED BY <2>1, <1>2, <1>3, Suspended
<1>4. CASE found[t] # {}
  <2>1. Continues(t, <<>>)
    BY <1>4 DEF PutBinaryType
  <2> QED BY <2>1, <1>2, <1>4, GoneOn
<1> QED BY <1>3, <1>4

(* The answer to a put arrives.                                             *)
LEMMA PutReturnsStep ==
    ASSUME TasksInv, NEW t \in Tasks, PutReturns(t)
    PROVE  TasksInv' /\ Turn /\ at[t] = "done" /\ GoesTo(t, "run", Tail(agenda[t]))
<1>1. at[t] = "done" /\ Turn /\ Continues(t, <<>>)
  BY DEF PutReturns
<1>2. agenda[t] # <<>>
  BY <1>1, WaitingHead
<1> QED BY <1>1, <1>2, GoneOn

(* What is done at once and leaves nothing behind.                          *)
LEMMA OneStep ==
    ASSUME TasksInv, NEW t \in Tasks, Assign(t) \/ Open(t) \/ WriteFooter(t) \/ Send(t)
    PROVE  TasksInv' /\ GoesTo(t, "run", Tail(agenda[t]))
<1>1. at[t] = "run" /\ agenda[t] # <<>> /\ Continues(t, <<>>)
  BY DEF Assign, Open, WriteFooter, Send, Doing
<1> QED BY <1>1, GoneOn

(* An object is written, unless its bytes are kept.                         *)
LEMMA EnterStep ==
    ASSUME TasksInv, NEW t \in Tasks, Enter(t)
    PROVE  LET o == Head(agenda[t])[2]
               s == (Registers(ClassOf[o]) \o Body(o, FALSE)) \o Tail(agenda[t]) IN
           /\ TasksInv'
           /\ \/ object[o].buffer # <<>> /\ GoesTo(t, "run", Tail(agenda[t]))
              \/ object[o].buffer = <<>> /\ GoesTo(t, "run", s)
<1>1. Doing(t, "enter")
  BY DEF Enter
<1>2. agenda[t] # <<>> /\ at[t] = "run" /\ Valid(agenda[t]) /\ Head(agenda[t]) = agenda[t][1] /\ agenda[t][1][1] = "enter"
  BY <1>1, DoingHead
<1> DEFINE o == Head(agenda[t])[2]
           p == Registers(ClassOf[o]) \o Body(o, FALSE)
<1>3. CASE object[o].buffer # <<>>
  <2>1. Continues(t, <<>>)
    BY <1>3 DEF Enter
  <2> QED BY <2>1, <1>2, <1>3, GoneOn
<1>4. CASE object[o].buffer = <<>>
  <2>1. Continues(t, p)
    BY <1>4 DEF Enter
  <2>2. Valid(p \o Tail(agenda[t]))
    BY <1>2, Entered
  <2> HIDE DEF p
  <2>3. GoesTo(t, "run", p \o Tail(agenda[t]))
    BY <2>1, GoesThere DEF Continues
  <2>4. PlaceOK("run", p \o Tail(agenda[t]))
    BY DEF PlaceOK
  <2>5. TasksInv'
    BY <2>2, <2>3, <2>4, <1>2, Places
  <2> QED BY <2>3, <2>5, <1>4 DEF p
<1> QED BY <1>3, <1>4

(* An object is hashed, unless its hash code is kept.                       *)
LEMMA HashStep ==
    ASSUME TasksInv, NEW t \in Tasks, Hashcode(t)
    PROVE  LET o == Head(agenda[t])[2] IN
           /\ TasksInv'
           /\ \/ GoesTo(t, "run", Tail(agenda[t]))
              \/ GoesTo(t, "run", Body(o, TRUE) \o Tail(agenda[t]))
<1>1. Doing(t, "hash")
  BY DEF Hashcode
<1>2. agenda[t] # <<>> /\ at[t] = "run" /\ Valid(agenda[t]) /\ Head(agenda[t]) = agenda[t][1] /\ agenda[t][1][1] = "hash"
  BY <1>1, DoingHead
<1> DEFINE o == Head(agenda[t])[2]
           p == Body(o, TRUE)
<1>3. CASE object[o].hash # <<>>
  <2>1. Continues(t, <<>>)
    BY <1>3 DEF Hashcode
  <2> QED BY <2>1, <1>2, GoneOn
<1>4. CASE object[o].hash = <<>>
  <2>1. Continues(t, p)
    BY <1>4 DEF Hashcode
  <2>2. Valid(p \o Tail(agenda[t]))
    BY <1>2, Written
  <2> HIDE DEF p
  <2>3. GoesTo(t, "run", p \o Tail(agenda[t]))
    BY <2>1, GoesThere DEF Continues
  <2>4. PlaceOK("run", p \o Tail(agenda[t]))
    BY DEF PlaceOK
  <2>5. TasksInv'
    BY <2>2, <2>3, <2>4, <1>2, Places
  <2> QED BY <2>3, <2>5 DEF p
<1> QED BY <1>3, <1>4

(* The steps of reading an object.                                          *)
LEMMA ReadStep ==
    ASSUME TasksInv, NEW t \in Tasks, GetDataclass(t) \/ LearnStyle(t)
    PROVE  TasksInv' /\ (GoesTo(t, "run", Tail(agenda[t])) \/ GoesTo(t, "idle", <<>>))
<1>1. at[t] = "run" /\ agenda[t] # <<>> /\ (Continues(t, <<>>) \/ Ends(t))
  BY DEF GetDataclass, LearnStyle, Doing
<1> QED BY <1>1, GoneOn, Ended

(* Every step keeps the agendas valid and lets one task run.                *)
LEMMA TasksStep ==
    ASSUME TasksInv, [Next]_vars
    PROVE  TasksInv'
<1>1. ASSUME UNCHANGED <<at, agenda>>
      PROVE  TasksInv'
  BY <1>1 DEF TasksInv
<1>2. ASSUME NEW t \in Tasks, Call(t)
      PROVE  TasksInv'
  <2>1. PICK s : Begun(s) /\ Goes(t, "run", s) /\ Turn
    BY <1>2, CallBegins
  <2>2. GoesTo(t, "run", s)
    BY <2>1, GoesThere
  <2>3. Valid(s) /\ PlaceOK("run", s)
    BY <2>1 DEF Begun, PlaceOK
  <2> QED BY <2>1, <2>2, <2>3, Places
<1>3. ASSUME NEW t \in Tasks, Return(t) \/ RequestFails(t)
      PROVE  TasksInv'
  BY <1>3, Ended DEF Return, RequestFails
<1>4. ASSUME NEW t \in Tasks, Runs(t)
      PROVE  TasksInv'
  BY <1>3, <1>4, QueryStep, PutStep, OneStep, EnterStep, HashStep, ReadStep DEF Runs
<1>5. ASSUME NEW t \in Tasks, Resumes(t)
      PROVE  TasksInv'
  BY <1>3, <1>5, AcquireStep, SynchroniseStep, PutReturnsStep DEF Resumes
<1>6. ASSUME NEW t \in Tasks, NodeAnswers(t) \/ NodePuts(t)
      PROVE  TasksInv'
  BY <1>6, NodeAnswersStep, NodePutsStep
<1>7. ASSUME NEW o \in Objects, SetAttr(o)
      PROVE  TasksInv'
  BY <1>1, <1>7 DEF SetAttr
<1>8. ASSUME NEW key \in Foreign, OtherProgram(key)
      PROVE  TasksInv'
  BY <1>1, <1>8 DEF OtherProgram, local
<1>9. CASE UNCHANGED vars
  BY <1>1, <1>9 DEF vars, local
<1> QED BY <1>2, <1>4, <1>5, <1>6, <1>7, <1>8, <1>9 DEF Next

(* At first no task runs.                                                   *)
LEMMA TasksInit == Init => TasksInv
<1> SUFFICES ASSUME Init PROVE TasksInv
  OBVIOUS
<1>1. at = [t \in Tasks |-> "idle"] /\ agenda = [t \in Tasks |-> <<>>]
  BY DEF Init
<1>2. PlaceOK("idle", <<>>)
  BY DEF PlaceOK
<1> QED BY <1>1, <1>2, ValidNothing DEF TasksInv

-----------------------------------------------------------------------------
(* The registry                                                             *)

(* The registry has what the cluster has, and a task answers with that.     *)
RegistryInv ==
  /\ \A k \in DOMAIN registry : k = Key(k) /\ Known(k)
  /\ \A k \in cluster : k = Key(k)
  /\ DOMAIN info = Tasks /\ DOMAIN found = Tasks
  /\ \A t \in Tasks : info[t] \subseteq cluster

(* A class that is not put is known, and one that is assigned.              *)
PutOK(t) ==
  agenda[t] # <<>> =>
    LET s == Head(agenda[t]) IN
    /\ s[1] = "put" /\ at[t] = "run" /\ found[t] # {} => Known(s[2])
    /\ s[1] = "put" /\ at[t] = "done" => Known(s[2])
    /\ s[1] = "assign" => Known(s[2])

(* PutOK of every task.                                                     *)
PutsInv == \A t \in Tasks : PutOK(t)

(* The cluster forgets no class.                                            *)
LEMMA KnownStays ==
    ASSUME cluster \subseteq cluster', NEW class, Known(class)
    PROVE  Known(class)'
BY DEF Known, Key

(* A task that does nothing.                                                *)
LEMMA PutOKStays ==
    ASSUME cluster \subseteq cluster', NEW t \in Tasks, PutOK(t),
           at'[t] = at[t] /\ agenda'[t] = agenda[t] /\ found'[t] = found[t]
    PROVE  PutOK(t)'
<1>1. \A class : Known(class) => Known(class)'
  BY KnownStays
<1> QED BY <1>1 DEF PutOK

(* What a query finds shows that the cluster has the class it is about.     *)
LEMMA FoundIsKnown ==
    ASSUME NEW reg, \A k \in DOMAIN reg : k = Key(k) /\ Known(k),
           NEW class, GetFromRegistry(reg, class[1], class[2]) # {}
    PROVE  Known(class)
<1>1. PICK k \in DOMAIN reg : k[1] = class[1] /\ class[2] \in {NoSchema, k[2]}
  BY DEF GetFromRegistry
<1>2. k = Key(k) /\ Known(k)
  BY <1>1
<1>3. CASE Key(k) \in cluster
  <2>1. CASE class[2] = k[2]
    BY <1>1, <1>3, <2>1 DEF Known, Key
  <2>2. CASE class[2] = NoSchema
    BY <1>1, <1>2, <1>3, <2>2 DEF Known
  <2> QED BY <1>1, <2>1, <2>2
<1>4. CASE k[2] = NoSchema /\ \E x \in cluster : x[1] = k[1]
  BY <1>1, <1>4 DEF Known
<1> QED BY <1>2, <1>3, <1>4 DEF Known

(* After a query.                                                           *)
LEMMA PutOKQueried ==
    ASSUME TasksInv, NEW t \in Tasks, agenda[t] # <<>>, GoesTo(t, "run", Tail(agenda[t])),
           Head(agenda[t])[1] = "query", cluster' = cluster,
           \A k \in DOMAIN registry' : k = Key(k) /\ Known(k),
           found'[t] = GetFromRegistry(registry', Head(agenda[t])[2], Head(agenda[t])[3])
    PROVE  PutOK(t)'
<1> DEFINE q == Head(agenda[t])
           s == Head(agenda'[t])
<1>1. Valid(agenda[t])
  BY DEF TasksInv
<1>2. agenda'[t] = Tail(agenda[t]) /\ at'[t] = "run"
  BY DEF GoesTo
<1>3. agenda'[t] # <<>> => Follows(q, s)
  BY <1>1, <1>2, Popped
<1>4. agenda'[t] # <<>> => s[1] # "assign"
  <2> SUFFICES ASSUME agenda'[t] # <<>>, s[1] = "assign" PROVE FALSE
    OBVIOUS
  <2>1. q = <<"put", s[2]>>
    BY <1>3 DEF Follows
  <2>2. q[1] = "put"
    BY <2>1
  <2> QED BY <2>2
<1>5. ASSUME agenda'[t] # <<>>, s[1] = "put", found'[t] # {}
      PROVE  Known(s[2])
  <2>1. q = <<"query", s[2][1], s[2][2]>>
    BY <1>3, <1>5 DEF Follows
  <2>2. q[2] = s[2][1] /\ q[3] = s[2][2]
    BY <2>1
  <2>3. GetFromRegistry(registry', s[2][1], s[2][2]) # {}
    BY <2>2, <1>5
  <2> QED BY <2>3, FoundIsKnown
<1> QED BY <1>2, <1>4, <1>5 DEF PutOK, Known

(* After a put.                                                             *)
LEMMA PutOKAfterPut ==
    ASSUME TasksInv, NEW t \in Tasks, agenda[t] # <<>>, GoesTo(t, "run", Tail(agenda[t])),
           Head(agenda[t])[1] = "put", cluster' = cluster, Known(Head(agenda[t])[2])
    PROVE  PutOK(t)'
<1> DEFINE q == Head(agenda[t])
           s == Head(agenda'[t])
<1>1. Valid(agenda[t])
  BY DEF TasksInv
<1>2. agenda'[t] = Tail(agenda[t]) /\ at'[t] = "run"
  BY DEF GoesTo
<1>3. agenda'[t] # <<>> => Follows(q, s)
  BY <1>1, <1>2, Popped
<1>4. agenda'[t] # <<>> => s[1] # "put"
  <2> SUFFICES ASSUME agenda'[t] # <<>>, s[1] = "put" PROVE FALSE
    OBVIOUS
  <2>1. q = <<"query", s[2][1], s[2][2]>>
    BY <1>3 DEF Follows
  <2>2. q[1] = "query"
    BY <2>1
  <2> QED BY <2>2
<1>5. ASSUME agenda'[t] # <<>>, s[1] = "assign"
      PROVE  Known(s[2])
  <2>1. q = <<"put", s[2]>>
    BY <1>3, <1>5 DEF Follows
  <2>2. q[2] = s[2]
    BY <2>1
  <2> QED BY <2>2
<1> QED BY <1>2, <1>4, <1>5 DEF PutOK, Known

(* After another step.                                                      *)
LEMMA PutOKPopped ==
    ASSUME TasksInv, NEW t \in Tasks, agenda[t] # <<>>, GoesTo(t, "run", Tail(agenda[t])),
           Head(agenda[t])[1] \notin {"query", "put"}
    PROVE  PutOK(t)'
<1> DEFINE q == Head(agenda[t])
           s == Head(agenda'[t])
<1>1. Valid(agenda[t])
  BY DEF TasksInv
<1>2. agenda'[t] = Tail(agenda[t]) /\ at'[t] = "run"
  BY DEF GoesTo
<1>3. agenda'[t] # <<>> => Follows(q, s)
  BY <1>1, <1>2, Popped
<1>4. agenda'[t] # <<>> => s[1] # "put"
  <2> SUFFICES ASSUME agenda'[t] # <<>>, s[1] = "put" PROVE FALSE
    OBVIOUS
  <2>1. q = <<"query", s[2][1], s[2][2]>>
    BY <1>3 DEF Follows
  <2>2. q[1] = "query"
    BY <2>1
  <2> QED BY <2>2
<1>5. agenda'[t] # <<>> => s[1] # "assign"
  <2> SUFFICES ASSUME agenda'[t] # <<>>, s[1] = "assign" PROVE FALSE
    OBVIOUS
  <2>1. q = <<"put", s[2]>>
    BY <1>3 DEF Follows
  <2>2. q[1] = "put"
    BY <2>1
  <2> QED BY <2>2
<1> QED BY <1>4, <1>5 DEF PutOK

(* A task whose next step is neither a "put" nor an "assign".               *)
LEMMA PutOKElse ==
    ASSUME NEW t \in Tasks, agenda'[t] = <<>> \/ Head(agenda'[t])[1] \notin {"put", "assign"}
    PROVE  PutOK(t)'
BY DEF PutOK

-----------------------------------------------------------------------------
(* Steps and the registry                                                   *)

(* The invariant of the agendas and of the registry.                        *)
RInv == TasksInv /\ RegistryInv /\ PutsInv

(* Steps that leave the registry as it is; the cluster may learn a class.   *)
LEMMA RegistryFrame ==
    ASSUME RegistryInv, registry' = registry, cluster \subseteq cluster',
           \A k \in cluster' : k \in cluster \/ k = Key(k),
           DOMAIN info' = Tasks, DOMAIN found' = Tasks, \A t \in Tasks : info'[t] \subseteq cluster'
    PROVE  RegistryInv'
<1>1. \A k : Known(k) => Known(k)'
  BY KnownStays
<1>2. \A k \in DOMAIN registry' : k = Key(k) /\ Known(k)'
  BY <1>1 DEF RegistryInv
<1>3. \A k \in cluster' : k = Key(k)
  BY DEF RegistryInv
<1> QED BY <1>2, <1>3 DEF RegistryInv, Key

(* A call that ends leaves the registry as it is.                           *)
LEMMA EndsFrame ==
    ASSUME RegistryInv, registry' = registry, cluster' = cluster, NEW t \in Tasks, Ends(t)
    PROVE  RegistryInv' /\ (\A u \in Tasks : u # t => found'[u] = found[u])
<1>1. DOMAIN info = Tasks /\ DOMAIN found = Tasks /\ \A u \in Tasks : info[u] \subseteq cluster
  BY DEF RegistryInv
<1>2. DOMAIN info' = Tasks /\ DOMAIN found' = Tasks /\ (\A u \in Tasks : info'[u] \subseteq cluster)
      /\ (\A u \in Tasks : u # t => found'[u] = found[u])
  BY <1>1 DEF Ends
<1> QED BY <1>2, RegistryFrame

(* Steps that neither touch the registry nor ask the cluster.               *)
LEMMA StillFrame ==
    ASSUME RegistryInv, UNCHANGED <<registry, cluster, info>>, DOMAIN found' = Tasks
    PROVE  RegistryInv'
<1>1. DOMAIN info = Tasks /\ \A u \in Tasks : info[u] \subseteq cluster
  BY DEF RegistryInv
<1> QED BY <1>1, RegistryFrame

(* What one task does leaves the others where they are.                     *)
LEMMA OthersPut ==
    ASSUME PutsInv, cluster \subseteq cluster', NEW t \in Tasks, PutOK(t)',
           \A u \in Tasks : u # t => at'[u] = at[u] /\ agenda'[u] = agenda[u] /\ found'[u] = found[u]
    PROVE  PutsInv'
<1>1. ASSUME NEW u \in Tasks
      PROVE  PutOK(u)'
  <2>1. CASE u = t
    BY <2>1
  <2>2. CASE u # t
    BY <2>2, PutOKStays DEF PutsInv
  <2> QED BY <2>1, <2>2
<1> QED BY <1>1 DEF PutsInv

(* A lookup reads the registry.                                             *)
LEMMA RegistryStepQuery ==
    ASSUME RInv, NEW t \in Tasks, Query(t) \/ Acquire(t)
    PROVE  RegistryInv' /\ PutsInv' /\ cluster' = cluster
<1> DEFINE q == Head(agenda[t])
           classes == GetFromRegistry(registry, q[2], q[3])
<1>1. agenda[t] # <<>> /\ q[1] = "query"
  BY DoingHead, WaitingHead DEF Query, Acquire, RInv
<1>2. /\ \/ /\ classes # {} /\ GoesTo(t, "run", Tail(agenda[t]))
            /\ found' = [found EXCEPT ![t] = classes]
         \/ classes = {} /\ GoesTo(t, "wait", agenda[t]) /\ found' = found
         \/ classes = {} /\ GoesTo(t, "ask", agenda[t]) /\ found' = found
      /\ UNCHANGED <<registry, nodes, info>>
  BY QueryStep, AcquireStep DEF RInv
<1>3. UNCHANGED <<registry, cluster, info>>
  BY <1>2 DEF nodes
<1>4. DOMAIN found = Tasks
  BY DEF RInv, RegistryInv
<1>5. DOMAIN found' = Tasks /\ \A u \in Tasks : u # t => found'[u] = found[u]
  BY <1>2, <1>4
<1>6. RegistryInv'
  BY <1>3, <1>5, StillFrame DEF RInv
<1>7. \A u \in Tasks : u # t => at'[u] = at[u] /\ agenda'[u] = agenda[u]
  BY <1>2 DEF GoesTo
<1>8. CASE GoesTo(t, "run", Tail(agenda[t])) /\ found' = [found EXCEPT ![t] = classes]
  <2>1. found'[t] = GetFromRegistry(registry', Head(agenda[t])[2], Head(agenda[t])[3])
    BY <1>3, <1>4, <1>8
  <2>2. \A k \in DOMAIN registry' : k = Key(k) /\ Known(k)
    BY <1>3 DEF RInv, RegistryInv
  <2> HIDE DEF q, classes
  <2>3. PutOK(t)'
    BY <1>1, <1>3, <1>8, <2>1, <2>2, PutOKQueried DEF RInv, q
  <2> QED BY <2>3, <1>3, <1>5, <1>6, <1>7, OthersPut DEF RInv
<1>9. CASE agenda'[t] = agenda[t]
  <2>1. PutOK(t)'
    BY <1>1, <1>9, PutOKElse
  <2> QED BY <2>1, <1>3, <1>5, <1>6, <1>7, OthersPut DEF RInv
<1> QED BY <1>2, <1>8, <1>9 DEF GoesTo

(* _sync_binary_registry adds what the cluster has and keeps what is there. *)
LEMMA RegistryStepSynchronise ==
    ASSUME RInv, NEW t \in Tasks, Synchronise(t)
    PROVE  /\ RegistryInv' /\ PutsInv' /\ cluster' = cluster
           /\ \A k \in DOMAIN registry : k \in DOMAIN registry' /\ registry'[k] = registry[k]
<1>1. agenda[t] # <<>> /\ Head(agenda[t])[1] = "query"
  BY WaitingHead DEF Synchronise, RInv
<1>2. GoesTo(t, "run", Tail(agenda[t]))
  BY SynchroniseStep DEF RInv
<1>3. /\ registry' = SyncBinaryRegistry(registry, info[t])
      /\ found' = [found EXCEPT ![t] = GetFromRegistry(registry', Head(agenda[t])[2], Head(agenda[t])[3])]
      /\ cluster' = cluster /\ info' = info
  BY DEF Synchronise, nodes
<1>4. DOMAIN found = Tasks /\ DOMAIN info = Tasks /\ \A u \in Tasks : info[u] \subseteq cluster
  BY DEF RInv, RegistryInv
<1>5. /\ DOMAIN registry' = DOMAIN registry \cup info[t]
      /\ \A k \in DOMAIN registry : k \in DOMAIN registry' /\ registry'[k] = registry[k]
  BY <1>3 DEF SyncBinaryRegistry
<1>6. \A k \in DOMAIN registry' : k = Key(k) /\ Known(k)
  BY <1>4, <1>5 DEF RInv, RegistryInv, Known
<1>7. DOMAIN found' = Tasks /\ \A u \in Tasks : u # t => found'[u] = found[u]
  BY <1>3, <1>4
<1>8. RegistryInv'
  BY <1>3, <1>4, <1>6, <1>7 DEF RInv, RegistryInv, Known, Key
<1>9. found'[t] = GetFromRegistry(registry', Head(agenda[t])[2], Head(agenda[t])[3])
  BY <1>3, <1>4
<1>10. PutOK(t)'
  BY <1>1, <1>2, <1>3, <1>6, <1>9, PutOKQueried DEF RInv
<1>11. PutsInv'
  BY <1>2, <1>3, <1>7, <1>10, OthersPut DEF RInv, GoesTo
<1> QED BY <1>3, <1>5, <1>8, <1>11

(* A class is put, or need not be.                                          *)
LEMMA RegistryStepPut ==
    ASSUME RInv, NEW t \in Tasks, PutBinaryType(t) \/ PutReturns(t)
    PROVE  RegistryInv' /\ PutsInv' /\ cluster' = cluster
<1>1. agenda[t] # <<>> /\ Head(agenda[t])[1] = "put"
  BY DoingHead, WaitingHead DEF PutBinaryType, PutReturns, RInv
<1>2. UNCHANGED <<registry, cluster, info, found>>
  BY DEF PutBinaryType, PutReturns, shared, nodes
<1>3. DOMAIN found = Tasks
  BY DEF RInv, RegistryInv
<1>4. RegistryInv'
  BY <1>2, <1>3, StillFrame DEF RInv
<1>5. \/ GoesTo(t, "put", agenda[t])
      \/ GoesTo(t, "run", Tail(agenda[t])) /\ at[t] = "run" /\ found[t] # {}
      \/ GoesTo(t, "run", Tail(agenda[t])) /\ at[t] = "done"
  BY PutStep, PutReturnsStep, DoingHead DEF RInv, PutBinaryType, PutReturns
<1>6. \A u \in Tasks : u # t => at'[u] = at[u] /\ agenda'[u] = agenda[u]
  BY <1>5 DEF GoesTo
<1>7. PutOK(t)'
  <2>1. CASE GoesTo(t, "put", agenda[t])
    <3>1. agenda'[t] # <<>> /\ Head(agenda'[t])[1] = "put" /\ at'[t] = "put"
      BY <1>1, <2>1 DEF GoesTo
    <3> QED BY <3>1 DEF PutOK
  <2>2. CASE GoesTo(t, "run", Tail(agenda[t])) /\ (at[t] = "done" \/ (at[t] = "run" /\ found[t] # {}))
    <3>1. Known(Head(agenda[t])[2])
      BY <1>1, <2>2 DEF RInv, PutsInv, PutOK
    <3> QED BY <3>1, <1>1, <1>2, <2>2, PutOKAfterPut DEF RInv
  <2> QED BY <1>5, <2>1, <2>2
<1> QED BY <1>2, <1>4, <1>6, <1>7, OthersPut DEF RInv

(* register_binary_type assigns a class that the cluster has.               *)
LEMMA RegistryStepAssign ==
    ASSUME RInv, NEW t \in Tasks, Assign(t)
    PROVE  /\ RegistryInv' /\ PutsInv' /\ cluster' = cluster
           /\ LET class == Head(agenda[t])[2] IN
              /\ class \in Own /\ Known(class)
              /\ DOMAIN registry' = DOMAIN registry \cup {Key(class)}
              /\ \A k \in DOMAIN registry' : registry'[k] = IF k = Key(class) THEN class ELSE registry[k]
<1> DEFINE class == Head(agenda[t])[2]
<1>1. Doing(t, "assign")
  BY DEF Assign
<1>2. agenda[t] # <<>> /\ Head(agenda[t])[1] = "assign" /\ StepOK(Head(agenda[t]))
  BY <1>1, DoingHead DEF RInv
<1>3. class \in Own
  BY <1>2 DEF StepOK
<1>4. Known(class)
  BY <1>2 DEF RInv, PutsInv, PutOK
<1>5. /\ registry' = [k \in DOMAIN registry \cup {Key(class)} |-> IF k = Key(class) THEN class ELSE registry[k]]
      /\ UNCHANGED <<cluster, info, found>>
  BY DEF Assign, nodes
<1> HIDE DEF class
<1>6. /\ DOMAIN registry' = DOMAIN registry \cup {Key(class)}
      /\ \A k \in DOMAIN registry' : registry'[k] = IF k = Key(class) THEN class ELSE registry[k]
  BY <1>5
<1>7. Key(Key(class)) = Key(class) /\ Key(class)[1] = class[1] /\ Key(class)[2] = class[2]
  BY DEF Key
<1>8. Known(Key(class))
  BY <1>4, <1>7 DEF Known
<1>9. \A k \in DOMAIN registry' : k = Key(k) /\ Known(k)
  BY <1>6, <1>7, <1>8 DEF RInv, RegistryInv
<1>10. RegistryInv'
  BY <1>5, <1>9 DEF RInv, RegistryInv, Known, Key
<1>11. GoesTo(t, "run", Tail(agenda[t]))
  BY OneStep DEF RInv
<1>12. PutOK(t)'
  BY <1>2, <1>11, PutOKPopped DEF RInv
<1>13. PutsInv'
  BY <1>5, <1>11, <1>12, OthersPut DEF RInv, GoesTo
<1> QED BY <1>3, <1>4, <1>5, <1>6, <1>10, <1>13 DEF class

(* Writing, hashing and sending leave the registry as it is.                *)
LEMMA RegistryStepWrite ==
    ASSUME RInv, NEW t \in Tasks, Enter(t) \/ Open(t) \/ WriteFooter(t) \/ Hashcode(t) \/ Send(t)
    PROVE  RegistryInv' /\ PutsInv' /\ UNCHANGED <<registry, cluster>>
<1>1. UNCHANGED <<registry, cluster, info, found>>
  BY DEF Enter, Open, WriteFooter, Hashcode, Send, shared, nodes
<1>2. DOMAIN found = Tasks
  BY DEF RInv, RegistryInv
<1>3. RegistryInv'
  BY <1>1, <1>2, StillFrame DEF RInv
<1>4. agenda[t] # <<>> /\ Valid(agenda[t]) /\ Head(agenda[t]) = agenda[t][1]
      /\ Head(agenda[t])[1] \in {"enter", "open", "footer", "hash", "send"}
  BY DoingHead DEF RInv, Enter, Open, WriteFooter, Hashcode, Send
<1>5. GoesTo(t, "run", agenda'[t])
  BY OneStep, EnterStep, HashStep DEF RInv, GoesTo
<1>6. \/ agenda'[t] = Tail(agenda[t])
      \/ Enter(t) /\ agenda'[t] = (Registers(ClassOf[Head(agenda[t])[2]]) \o Body(Head(agenda[t])[2], FALSE)) \o Tail(agenda[t])
      \/ Hashcode(t) /\ agenda'[t] = Body(Head(agenda[t])[2], TRUE) \o Tail(agenda[t])
  BY OneStep, EnterStep, HashStep DEF RInv, GoesTo
<1>7. PutOK(t)'
  <2>1. CASE agenda'[t] = Tail(agenda[t])
    BY <1>4, <1>5, <2>1, PutOKPopped DEF RInv
  <2>2. CASE Enter(t) /\ agenda'[t] = (Registers(ClassOf[Head(agenda[t])[2]]) \o Body(Head(agenda[t])[2], FALSE)) \o Tail(agenda[t])
    <3>1. agenda[t][1][1] = "enter"
      BY <1>4, <2>2, DoingHead DEF RInv, Enter
    <3>2. Head(agenda'[t])[1] = "query"
      BY <3>1, <1>4, <2>2, Entered
    <3> QED BY <3>2, PutOKElse
  <2>3. CASE Hashcode(t) /\ agenda'[t] = Body(Head(agenda[t])[2], TRUE) \o Tail(agenda[t])
    <3>1. agenda[t][1][1] = "hash"
      BY <1>4, <2>3, DoingHead DEF RInv, Hashcode
    <3>2. Head(agenda'[t]) = <<"open", agenda[t][1][2]>>
      BY <3>1, <1>4, <2>3, Written
    <3>3. Head(agenda'[t])[1] = "open"
      BY <3>2
    <3> QED BY <3>3, PutOKElse
  <2> QED BY <1>6, <2>1, <2>2, <2>3
<1>8. PutsInv'
  BY <1>1, <1>5, <1>7, OthersPut DEF RInv, GoesTo
<1> QED BY <1>1, <1>3, <1>8

(* A call begins.                                                           *)
LEMMA RegistryStepCall ==
    ASSUME RInv, NEW t \in Tasks, Call(t)
    PROVE  RegistryInv' /\ PutsInv' /\ UNCHANGED <<registry, cluster>>
<1>1. UNCHANGED <<registry, cluster, info, found>>
  BY CallBegins DEF shared, nodes
<1>2. PICK s : Begun(s) /\ Goes(t, "run", s)
  BY CallBegins
<1>3. GoesTo(t, "run", s)
  BY <1>2, GoesThere DEF RInv
<1>4. PutOK(t)'
  BY <1>2, <1>3, PutOKElse DEF GoesTo, Begun
<1>5. DOMAIN found = Tasks
  BY DEF RInv, RegistryInv
<1>6. RegistryInv'
  BY <1>1, <1>5, StillFrame DEF RInv
<1>7. PutsInv'
  BY <1>1, <1>3, <1>4, OthersPut DEF RInv, GoesTo
<1> QED BY <1>1, <1>6, <1>7

(* A call ends.                                                             *)
LEMMA RegistryStepEnds ==
    ASSUME RInv, NEW t \in Tasks, Ends(t), UNCHANGED <<registry, cluster>>
    PROVE  RegistryInv' /\ PutsInv'
<1>1. GoesTo(t, "idle", <<>>)
  BY Ended DEF RInv
<1>2. RegistryInv' /\ \A u \in Tasks : u # t => found'[u] = found[u]
  BY EndsFrame DEF RInv
<1>3. PutOK(t)'
  BY <1>1, PutOKElse DEF GoesTo
<1>4. PutsInv'
  BY <1>1, <1>2, <1>3, OthersPut DEF RInv, GoesTo
<1> QED BY <1>2, <1>4

(* An object is read.                                                       *)
LEMMA RegistryStepRead ==
    ASSUME RInv, NEW t \in Tasks, GetDataclass(t) \/ LearnStyle(t)
    PROVE  RegistryInv' /\ PutsInv' /\ UNCHANGED <<registry, cluster>>
<1>1. UNCHANGED <<registry, cluster>>
  BY DEF GetDataclass, LearnStyle, shared, nodes
<1>2. CASE Ends(t)
  BY <1>1, <1>2, RegistryStepEnds
<1>3. CASE Continues(t, <<>>) /\ UNCHANGED <<found, info>>
  <2>1. agenda[t] # <<>> /\ at[t] = "run" /\ Head(agenda[t])[1] \in {"dataclass", "style"}
    BY DoingHead DEF RInv, GetDataclass, LearnStyle
  <2>2. GoesTo(t, "run", Tail(agenda[t]))
    BY <2>1, <1>3, GoneOn DEF RInv
  <2>3. PutOK(t)'
    BY <2>1, <2>2, PutOKPopped DEF RInv
  <2>4. DOMAIN found = Tasks
    BY DEF RInv, RegistryInv
  <2>5. RegistryInv'
    BY <1>1, <1>3, <2>4, StillFrame DEF RInv
  <2>6. PutsInv'
    BY <1>1, <1>3, <2>2, <2>3, OthersPut DEF RInv, GoesTo
  <2> QED BY <1>1, <2>5, <2>6
<1>4. Ends(t) \/ (Continues(t, <<>>) /\ UNCHANGED <<found, info>>)
  BY DEF GetDataclass, LearnStyle
<1> QED BY <1>1, <1>2, <1>3, <1>4

(* The cluster answers with the keys it has.                                *)
LEMMA RegistryStepAnswers ==
    ASSUME RInv, NEW t \in Tasks, NodeAnswers(t)
    PROVE  RegistryInv' /\ PutsInv' /\ UNCHANGED <<registry, cluster>>
<1>1. /\ UNCHANGED <<registry, cluster, found>>
      /\ info' = [info EXCEPT ![t] = {k \in cluster : k[1] = Head(agenda[t])[2]}]
  BY DEF NodeAnswers, shared, nodes
<1>2. DOMAIN found = Tasks /\ DOMAIN info = Tasks /\ \A u \in Tasks : info[u] \subseteq cluster
  BY DEF RInv, RegistryInv
<1>3. DOMAIN info' = Tasks /\ \A u \in Tasks : info'[u] \subseteq cluster
  BY <1>1, <1>2
<1>4. RegistryInv'
  BY <1>1, <1>2, <1>3, RegistryFrame DEF RInv
<1>5. at[t] = "ask" /\ GoesTo(t, "asked", agenda[t])
  BY NodeAnswersStep DEF RInv
<1>6. agenda[t] # <<>> /\ Head(agenda[t])[1] = "query"
  BY <1>5, WaitingHead DEF RInv
<1>7. PutOK(t)'
  BY <1>5, <1>6, PutOKElse DEF GoesTo
<1> QED BY <1>1, <1>4, <1>5, <1>7, OthersPut DEF RInv, GoesTo

(* The cluster learns the class of a put.                                   *)
LEMMA RegistryStepNodePuts ==
    ASSUME RInv, NEW t \in Tasks, NodePuts(t)
    PROVE  RegistryInv' /\ PutsInv' /\ registry' = registry /\ cluster \subseteq cluster'
<1> DEFINE class == Head(agenda[t])[2]
<1>1. UNCHANGED <<registry, info, found>> /\ cluster' = cluster \cup {Key(class)}
  BY DEF NodePuts, shared
<1>2. at[t] = "put" /\ GoesTo(t, "done", agenda[t])
  BY NodePutsStep DEF RInv
<1>3. agenda[t] # <<>> /\ Head(agenda[t])[1] = "put"
  BY <1>2, WaitingHead DEF RInv
<1>4. Key(Key(class)) = Key(class)
  BY DEF Key
<1>5. RegistryInv'
  <2>1. DOMAIN found = Tasks /\ DOMAIN info = Tasks /\ \A u \in Tasks : info[u] \subseteq cluster
    BY DEF RInv, RegistryInv
  <2>2. cluster \subseteq cluster' /\ \A k \in cluster' : k \in cluster \/ k = Key(k)
    BY <1>1, <1>4
  <2> QED BY <1>1, <2>1, <2>2, RegistryFrame DEF RInv
<1>6. PutOK(t)'
  BY <1>1, <1>2, <1>3 DEF GoesTo, PutOK, Known
<1> QED BY <1>1, <1>2, <1>5, <1>6, OthersPut DEF RInv, GoesTo

(* Every step keeps the invariant, and the cluster forgets nothing.         *)
LEMMA RegistryStep ==
    ASSUME RInv, [Next]_vars
    PROVE  RInv' /\ cluster \subseteq cluster'
<1>1. TasksInv'
  BY TasksStep DEF RInv
<1>2. ASSUME NEW t \in Tasks, Call(t) \/ Runs(t) \/ Resumes(t) \/ NodeAnswers(t) \/ NodePuts(t)
      PROVE  RegistryInv' /\ PutsInv' /\ cluster \subseteq cluster'
  <2>1. CASE Call(t)
    BY <2>1, RegistryStepCall
  <2>2. CASE Runs(t)
    <3>1. CASE Return(t)
      BY <3>1, RegistryStepEnds DEF Return, shared, nodes
    <3> QED BY <2>2, <3>1, RegistryStepQuery, RegistryStepPut, RegistryStepAssign, RegistryStepWrite,
               RegistryStepRead DEF Runs
  <2>3. CASE Resumes(t)
    <3>1. CASE RequestFails(t)
      BY <3>1, RegistryStepEnds DEF RequestFails, nodes
    <3> QED BY <2>3, <3>1, RegistryStepQuery, RegistryStepSynchronise, RegistryStepPut DEF Resumes
  <2>4. CASE NodeAnswers(t) \/ NodePuts(t)
    BY <2>4, RegistryStepAnswers, RegistryStepNodePuts
  <2> QED BY <1>2, <2>1, <2>2, <2>3, <2>4
<1>3. ASSUME UNCHANGED <<registry, at, agenda, found, info>>, cluster \subseteq cluster',
             \A k \in cluster' : k \in cluster \/ k = Key(k)
      PROVE  RegistryInv' /\ PutsInv'
  <2>1. DOMAIN found = Tasks /\ DOMAIN info = Tasks /\ \A u \in Tasks : info[u] \subseteq cluster
    BY DEF RInv, RegistryInv
  <2>2. RegistryInv'
    BY <1>3, <2>1, RegistryFrame DEF RInv
  <2>3. PutsInv'
    BY <1>3, PutOKStays DEF RInv, PutsInv
  <2> QED BY <2>2, <2>3
<1>4. ASSUME NEW o \in Objects, SetAttr(o)
      PROVE  RegistryInv' /\ PutsInv' /\ cluster' = cluster
  BY <1>3, <1>4 DEF SetAttr, shared, nodes
<1>5. ASSUME NEW key \in Foreign, OtherProgram(key)
      PROVE  RegistryInv' /\ PutsInv' /\ cluster \subseteq cluster'
  <2>1. key = Key(key)
    BY ForeignAssumption
  <2> QED BY <1>3, <1>5, <2>1 DEF OtherProgram, shared, local
<1>6. CASE UNCHANGED vars
  BY <1>1, <1>3, <1>6 DEF vars, shared, nodes, local, RInv
<1> QED BY <1>1, <1>2, <1>4, <1>5, <1>6 DEF Next, RInv

(* At first the registry is empty.                                          *)
LEMMA RegistryInit == Init => RInv
<1> SUFFICES ASSUME Init PROVE RInv
  OBVIOUS
<1>1. DOMAIN registry = {} /\ cluster = {} /\ found = [t \in Tasks |-> {}] /\ info = [t \in Tasks |-> {}]
      /\ agenda = [t \in Tasks |-> <<>>]
  BY DEF Init
<1>2. RegistryInv
  BY <1>1 DEF RegistryInv
<1>3. PutsInv
  BY <1>1 DEF PutsInv, PutOK
<1> QED BY <1>2, <1>3, TasksInit DEF RInv

(* The invariant holds in every state.                                      *)
LEMMA RegistryInvariance == Spec => []RInv
<1>1. RInv /\ [Next]_vars => RInv'
  BY RegistryStep
<1> QED BY <1>1, RegistryInit, PTL DEF Spec

(* No class is dropped, a class gives way only to one that is registered or *)
(* written here, and a task that goes to ask the cluster has found nothing  *)
(* (_sync_binary_registry, query_binary_type, register_binary_type).        *)
THEOREM ClassesAreKept == Spec => RegistryIsKept
<1> DEFINE Kept == \A k \in DOMAIN registry :
                     /\ k \in DOMAIN registry'
                     /\ registry'[k] # registry[k] => registry'[k] \in Own /\ Key(registry'[k]) = k
           Asks == \A t \in Tasks : at'[t] = "ask" /\ at[t] # "ask" =>
                     LET q == Head(agenda[t]) IN GetFromRegistry(registry, q[2], q[3]) = {}
<1>1. ASSUME RInv, [Next]_vars
      PROVE  Kept
  <2>1. ASSUME registry' = registry
        PROVE  Kept
    BY <2>1
  <2>2. ASSUME NEW t \in Tasks, Assign(t)
        PROVE  Kept
    <3> DEFINE class == Head(agenda[t])[2]
    <3>1. /\ class \in Own
          /\ DOMAIN registry' = DOMAIN registry \cup {Key(class)}
          /\ \A k \in DOMAIN registry' : registry'[k] = IF k = Key(class) THEN class ELSE registry[k]
      BY <1>1, <2>2, RegistryStepAssign
    <3> HIDE DEF class
    <3> QED BY <3>1
  <2>3. ASSUME NEW t \in Tasks, Synchronise(t)
        PROVE  Kept
    BY <1>1, <2>3, RegistryStepSynchronise
  <2>4. ASSUME NEW t \in Tasks, Call(t) \/ NodeAnswers(t) \/ NodePuts(t)
        PROVE  Kept
    BY <1>1, <2>1, <2>4, RegistryStepCall, RegistryStepAnswers, RegistryStepNodePuts
  <2>5. ASSUME NEW t \in Tasks, Runs(t)
        PROVE  Kept
    <3>1. Assign(t) \/ registry' = registry
      BY <2>5 DEF Runs, Query, PutBinaryType, Enter, Open, WriteFooter, Hashcode, Send, GetDataclass,
                  LearnStyle, Return, shared
    <3> QED BY <2>1, <2>2, <3>1
  <2>6. ASSUME NEW t \in Tasks, Resumes(t)
        PROVE  Kept
    <3>1. Synchronise(t) \/ registry' = registry
      BY <2>6 DEF Resumes, Acquire, PutReturns, RequestFails, shared
    <3> QED BY <2>1, <2>3, <3>1
  <2>7. ASSUME (\E o \in Objects : SetAttr(o)) \/ (\E key \in Foreign : OtherProgram(key)) \/ UNCHANGED vars
        PROVE  Kept
    <3>1. registry' = registry
      BY <2>7 DEF SetAttr, OtherProgram, vars, shared
    <3> QED BY <2>1, <3>1
  <2> HIDE DEF Kept
  <2> QED BY <1>1, <2>4, <2>5, <2>6, <2>7 DEF Next
<1>2. ASSUME RInv, [Next]_vars
      PROVE  Asks
  <2> SUFFICES ASSUME NEW t \in Tasks, at'[t] = "ask", at[t] # "ask"
               PROVE  GetFromRegistry(registry, Head(agenda[t])[2], Head(agenda[t])[3]) = {}
    OBVIOUS
  <2>1. ASSUME NEW u \in Tasks, NEW where, NEW s, GoesTo(u, where, s), where # "ask"
        PROVE  FALSE
    BY <2>1 DEF GoesTo
  <2>2. ASSUME UNCHANGED at
        PROVE  FALSE
    BY <2>2
  <2>3. ASSUME NEW u \in Tasks, Query(u) \/ Acquire(u)
        PROVE  u = t /\ GetFromRegistry(registry, Head(agenda[u])[2], Head(agenda[u])[3]) = {}
    <3>1. PICK where, s :
             where \in {"run", "wait", "ask"} /\ GoesTo(u, where, s)
             /\ (where = "ask" => GetFromRegistry(registry, Head(agenda[u])[2], Head(agenda[u])[3]) = {})
      BY <1>2, <2>3, QueryStep, AcquireStep DEF RInv
    <3>2. where = "ask"
      BY <2>1, <3>1
    <3>3. u = t
      BY <3>1 DEF GoesTo
    <3> QED BY <3>1, <3>2, <3>3
  <2>4. ASSUME NEW u \in Tasks, Call(u)
        PROVE  FALSE
    <3>1. PICK s : Goes(u, "run", s)
      BY <2>4, CallBegins
    <3> QED BY <1>2, <2>1, <3>1, GoesThere DEF RInv
  <2>5. ASSUME NEW u \in Tasks, Runs(u)
        PROVE  Query(u)
    <3>1. CASE Return(u)
      BY <1>2, <2>1, <3>1, Ended DEF Return, RInv
    <3> QED BY <1>2, <2>1, <2>5, <3>1, PutStep, OneStep, EnterStep, HashStep, ReadStep DEF Runs, RInv
  <2>6. ASSUME NEW u \in Tasks, Resumes(u)
        PROVE  Acquire(u)
    <3>1. CASE RequestFails(u)
      BY <1>2, <2>1, <3>1, Ended DEF RequestFails, RInv
    <3> QED BY <1>2, <2>1, <2>6, <3>1, SynchroniseStep, PutReturnsStep DEF Resumes, RInv
  <2>7. ASSUME NEW u \in Tasks, NodeAnswers(u) \/ NodePuts(u)
        PROVE  FALSE
    BY <1>2, <2>1, <2>7, NodeAnswersStep, NodePutsStep DEF RInv
  <2>8. ~((\E o \in Objects : SetAttr(o)) \/ (\E key \in Foreign : OtherProgram(key)) \/ UNCHANGED vars)
    BY <2>2 DEF SetAttr, OtherProgram, vars, local
  <2> QED BY <1>2, <2>3, <2>4, <2>5, <2>6, <2>7, <2>8 DEF Next
<1>3. RInv /\ [Next]_vars => Kept /\ Asks
  BY <1>1, <1>2
<1>4. RInv /\ [Next]_vars => [Kept /\ Asks]_vars
  BY <1>3
<1> QED BY <1>4, RegistryInvariance, PTL DEF Spec, RegistryIsKept

-----------------------------------------------------------------------------
(* The bytes                                                                *)

(* The shape of what is written of an object.                               *)
IsBytes(b) ==
  b = [class |-> b.class, plain |-> b.plain, inner |-> b.inner, header |-> b.header, footer |-> b.footer,
       hashed |-> b.hashed, open |-> b.open, disturbed |-> b.disturbed]

(* The class of an inner object is known, unless that was written for a     *)
(* hash code.                                                               *)
InnerKnown(b) == \A i \in DOMAIN b.inner : b.inner[i].hashed \/ Known(b.inner[i].class)

(* Bytes that are being written have their footer to come and show the      *)
(* object as it is; others are of a known class, or were hashed.            *)
OutOK(t, o) ==
  out[t][o] # <<>> =>
    LET b == out[t][o][1] IN
    /\ out[t][o] = <<b>> /\ IsBytes(b) /\ b.class = ClassOf[o] /\ InnerKnown(b)
    /\ b.open => /\ \E x \in Pending(agenda[t]) : x[1] = "footer" /\ x[2] = o
                 /\ b.disturbed \/ (b.plain = object[o].plain /\ b.header = CompactFooter)
    /\ ~b.open => b.hashed \/ Known(b.class)

(* The header of an object is written and its footer is not.                *)
IsOpen(t, o) == out[t][o] # <<>> /\ out[t][o][1].open

(* Before a footer comes the header, or it is written, for the hash code or *)
(* of a known class.                                                        *)
FooterOK(t) ==
  \A x \in Pending(agenda[t]) : x[1] = "footer" =>
    \/ <<"open", x[2]>> \in Pending(agenda[t])
    \/ IsOpen(t, x[2]) /\ (x[3] \/ Known(ClassOf[x[2]]))

(* What is opened next is of a known class or is hashed, and what is sent   *)
(* next is written and shows the object as it is.                           *)
SendOK(t) ==
  agenda[t] # <<>> =>
    LET s == Head(agenda[t]) IN
    /\ s[1] = "open" => Known(ClassOf[s[2]]) \/ <<"footer", s[2], TRUE>> \in Pending(agenda[t])
    /\ s[1] = "send" => out[t][s[2]] # <<>> /\ ~out[t][s[2]][1].open /\ Current(s[2], out[t][s[2]][1])

(* The bytes an object keeps, and those its hash code was computed from,    *)
(* are its own.                                                             *)
KeptOK(o) ==
  /\ object[o] = [plain |-> object[o].plain, buffer |-> object[o].buffer, hash |-> object[o].hash]
  /\ object[o].hash # <<>> => Current(o, object[o].hash[1])
  /\ object[o].buffer # <<>> =>
       LET b == object[o].buffer[1] IN
       /\ object[o].buffer = <<b>> /\ IsBytes(b) /\ b.class = ClassOf[o] /\ ~b.open /\ b.hashed
       /\ InnerKnown(b) /\ Current(o, b)

(* The tasks and objects that there are.                                    *)
Shapes == DOMAIN out = Tasks /\ DOMAIN object = Objects /\ \A t \in Tasks : DOMAIN out[t] = Objects

(* The invariant of the bytes.                                              *)
BytesInv ==
  /\ Shapes
  /\ \A t \in Tasks, o \in Objects : OutOK(t, o)
  /\ \A t \in Tasks : FooterOK(t) /\ SendOK(t)
  /\ \A o \in Objects : KeptOK(o)

-----------------------------------------------------------------------------

(* The cluster forgets no class of an inner object.                         *)
LEMMA InnerKnownStays ==
    ASSUME cluster \subseteq cluster', NEW b, InnerKnown(b)
    PROVE  InnerKnown(b)'
<1>1. \A class : Known(class) => Known(class)'
  BY KnownStays
<1> QED BY <1>1 DEF InnerKnown

(* Bytes that are marked stay what they are otherwise.                      *)
LEMMA Marked ==
    ASSUME NEW b, IsBytes(b), NEW d
    PROVE  LET c == [b EXCEPT !.disturbed = d] IN
           /\ IsBytes(c)
           /\ c.class = b.class /\ c.plain = b.plain /\ c.inner = b.inner /\ c.header = b.header
           /\ c.footer = b.footer /\ c.hashed = b.hashed /\ c.open = b.open /\ c.disturbed = d
<1>1. PICK c1, c2, c3, c4, c5, c6, c7, c8 :
         b = [class |-> c1, plain |-> c2, inner |-> c3, header |-> c4, footer |-> c5,
              hashed |-> c6, open |-> c7, disturbed |-> c8]
  BY DEF IsBytes
<1>2. [b EXCEPT !.disturbed = d] =
         [class |-> c1, plain |-> c2, inner |-> c3, header |-> c4, footer |-> c5,
          hashed |-> c6, open |-> c7, disturbed |-> d]
  BY <1>1
<1> QED BY <1>1, <1>2 DEF IsBytes

(* Bytes that get their footer.                                             *)
WithFooter(b, i, f, h, p) == [b EXCEPT !.inner = i, !.footer = f, !.hashed = h, !.open = p]

(* Bytes with their footer.                                                 *)
LEMMA Footered ==
    ASSUME NEW b, IsBytes(b), NEW i, NEW f, NEW h, NEW p,
           NEW c, c = WithFooter(b, i, f, h, p)
    PROVE  /\ IsBytes(c)
           /\ c.class = b.class /\ c.plain = b.plain /\ c.inner = i /\ c.header = b.header
           /\ c.footer = f /\ c.hashed = h /\ c.open = p /\ c.disturbed = b.disturbed
<1> DEFINE Fields == {"class", "plain", "inner", "header", "footer", "hashed", "open", "disturbed"}
<1>1. PICK c1, c2, c3, c4, c5, c6, c7, c8 :
         b = [class |-> c1, plain |-> c2, inner |-> c3, header |-> c4, footer |-> c5,
              hashed |-> c6, open |-> c7, disturbed |-> c8]
  BY DEF IsBytes
<1>2. /\ c.class = c1 /\ c.plain = c2 /\ c.inner = i /\ c.header = c4
      /\ c.footer = f /\ c.hashed = h /\ c.open = p /\ c.disturbed = c8
      /\ DOMAIN c = Fields
  BY <1>1 DEF WithFooter
<1>3. c = [x \in Fields |-> c[x]]
  BY <1>2 DEF WithFooter
<1>4. c = [class |-> c1, plain |-> c2, inner |-> i, header |-> c4, footer |-> f,
           hashed |-> h, open |-> p, disturbed |-> c8]
  BY <1>2, <1>3
<1>5. b.class = c1 /\ b.plain = c2 /\ b.header = c4 /\ b.disturbed = c8
  BY <1>1
<1> QED BY <1>2, <1>4, <1>5 DEF IsBytes

(* Bytes that a step leaves alone, while the footer to come stays.          *)
LEMMA OutStays ==
    ASSUME cluster \subseteq cluster', NEW t \in Tasks, NEW o \in Objects, OutOK(t, o),
           \A x \in Pending(agenda[t]) : x[1] = "footer" /\ x[2] = o => x \in Pending(agenda'[t]),
           out'[t][o] = out[t][o],
           IsOpen(t, o) => object'[o].plain = object[o].plain /\ CompactFooter' = CompactFooter
    PROVE  OutOK(t, o)'
<1> SUFFICES ASSUME out'[t][o] # <<>> PROVE OutOK(t, o)'
  BY DEF OutOK
<1> DEFINE b == out[t][o][1]
<1>1. /\ out[t][o] = <<b>> /\ IsBytes(b) /\ b.class = ClassOf[o] /\ InnerKnown(b)
      /\ b.open => /\ \E x \in Pending(agenda[t]) : x[1] = "footer" /\ x[2] = o
                   /\ b.disturbed \/ (b.plain = object[o].plain /\ b.header = CompactFooter)
      /\ ~b.open => b.hashed \/ Known(b.class)
  BY DEF OutOK
<1>2. out'[t][o][1] = b
  OBVIOUS
<1>3. b.open => IsOpen(t, o)
  BY DEF IsOpen
<1> HIDE DEF b
<1>4. PICK c : c = b
  OBVIOUS
<1>5. InnerKnown(c)' /\ (Known(c.class) => Known(c.class)')
  BY <1>1, <1>4, InnerKnownStays, KnownStays
<1>6. \A i \in DOMAIN c.inner : c.inner[i].hashed \/ Known(c.inner[i].class)'
  BY <1>5 DEF InnerKnown
<1> QED BY <1>1, <1>2, <1>3, <1>4, <1>5, <1>6 DEF OutOK, InnerKnown, IsBytes

(* Bytes that are being written while their object changes are marked.      *)
LEMMA OutMarked ==
    ASSUME cluster \subseteq cluster', NEW t \in Tasks, NEW o \in Objects, OutOK(t, o), IsOpen(t, o),
           \A x \in Pending(agenda[t]) : x[1] = "footer" /\ x[2] = o => x \in Pending(agenda'[t]),
           out'[t][o] = <<[out[t][o][1] EXCEPT !.disturbed = TRUE]>>
    PROVE  OutOK(t, o)' /\ IsOpen(t, o)'
<1> DEFINE b == out[t][o][1]
           c == [b EXCEPT !.disturbed = TRUE]
<1>1. /\ IsBytes(b) /\ b.class = ClassOf[o] /\ InnerKnown(b)
      /\ b.open /\ \E x \in Pending(agenda[t]) : x[1] = "footer" /\ x[2] = o
  BY DEF OutOK, IsOpen
<1>2. out'[t][o] = <<c>>
  OBVIOUS
<1> HIDE DEF b
<1>3. IsBytes(c) /\ c.class = b.class /\ c.inner = b.inner /\ c.open = b.open /\ c.disturbed
  BY <1>1, Marked
<1> HIDE DEF c
<1>4. PICK d : d = b
  OBVIOUS
<1>5. InnerKnown(d)'
  BY <1>1, <1>4, InnerKnownStays
<1>6. \A i \in DOMAIN d.inner : d.inner[i].hashed \/ Known(d.inner[i].class)'
  BY <1>5 DEF InnerKnown
<1>7. out'[t][o] # <<>> /\ out'[t][o][1] = c
  BY <1>2
<1> QED BY <1>1, <1>2, <1>3, <1>4, <1>6, <1>7 DEF OutOK, InnerKnown, IsBytes, IsOpen

(* What the agenda of a task becomes when nothing is written of it.         *)
Moved(t) ==
  LET s == agenda[t]
      r == agenda'[t]
  IN /\ \A x \in Pending(s) : x[1] = "footer" => x \in Pending(r)
     /\ \A x \in Pending(r) : x[1] = "footer" =>
           \/ <<"open", x[2]>> \in Pending(r)
           \/ x \in Pending(s) /\ <<"open", x[2]>> \notin Pending(s)
     /\ r # <<>> =>
           /\ Head(r)[1] # "send"
           /\ Head(r)[1] = "open" =>
                 Known(ClassOf[Head(r)[2]]) \/ <<"footer", Head(r)[2], TRUE>> \in Pending(r)

(* A task whose agenda moves on without a footer being written.             *)
LEMMA FooterMoved ==
    ASSUME cluster \subseteq cluster', NEW t \in Tasks, FooterOK(t), Moved(t),
           \A x \in Pending(agenda'[t]) : x[1] = "footer" => x[2] \in Objects,
           \A o \in Objects : IsOpen(t, o) => IsOpen(t, o)'
    PROVE  FooterOK(t)'
<1>1. ASSUME NEW x \in Pending(agenda'[t]), x[1] = "footer", <<"open", x[2]>> \notin Pending(agenda'[t])
      PROVE  IsOpen(t, x[2])' /\ (x[3] \/ Known(ClassOf[x[2]]))
  <2>1. x \in Pending(agenda[t]) /\ <<"open", x[2]>> \notin Pending(agenda[t])
    BY <1>1 DEF Moved
  <2>2. IsOpen(t, x[2]) /\ (x[3] \/ Known(ClassOf[x[2]]))
    BY <1>1, <2>1 DEF FooterOK
  <2> QED BY <1>1, <2>2
<1>2. \A class : Known(class) => Known(class)'
  BY KnownStays
<1>3. PICK r : r = agenda'[t]
  OBVIOUS
<1>4. \A x \in Pending(r) : x[1] = "footer" /\ <<"open", x[2]>> \notin Pending(r) =>
        IsOpen(t, x[2])' /\ (x[3] \/ Known(ClassOf[x[2]])')
  BY <1>1, <1>2, <1>3
<1> QED BY <1>3, <1>4 DEF FooterOK, Pending

(* What the next step of such a task finds.                                 *)
LEMMA SendMoved ==
    ASSUME cluster \subseteq cluster', NEW t \in Tasks, Moved(t)
    PROVE  SendOK(t)'
<1>1. \A class : Known(class) => Known(class)'
  BY KnownStays
<1>2. PICK r : r = agenda'[t]
  OBVIOUS
<1>3. r # <<>> =>
        /\ Head(r)[1] # "send"
        /\ Head(r)[1] = "open" =>
              Known(ClassOf[Head(r)[2]])' \/ <<"footer", Head(r)[2], TRUE>> \in Pending(r)
  BY <1>1, <1>2 DEF Moved
<1> QED BY <1>2, <1>3 DEF SendOK, Pending

(* A task that does nothing.                                                *)
LEMMA SendStays ==
    ASSUME TasksInv, cluster \subseteq cluster', NEW t \in Tasks, SendOK(t), agenda'[t] = agenda[t],
           at[t] # "run" \/ UNCHANGED <<out, object>>
    PROVE  SendOK(t)'
<1>1. \A class : Known(class) => Known(class)'
  BY KnownStays
<1>2. CASE at[t] # "run"
  <2>1. agenda[t] # <<>> => Head(agenda[t])[1] \in {"query", "put"}
    BY <1>2 DEF TasksInv, PlaceOK
  <2> QED BY <2>1 DEF SendOK
<1>3. CASE UNCHANGED <<out, object>>
  BY <1>1, <1>3 DEF SendOK, Pending, Current
<1> QED BY <1>2, <1>3

(* A task that does nothing has the same footers to come.                   *)
LEMMA FooterStays ==
    ASSUME cluster \subseteq cluster', NEW t \in Tasks, FooterOK(t), agenda'[t] = agenda[t], Valid(agenda[t]),
           \A o \in Objects : IsOpen(t, o) => IsOpen(t, o)'
    PROVE  FooterOK(t)'
<1>1. \A x \in Pending(agenda[t]) : x[1] = "footer" => x[2] \in Objects
  BY DEF Pending, Valid, StepOK
<1>2. \A class : Known(class) => Known(class)'
  BY KnownStays
<1> QED BY <1>1, <1>2 DEF FooterOK, Pending

(* An object that does not change.                                          *)
LEMMA KeptStays ==
    ASSUME cluster \subseteq cluster', NEW o \in Objects, KeptOK(o), object'[o] = object[o]
    PROVE  KeptOK(o)'
<1>1. PICK c : c = object[o].buffer[1]
  OBVIOUS
<1>2. InnerKnown(c) => InnerKnown(c)'
  BY InnerKnownStays
<1> QED BY <1>1, <1>2 DEF KeptOK, InnerKnown, IsBytes, Current

-----------------------------------------------------------------------------
(* Agendas that move on                                                     *)

(* A step that is neither written nor opens anything.                       *)
LEMMA MovedPop ==
    ASSUME TasksInv, NEW t \in Tasks, agenda[t] # <<>>, agenda'[t] = Tail(agenda[t]),
           Head(agenda[t])[1] \notin {"open", "footer", "enter"},
           Head(agenda[t])[1] = "assign" => Known(Head(agenda[t])[2])
    PROVE  Moved(t)
<1>1. PICK s : s = agenda[t]
  OBVIOUS
<1>2. PICK r : r = Tail(s)
  OBVIOUS
<1>3. Valid(s) /\ s # <<>>
  BY <1>1 DEF TasksInv
<1>4. /\ Head(s) = s[1]
      /\ Pending(s) = {s[1]} \cup Pending(r)
      /\ r # <<>> => Follows(s[1], Head(r))
  BY <1>2, <1>3, Popped
<1>5. s[1][1] \notin {"open", "footer", "enter"} /\ (s[1][1] = "assign" => Known(s[1][2]))
  BY <1>1, <1>4
<1>6. \A x \in Pending(s) : x[1] = "footer" => x \in Pending(r)
  BY <1>4, <1>5
<1>7. \A y : <<"open", y>> \in Pending(s) => <<"open", y>> \in Pending(r)
  <2>1. \A y : <<"open", y>>[1] = "open"
    OBVIOUS
  <2> QED BY <2>1, <1>4, <1>5
<1>8. ASSUME r # <<>>, Head(r)[1] = "send"
      PROVE  FALSE
  <2>1. s[1] = <<"enter", Head(r)[2]>> \/ s[1] = <<"footer", Head(r)[2], FALSE>>
    BY <1>4, <1>8 DEF Follows
  <2>2. CASE s[1] = <<"enter", Head(r)[2]>>
    <3>1. s[1][1] = "enter"
      BY <2>2
    <3> QED BY <3>1, <1>5
  <2>3. CASE s[1] = <<"footer", Head(r)[2], FALSE>>
    <3>1. s[1][1] = "footer"
      BY <2>3
    <3> QED BY <3>1, <1>5
  <2> QED BY <2>1, <2>2, <2>3
<1>9. ASSUME r # <<>>, Head(r)[1] = "open"
      PROVE  Known(ClassOf[Head(r)[2]])
  <2>1. s[1] = <<"assign", ClassOf[Head(r)[2]]>>
    BY <1>4, <1>9 DEF Follows
  <2>2. s[1][1] = "assign" /\ s[1][2] = ClassOf[Head(r)[2]]
    BY <2>1
  <2> QED BY <2>2, <1>5
<1>10. agenda[t] = s /\ agenda'[t] = r
  BY <1>1, <1>2
<1>11. \A x \in Pending(r) : x \in Pending(s)
  BY <1>4
<1> QED BY <1>6, <1>7, <1>8, <1>9, <1>10, <1>11 DEF Moved

(* A task that is suspended.                                                *)
LEMMA MovedStay ==
    ASSUME NEW t \in Tasks, agenda[t] # <<>>, agenda'[t] = agenda[t], Head(agenda[t])[1] \in {"query", "put"}
    PROVE  Moved(t)
BY DEF Moved

(* A call begins.                                                           *)
LEMMA MovedBegun ==
    ASSUME NEW t \in Tasks, agenda[t] = <<>>, Begun(agenda'[t])
    PROVE  Moved(t)
<1>1. Pending(<<>>) = {}
  <2>1. Len(<<>>) = 0
    BY EmptySeq
  <2> QED BY <2>1 DEF Pending
<1> QED BY <1>1 DEF Moved, Begun

(* An object is to be written: its class is registered first.               *)
LEMMA MovedEntered ==
    ASSUME TasksInv, NEW t \in Tasks, agenda[t] # <<>>, Head(agenda[t])[1] = "enter",
           agenda'[t] = (Registers(ClassOf[Head(agenda[t])[2]]) \o Body(Head(agenda[t])[2], FALSE)) \o Tail(agenda[t])
    PROVE  Moved(t)
<1>1. PICK s : s = agenda[t]
  OBVIOUS
<1>2. PICK r : r = agenda'[t]
  OBVIOUS
<1>3. Valid(s) /\ s # <<>>
  BY <1>1 DEF TasksInv
<1>4. Head(s) = s[1] /\ Pending(s) = {s[1]} \cup Pending(Tail(s))
  BY <1>3, Popped
<1>5. s[1][1] = "enter"
  BY <1>1, <1>4
<1> DEFINE o == s[1][2]
<1>6. /\ r # <<>> /\ Head(r)[1] = "query"
      /\ <<"open", o>> \in Pending(r)
      /\ Pending(Tail(s)) \subseteq Pending(r)
      /\ \A x \in Pending(r) : x[1] = "footer" => x = <<"footer", o, FALSE>> \/ x \in Pending(Tail(s))
  <2>1. r = (Registers(ClassOf[o]) \o Body(o, FALSE)) \o Tail(s)
    BY <1>1, <1>2, <1>4
  <2> QED BY <2>1, <1>3, <1>5, Entered
<1>7. \A y : <<"open", y>> \in Pending(s) => <<"open", y>> \in Pending(r)
  <2>1. \A y : <<"open", y>>[1] = "open"
    OBVIOUS
  <2> QED BY <2>1, <1>4, <1>5, <1>6
<1>8. <<"footer", o, FALSE>>[2] = o
  OBVIOUS
<1> HIDE DEF o
<1>9. \A x \in Pending(s) : x[1] = "footer" => x \in Pending(r)
  BY <1>4, <1>5, <1>6
<1>10. \A x \in Pending(r) : x[1] = "footer" => <<"open", x[2]>> \in Pending(r)
                                              \/ (x \in Pending(s) /\ <<"open", x[2]>> \notin Pending(s))
  <2> SUFFICES ASSUME NEW x \in Pending(r), x[1] = "footer", <<"open", x[2]>> \notin Pending(r)
               PROVE  x \in Pending(s) /\ <<"open", x[2]>> \notin Pending(s)
    OBVIOUS
  <2>1. x # <<"footer", o, FALSE>>
    BY <1>6, <1>8
  <2> QED BY <2>1, <1>4, <1>6, <1>7
<1> QED BY <1>1, <1>2, <1>6, <1>9, <1>10 DEF Moved

(* An object is to be written for its hash code.                            *)
LEMMA MovedWritten ==
    ASSUME TasksInv, NEW t \in Tasks, agenda[t] # <<>>, Head(agenda[t])[1] = "hash",
           agenda'[t] = Body(Head(agenda[t])[2], TRUE) \o Tail(agenda[t])
    PROVE  Moved(t)
<1>1. PICK s : s = agenda[t]
  OBVIOUS
<1>2. PICK r : r = agenda'[t]
  OBVIOUS
<1>3. Valid(s) /\ s # <<>>
  BY <1>1 DEF TasksInv
<1>4. Head(s) = s[1] /\ Pending(s) = {s[1]} \cup Pending(Tail(s))
  BY <1>3, Popped
<1>5. s[1][1] = "hash"
  BY <1>1, <1>4
<1> DEFINE o == s[1][2]
<1>6. /\ r # <<>> /\ Head(r) = <<"open", o>>
      /\ <<"open", o>> \in Pending(r) /\ <<"footer", o, TRUE>> \in Pending(r)
      /\ Pending(Tail(s)) \subseteq Pending(r)
      /\ \A x \in Pending(r) : x[1] = "footer" => x = <<"footer", o, TRUE>> \/ x \in Pending(Tail(s))
  BY <1>1, <1>2, <1>3, <1>4, <1>5, Written
<1>7. \A y : <<"open", y>> \in Pending(s) => <<"open", y>> \in Pending(r)
  <2>1. \A y : <<"open", y>>[1] = "open"
    OBVIOUS
  <2> QED BY <2>1, <1>4, <1>5, <1>6
<1>8. <<"footer", o, TRUE>>[2] = o /\ Head(r)[1] = "open" /\ Head(r)[2] = o
  BY <1>6
<1> HIDE DEF o
<1>9. \A x \in Pending(s) : x[1] = "footer" => x \in Pending(r)
  BY <1>4, <1>5, <1>6
<1>10. \A x \in Pending(r) : x[1] = "footer" => <<"open", x[2]>> \in Pending(r)
                                              \/ (x \in Pending(s) /\ <<"open", x[2]>> \notin Pending(s))
  <2> SUFFICES ASSUME NEW x \in Pending(r), x[1] = "footer", <<"open", x[2]>> \notin Pending(r)
               PROVE  x \in Pending(s) /\ <<"open", x[2]>> \notin Pending(s)
    OBVIOUS
  <2>1. x # <<"footer", o, TRUE>>
    BY <1>6, <1>8
  <2> QED BY <2>1, <1>4, <1>6, <1>7
<1> QED BY <1>1, <1>2, <1>6, <1>8, <1>9, <1>10 DEF Moved

(* Steps that write nothing.                                                *)

(* Footers are of objects.                                                  *)
FootersIn(t) == \A x \in Pending(agenda[t]) : x[1] = "footer" => x[2] \in Objects

(* The footers to come are of objects.                                      *)
LEMMA FooterObjects ==
    ASSUME TasksInv
    PROVE  \A t \in Tasks : FootersIn(t)
BY DEF TasksInv, Valid, StepOK, Pending, FootersIn

(* And they still are after a step.                                         *)
LEMMA FooterObjectsNext ==
    ASSUME TasksInv'
    PROVE  \A t \in Tasks : \A x \in Pending(agenda'[t]) : x[1] = "footer" => x[2] \in Objects
<1>1. \A s : Valid(s) => \A x \in Pending(s) : x[1] = "footer" => x[2] \in Objects
  BY DEF Valid, StepOK, Pending
<1>2. \A t \in Tasks : Valid(agenda'[t])
  BY DEF TasksInv
<1> QED BY <1>1, <1>2

(* A step that writes nothing and changes no object.                        *)
LEMMA QuietStep ==
    ASSUME TasksInv, TasksInv', BytesInv, cluster \subseteq cluster', NEW t \in Tasks, Moved(t),
           \A u \in Tasks : u # t => agenda'[u] = agenda[u],
           UNCHANGED <<out, object>>, CompactFooter' = CompactFooter
    PROVE  BytesInv'
<1>1. Shapes'
  BY DEF BytesInv, Shapes
<1>2. ASSUME NEW u \in Tasks, NEW o \in Objects
      PROVE  OutOK(u, o)'
  <2>1. \A x \in Pending(agenda[u]) : x[1] = "footer" => x \in Pending(agenda'[u])
    BY DEF Moved
  <2> QED BY <2>1, OutStays DEF BytesInv
<1>3. ASSUME NEW u \in Tasks
      PROVE  FooterOK(u)' /\ SendOK(u)'
  <2>1. \A o \in Objects : IsOpen(u, o) => IsOpen(u, o)'
    BY DEF IsOpen
  <2>2. CASE u = t
    <3>1. FooterOK(t)'
      BY <2>1, <2>2, FooterMoved, FooterObjectsNext DEF BytesInv
    <3> QED BY <2>2, <3>1, SendMoved
  <2>3. CASE u # t
    <3>1. FooterOK(u)'
      BY <2>1, <2>3, FooterStays DEF BytesInv, TasksInv
    <3> QED BY <2>3, <3>1, SendStays DEF BytesInv
  <2> QED BY <2>2, <2>3
<1>4. ASSUME NEW o \in Objects
      PROVE  KeptOK(o)'
  BY KeptStays DEF BytesInv
<1> QED BY <1>1, <1>2, <1>3, <1>4 DEF BytesInv

(* A call ends, and what it wrote is gone.                                  *)
LEMMA EndsStep ==
    ASSUME TasksInv, TasksInv', BytesInv, cluster' = cluster, NEW t \in Tasks, Ends(t),
           \A u \in Tasks : u # t => at[u] # "run",
           object' = object, CompactFooter' = CompactFooter
    PROVE  BytesInv'
<1>1. GoesTo(t, "idle", <<>>)
  BY Ended
<1>2. /\ DOMAIN out = Tasks /\ \A u \in Tasks : DOMAIN out[u] = Objects
      /\ out' = [out EXCEPT ![t] = [o \in Objects |-> <<>>]]
  BY DEF BytesInv, Shapes, Ends
<1>3. /\ DOMAIN out' = Tasks /\ (\A u \in Tasks : DOMAIN out'[u] = Objects)
      /\ (\A o \in Objects : out'[t][o] = <<>>)
      /\ (\A u \in Tasks : u # t => out'[u] = out[u])
  BY <1>2
<1>4. Shapes'
  BY <1>3 DEF BytesInv, Shapes
<1>5. agenda'[t] = <<>> /\ Pending(<<>>) = {} /\ \A u \in Tasks : u # t => agenda'[u] = agenda[u]
  <2>1. Len(<<>>) = 0
    BY EmptySeq
  <2> QED BY <2>1, <1>1 DEF Pending, GoesTo
<1>6. ASSUME NEW u \in Tasks, NEW o \in Objects
      PROVE  OutOK(u, o)'
  <2>1. CASE u = t
    BY <1>3, <2>1 DEF OutOK
  <2>2. CASE u # t
    BY <1>3, <1>5, <2>2, OutStays DEF BytesInv
  <2> QED BY <2>1, <2>2
<1>7. ASSUME NEW u \in Tasks
      PROVE  FooterOK(u)' /\ SendOK(u)'
  <2>1. CASE u = t
    <3>1. PICK r : r = agenda'[t]
      OBVIOUS
    <3>2. r = <<>> /\ Pending(r) = {}
      BY <3>1, <1>5
    <3> QED BY <3>1, <3>2, <2>1 DEF FooterOK, SendOK, Pending
  <2>2. CASE u # t
    <3>1. \A o \in Objects : IsOpen(u, o) => IsOpen(u, o)'
      BY <1>3, <2>2 DEF IsOpen
    <3>2. FooterOK(u)'
      BY <3>1, <1>5, <2>2, FooterStays DEF BytesInv, TasksInv
    <3> QED BY <3>2, <1>5, <2>2, SendStays DEF BytesInv
  <2> QED BY <2>1, <2>2
<1>8. ASSUME NEW o \in Objects
      PROVE  KeptOK(o)'
  BY KeptStays DEF BytesInv
<1> QED BY <1>4, <1>6, <1>7, <1>8 DEF BytesInv

(* Bytes that are being written are marked.                                 *)
LEMMA MarkedStep ==
    ASSUME BytesInv, cluster \subseteq cluster', NEW these, Disturbed(these),
           \A u \in Tasks : \A x \in Pending(agenda[u]) : x[1] = "footer" => x \in Pending(agenda'[u]),
           \A o \in Objects : o \notin these =>
              object'[o].plain = object[o].plain /\ CompactFooter' = CompactFooter
    PROVE  /\ DOMAIN out' = Tasks /\ \A u \in Tasks : DOMAIN out'[u] = Objects
           /\ \A u \in Tasks, o \in Objects : OutOK(u, o)' /\ (IsOpen(u, o) => IsOpen(u, o)')
<1>1. DOMAIN out' = Tasks /\ \A u \in Tasks : DOMAIN out'[u] = Objects
  BY DEF Disturbed
<1>2. ASSUME NEW u \in Tasks, NEW o \in Objects
      PROVE  OutOK(u, o)' /\ (IsOpen(u, o) => IsOpen(u, o)')
  <2>1. OutOK(u, o)
    BY DEF BytesInv
  <2>2. out'[u][o] = IF o \in these /\ out[u][o] # <<>> /\ out[u][o][1].open
                     THEN <<[out[u][o][1] EXCEPT !.disturbed = TRUE]>> ELSE out[u][o]
    BY DEF Disturbed
  <2>3. CASE o \in these /\ IsOpen(u, o)
    <3>1. out'[u][o] = <<[out[u][o][1] EXCEPT !.disturbed = TRUE]>>
      BY <2>2, <2>3 DEF IsOpen
    <3> QED BY <2>1, <2>3, <3>1, OutMarked
  <2>4. CASE ~(o \in these /\ IsOpen(u, o))
    <3>1. out'[u][o] = out[u][o]
      BY <2>2, <2>4 DEF IsOpen
    <3>2. OutOK(u, o)'
      BY <2>1, <2>4, <3>1, OutStays
    <3> QED BY <3>1, <3>2 DEF IsOpen
  <2> QED BY <2>3, <2>4
<1> QED BY <1>1, <1>2

-----------------------------------------------------------------------------
(* Bytes: steps that write nothing                                          *)

(* The whole invariant.                                                     *)
BInv == RInv /\ BytesInv

(* The calls, and the steps of the registry, write nothing.                 *)
LEMMA BytesQuiet ==
    ASSUME BInv, RInv', cluster \subseteq cluster', NEW t \in Tasks,
           \/ Call(t) \/ Query(t) \/ Acquire(t) \/ NodeAnswers(t) \/ Synchronise(t) \/ PutBinaryType(t)
           \/ NodePuts(t) \/ PutReturns(t) \/ Assign(t) \/ Send(t) \/ Hashcode(t)
    PROVE  BytesInv'
<1>1. TasksInv /\ TasksInv' /\ BytesInv /\ RInv
  BY DEF BInv, RInv
<1>2. UNCHANGED <<out, object, style>>
  BY CallBegins DEF Query, Acquire, NodeAnswers, Synchronise, PutBinaryType, NodePuts, PutReturns, Assign,
                    Send, Hashcode, shared
<1>3. CompactFooter' = CompactFooter
  BY <1>2 DEF CompactFooter
<1>4. ASSUME NEW where, NEW s, GoesTo(t, where, s), Moved(t)
      PROVE  BytesInv'
  BY <1>1, <1>2, <1>3, <1>4, QuietStep DEF GoesTo
<1>5. CASE Call(t)
  <2>1. PICK s : Begun(s) /\ Goes(t, "run", s)
    BY <1>5, CallBegins
  <2>2. GoesTo(t, "run", s)
    BY <1>1, <2>1, GoesThere
  <2>3. agenda[t] = <<>>
    BY <1>1, <1>5, CallBegins DEF TasksInv, PlaceOK
  <2> QED BY <1>4, <2>1, <2>2, <2>3, MovedBegun DEF GoesTo
<1>6. CASE Query(t) \/ Acquire(t) \/ NodeAnswers(t) \/ Synchronise(t)
  <2>1. agenda[t] # <<>> /\ Head(agenda[t])[1] = "query"
    BY <1>1, <1>6, DoingHead, WaitingHead DEF Query, Acquire, NodeAnswers, Synchronise
  <2>2. \E where : GoesTo(t, where, agenda[t]) \/ GoesTo(t, where, Tail(agenda[t]))
    BY <1>1, <1>6, QueryStep, AcquireStep, NodeAnswersStep, SynchroniseStep
  <2>3. PICK where : GoesTo(t, where, agenda[t]) \/ GoesTo(t, where, Tail(agenda[t]))
    BY <2>2
  <2>4. CASE GoesTo(t, where, agenda[t])
    BY <1>4, <2>1, <2>4, MovedStay DEF GoesTo
  <2>5. CASE GoesTo(t, where, Tail(agenda[t]))
    BY <1>1, <1>4, <2>1, <2>5, MovedPop DEF GoesTo
  <2> QED BY <2>3, <2>4, <2>5
<1>7. CASE PutBinaryType(t) \/ NodePuts(t) \/ PutReturns(t)
  <2>1. agenda[t] # <<>> /\ Head(agenda[t])[1] = "put"
    BY <1>1, <1>7, DoingHead, WaitingHead DEF PutBinaryType, NodePuts, PutReturns
  <2>2. \E where : GoesTo(t, where, agenda[t]) \/ GoesTo(t, where, Tail(agenda[t]))
    BY <1>1, <1>7, PutStep, NodePutsStep, PutReturnsStep
  <2>3. PICK where : GoesTo(t, where, agenda[t]) \/ GoesTo(t, where, Tail(agenda[t]))
    BY <2>2
  <2>4. CASE GoesTo(t, where, agenda[t])
    BY <1>4, <2>1, <2>4, MovedStay DEF GoesTo
  <2>5. CASE GoesTo(t, where, Tail(agenda[t]))
    BY <1>1, <1>4, <2>1, <2>5, MovedPop DEF GoesTo
  <2> QED BY <2>3, <2>4, <2>5
<1>8. CASE Assign(t) \/ Send(t)
  <2>1. agenda[t] # <<>> /\ Head(agenda[t])[1] \in {"assign", "send"}
    BY <1>1, <1>8, DoingHead DEF Assign, Send
  <2>2. Head(agenda[t])[1] = "assign" => Known(Head(agenda[t])[2])
    BY <1>1, <2>1 DEF RInv, PutsInv, PutOK
  <2>3. GoesTo(t, "run", Tail(agenda[t]))
    BY <1>1, <1>8, OneStep
  <2> QED BY <1>1, <1>4, <2>1, <2>2, <2>3, MovedPop DEF GoesTo
<1>9. CASE Hashcode(t)
  <2>1. agenda[t] # <<>> /\ Head(agenda[t])[1] = "hash"
    BY <1>1, <1>9, DoingHead DEF Hashcode
  <2>2. \/ GoesTo(t, "run", Tail(agenda[t]))
        \/ GoesTo(t, "run", Body(Head(agenda[t])[2], TRUE) \o Tail(agenda[t]))
    BY <1>1, <1>9, HashStep
  <2>3. CASE GoesTo(t, "run", Tail(agenda[t]))
    BY <1>1, <1>4, <2>1, <2>3, MovedPop DEF GoesTo
  <2>4. CASE GoesTo(t, "run", Body(Head(agenda[t])[2], TRUE) \o Tail(agenda[t]))
    BY <1>1, <1>4, <2>1, <2>4, MovedWritten DEF GoesTo
  <2> QED BY <2>2, <2>3, <2>4
<1> QED BY <1>5, <1>6, <1>7, <1>8, <1>9

(* A call returns or fails.                                                 *)
LEMMA BytesEnds ==
    ASSUME BInv, NEW t \in Tasks, Ends(t), at[t] = "run" \/ Turn, UNCHANGED <<object, style, cluster>>
    PROVE  BytesInv'
<1>1. TasksInv /\ TasksInv' /\ BytesInv
  BY Ended DEF BInv, RInv
<1>2. \A u \in Tasks : u # t => at[u] # "run"
  BY <1>1 DEF TasksInv, Turn
<1> QED BY <1>1, <1>2, EndsStep DEF CompactFooter

(* Reading changes no bytes; a footer style that is learnt leaves no bytes  *)
(* unmarked.                                                                *)
LEMMA BytesRead ==
    ASSUME BInv, NEW t \in Tasks, GetDataclass(t) \/ LearnStyle(t)
    PROVE  BytesInv'
<1>1. TasksInv /\ TasksInv' /\ BytesInv
  BY ReadStep DEF BInv, RInv
<1>2. UNCHANGED <<object, cluster>> /\ at[t] = "run"
  BY DEF GetDataclass, LearnStyle, nodes, Doing
<1>3. agenda[t] # <<>> /\ Head(agenda[t])[1] \in {"dataclass", "style"} /\ \A u \in Tasks : u # t => at[u] # "run"
  BY <1>1, DoingHead DEF GetDataclass, LearnStyle
<1>4. CASE Ends(t)
  <2>1. style' = style
    <3>1. CASE GetDataclass(t)
      BY <3>1 DEF GetDataclass, shared
    <3>2. CASE LearnStyle(t) /\ style' # style
      <4>1. Continues(t, <<>>)
        BY <3>2 DEF LearnStyle
      <4>2. GoesTo(t, "run", Tail(agenda[t])) /\ GoesTo(t, "idle", <<>>)
        BY <1>1, <1>2, <1>3, <1>4, <4>1, GoneOn, Ended
      <4> QED BY <4>2 DEF GoesTo
    <3> QED BY <3>1, <3>2
  <2> QED BY <1>2, <1>4, <2>1, BytesEnds
<1>5. CASE Continues(t, <<>>)
  <2>1. GoesTo(t, "run", Tail(agenda[t]))
    BY <1>1, <1>2, <1>3, <1>5, GoneOn
  <2>2. Moved(t)
    BY <1>1, <1>3, <2>1, MovedPop DEF GoesTo
  <2>3. CASE out' = out /\ CompactFooter' = CompactFooter
    BY <1>1, <1>2, <2>1, <2>2, <2>3, QuietStep DEF GoesTo
  <2>4. CASE Disturbed(Objects)
    <3>1. \A u \in Tasks : \A x \in Pending(agenda[u]) : x[1] = "footer" => x \in Pending(agenda'[u])
      BY <2>1, <2>2 DEF Moved, GoesTo
    <3>2. /\ DOMAIN out' = Tasks /\ \A u \in Tasks : DOMAIN out'[u] = Objects
          /\ \A u \in Tasks, o \in Objects : OutOK(u, o)' /\ (IsOpen(u, o) => IsOpen(u, o)')
      BY <1>1, <1>2, <2>4, <3>1, MarkedStep
    <3>3. Shapes'
      BY <1>1, <1>2, <3>2 DEF BytesInv, Shapes
    <3>4. ASSUME NEW u \in Tasks
          PROVE  FooterOK(u)' /\ SendOK(u)'
      <4>1. CASE u = t
        <5>1. FooterOK(t)'
          BY <1>1, <1>2, <2>2, <3>2, FooterMoved, FooterObjectsNext DEF BytesInv
        <5> QED BY <4>1, <5>1, <1>2, <2>2, SendMoved
      <4>2. CASE u # t
        <5>1. FooterOK(u)'
          BY <1>1, <1>2, <2>1, <3>2, <4>2, FooterStays DEF BytesInv, TasksInv, GoesTo
        <5> QED BY <1>1, <1>2, <1>3, <2>1, <4>2, <5>1, SendStays DEF BytesInv, GoesTo
      <4> QED BY <4>1, <4>2
    <3>5. ASSUME NEW o \in Objects
          PROVE  KeptOK(o)'
      BY <1>1, <1>2, KeptStays DEF BytesInv
    <3> QED BY <3>2, <3>3, <3>4, <3>5 DEF BytesInv
  <2>5. Disturbed(Objects) \/ (out' = out /\ CompactFooter' = CompactFooter)
    <3>1. CASE GetDataclass(t)
      <4>1. ~Ends(t)
        <5> SUFFICES ASSUME Ends(t) PROVE FALSE
          OBVIOUS
        <5>1. GoesTo(t, "idle", <<>>)
          BY <1>1, Ended
        <5> QED BY <2>1, <5>1 DEF GoesTo
      <4> QED BY <3>1, <4>1 DEF GetDataclass, shared, CompactFooter
    <3>2. CASE LearnStyle(t)
      <4>1. ~Ends(t)
        <5> SUFFICES ASSUME Ends(t) PROVE FALSE
          OBVIOUS
        <5>1. GoesTo(t, "idle", <<>>)
          BY <1>1, Ended
        <5> QED BY <2>1, <5>1 DEF GoesTo
      <4>2. PICK learned \in {"compact", "full"} :
              /\ style \in {"unknown", learned} /\ style' = learned
              /\ IF learned = style \/ learned = "compact" THEN UNCHANGED out ELSE Disturbed(Objects)
        BY <3>2, <4>1 DEF LearnStyle
      <4> QED BY <4>2 DEF CompactFooter
    <3> QED BY <3>1, <3>2
  <2> QED BY <2>3, <2>4, <2>5
<1>6. Ends(t) \/ Continues(t, <<>>)
  BY DEF GetDataclass, LearnStyle
<1> QED BY <1>4, <1>5, <1>6

(* An attribute changes: what is being written is marked, what is kept is   *)
(* dropped.                                                                 *)
LEMMA BytesSetAttr ==
    ASSUME BInv, NEW o \in Objects, SetAttr(o)
    PROVE  BytesInv'
<1>1. TasksInv /\ BytesInv
  BY DEF BInv, RInv
<1>2. UNCHANGED <<style, cluster, agenda>> /\ Turn /\ Disturbed({o})
  BY DEF SetAttr, shared, nodes
<1>3. PICK v : object' = [object EXCEPT ![o] = [plain |-> v, buffer |-> <<>>, hash |-> <<>>]]
  BY DEF SetAttr
<1>4. DOMAIN object = Objects
  BY <1>1 DEF BytesInv, Shapes
<1>5. /\ DOMAIN object' = Objects
      /\ object'[o] = [plain |-> v, buffer |-> <<>>, hash |-> <<>>]
      /\ \A x \in Objects : x # o => object'[x] = object[x]
  BY <1>3, <1>4
<1>6. CompactFooter' = CompactFooter
  BY <1>2 DEF CompactFooter
<1>7. /\ DOMAIN out' = Tasks /\ \A u \in Tasks : DOMAIN out'[u] = Objects
      /\ \A u \in Tasks, x \in Objects : OutOK(u, x)' /\ (IsOpen(u, x) => IsOpen(u, x)')
  <2>1. \A x \in Objects : x \notin {o} => object'[x].plain = object[x].plain /\ CompactFooter' = CompactFooter
    BY <1>5, <1>6
  <2> QED BY <1>1, <1>2, <2>1, MarkedStep
<1>8. Shapes'
  BY <1>5, <1>7 DEF Shapes
<1>9. ASSUME NEW u \in Tasks
      PROVE  FooterOK(u)' /\ SendOK(u)'
  <2>1. FooterOK(u)'
    BY <1>1, <1>2, <1>7, FooterStays DEF BytesInv, TasksInv
  <2>2. at[u] # "run"
    BY <1>2 DEF Turn
  <2> QED BY <1>1, <1>2, <2>1, <2>2, SendStays DEF BytesInv
<1>10. ASSUME NEW x \in Objects
       PROVE  KeptOK(x)'
  <2>1. CASE x = o
    BY <1>5, <2>1 DEF KeptOK
  <2>2. CASE x # o
    BY <1>1, <1>2, <1>5, <2>2, KeptStays DEF BytesInv
  <2> QED BY <2>1, <2>2
<1> QED BY <1>7, <1>8, <1>9, <1>10 DEF BytesInv

-----------------------------------------------------------------------------
(* Bytes: an object is entered                                              *)

(* One object is written.                                                   *)
LEMMA WrittenStep ==
    ASSUME BInv, NEW t \in Tasks, at[t] = "run", agenda[t] # <<>>, GoesTo(t, "run", Tail(agenda[t])),
           NEW o \in Objects, NEW e, out' = [out EXCEPT ![t][o] = e],
           \A x \in Pending(agenda[t]) : x[1] = "footer" /\ x[2] # o => x \in Pending(agenda'[t]),
           OutOK(t, o)', FooterOK(t)', SendOK(t)', \A x \in Objects : KeptOK(x)',
           DOMAIN object' = Objects, \A x \in Objects : object'[x].plain = object[x].plain,
           UNCHANGED <<style, cluster>>
    PROVE  BytesInv'
<1>1. TasksInv /\ BytesInv
  BY DEF BInv, RInv
<1>2. /\ DOMAIN out' = Tasks /\ \A u \in Tasks : DOMAIN out'[u] = Objects
      /\ \A u \in Tasks, x \in Objects : u # t \/ x # o => out'[u][x] = out[u][x]
  BY <1>1 DEF BytesInv, Shapes
<1>3. Shapes'
  BY <1>2 DEF Shapes
<1>4. CompactFooter' = CompactFooter
  BY DEF CompactFooter
<1>5. ASSUME NEW u \in Tasks, NEW x \in Objects
      PROVE  OutOK(u, x)'
  <2>1. CASE u = t /\ x = o
    BY <2>1
  <2>2. CASE u # t \/ x # o
    <3>1. \A y \in Pending(agenda[u]) : y[1] = "footer" /\ y[2] = x => y \in Pending(agenda'[u])
      BY <2>2 DEF GoesTo
    <3> QED BY <1>1, <1>2, <1>4, <2>2, <3>1, OutStays DEF BytesInv
  <2> QED BY <2>1, <2>2
<1>6. ASSUME NEW u \in Tasks
      PROVE  FooterOK(u)' /\ SendOK(u)'
  <2>1. CASE u = t
    BY <2>1
  <2>2. CASE u # t
    <3>1. agenda'[u] = agenda[u] /\ at[u] # "run"
      BY <1>1, <2>2 DEF GoesTo, TasksInv
    <3>2. \A x \in Objects : IsOpen(u, x) => IsOpen(u, x)'
      BY <1>2, <2>2 DEF IsOpen
    <3>3. FooterOK(u)'
      BY <1>1, <3>1, <3>2, FooterStays DEF BytesInv, TasksInv
    <3> QED BY <1>1, <3>1, <3>3, SendStays DEF BytesInv
  <2> QED BY <2>1, <2>2
<1> QED BY <1>3, <1>5, <1>6 DEF BytesInv

(* What comes after a step that is not about the registry.                  *)
LEMMA AfterWriting ==
    ASSUME TasksInv, NEW t \in Tasks, agenda[t] # <<>>, Head(agenda[t])[1] \in {"enter", "open", "footer"},
           Tail(agenda[t]) # <<>>
    PROVE  LET s == Head(agenda[t])
               h == Head(Tail(agenda[t])) IN
           /\ h[1] # "open"
           /\ h[1] = "send" => s[1] # "open" /\ s[2] = h[2]
<1>1. PICK s : s = Head(agenda[t])
  OBVIOUS
<1>2. PICK h : h = Head(Tail(agenda[t]))
  OBVIOUS
<1>3. Valid(agenda[t])
  BY DEF TasksInv
<1>4. Follows(s, h)
  BY <1>1, <1>2, <1>3, Popped
<1>5. s[1] \in {"enter", "open", "footer"}
  BY <1>1
<1>6. h[1] # "open"
  <2> SUFFICES ASSUME h[1] = "open" PROVE FALSE
    OBVIOUS
  <2>1. s = <<"assign", ClassOf[h[2]]>>
    BY <1>4 DEF Follows
  <2>2. s[1] = "assign"
    BY <2>1
  <2> QED BY <2>2, <1>5
<1>7. ASSUME h[1] = "send"
      PROVE  s[1] # "open" /\ s[2] = h[2]
  <2>1. s = <<"enter", h[2]>> \/ s = <<"footer", h[2], FALSE>>
    BY <1>4, <1>7 DEF Follows
  <2>2. CASE s = <<"enter", h[2]>>
    BY <2>2
  <2>3. CASE s = <<"footer", h[2], FALSE>>
    BY <2>3
  <2> QED BY <2>1, <2>2, <2>3
<1> QED BY <1>1, <1>2, <1>6, <1>7

(* An object is written from what it keeps, or anew.                        *)
LEMMA BytesEnter ==
    ASSUME BInv, NEW t \in Tasks, Enter(t)
    PROVE  BytesInv'
<1> DEFINE r == Tail(agenda[t])
<1>1. TasksInv /\ TasksInv' /\ BytesInv
  BY EnterStep DEF BInv, RInv
<1>2. /\ at[t] = "run" /\ agenda[t] # <<>> /\ Valid(agenda[t]) /\ Head(agenda[t])[1] = "enter"
      /\ Head(agenda[t]) = agenda[t][1] /\ StepOK(Head(agenda[t]))
  BY <1>1, DoingHead DEF Enter
<1>3. UNCHANGED <<object, style, cluster>>
  BY DEF Enter, shared, nodes
<1>4. PICK o \in Objects : o = Head(agenda[t])[2]
  BY <1>2 DEF StepOK
<1>5. CASE object[o].buffer = <<>>
  <2>1. GoesTo(t, "run", (Registers(ClassOf[o]) \o Body(o, FALSE)) \o r)
    BY <1>1, <1>4, <1>5, EnterStep
  <2>2. Moved(t)
    BY <1>1, <1>2, <1>4, <2>1, MovedEntered DEF GoesTo
  <2>3. UNCHANGED out
    BY <1>4, <1>5 DEF Enter
  <2> QED BY <1>1, <1>3, <2>1, <2>2, <2>3, QuietStep DEF GoesTo, CompactFooter
<1>6. CASE object[o].buffer # <<>>
  <2>1. GoesTo(t, "run", r) /\ out' = [out EXCEPT ![t][o] = object[o].buffer]
    BY <1>1, <1>4, <1>6, EnterStep DEF Enter
  <2>2. /\ Pending(agenda[t]) = {Head(agenda[t])} \cup Pending(r)
        /\ \A x \in Pending(r) : x[1] = "footer" => BeforeFooter(Head(agenda[t]), x[2])
    BY <1>2, Popped
  <2>3. agenda'[t] = r
    BY <2>1 DEF GoesTo
  <2> DEFINE b == object[o].buffer[1]
  <2>4. /\ object[o].buffer = <<b>> /\ IsBytes(b) /\ b.class = ClassOf[o] /\ ~b.open /\ b.hashed
        /\ InnerKnown(b) /\ Current(o, b)
    BY <1>1, <1>4, <1>6 DEF BytesInv, KeptOK
  <2> HIDE DEF b, r
  <2>5. /\ out'[t][o] = <<b>>
        /\ \A x \in Objects : x # o => out'[t][x] = out[t][x]
    BY <1>1, <1>4, <2>1, <2>4 DEF BytesInv, Shapes
  <2>6. \A x \in Pending(agenda[t]) : x[1] = "footer" => x \in Pending(r)
    BY <1>2, <2>2
  <2>7. OutOK(t, o)'
    <3>1. PICK c : c = b
      OBVIOUS
    <3>2. InnerKnown(c)'
      BY <1>3, <2>4, <3>1, InnerKnownStays
    <3>3. out'[t][o] = <<c>> /\ out'[t][o][1] = c
      BY <2>5, <3>1
    <3>4. \A i \in DOMAIN c.inner : c.inner[i].hashed \/ Known(c.inner[i].class)'
      BY <3>2 DEF InnerKnown
    <3>5. c.class = ClassOf[o] /\ ~c.open /\ c.hashed /\ IsBytes(c)
      BY <2>4, <3>1
    <3> QED BY <3>3, <3>4, <3>5 DEF OutOK, IsBytes, InnerKnown
  <2>8. FooterOK(t)'
    <3>1. ASSUME NEW x \in Pending(r), x[1] = "footer", <<"open", x[2]>> \notin Pending(r)
          PROVE  IsOpen(t, x[2])' /\ (x[3] \/ Known(ClassOf[x[2]]))
      <4>1. x[2] \in Objects
        BY <1>1, <2>2, <3>1, FooterObjects DEF FootersIn
      <4>2. x[2] # o
        BY <1>2, <2>2, <3>1, <4>1, <1>4, InnerObjects DEF BeforeFooter
      <4>3. <<"open", x[2]>> # Head(agenda[t])
        BY <1>2
      <4>4. IsOpen(t, x[2]) /\ (x[3] \/ Known(ClassOf[x[2]]))
        BY <1>1, <2>2, <3>1, <4>3 DEF BytesInv, FooterOK
      <4> QED BY <2>5, <4>1, <4>2, <4>4 DEF IsOpen
    <3>2. PICK q : q = r
      OBVIOUS
    <3>3. \A x \in Pending(q) : x[1] = "footer" => <<"open", x[2]>> \in Pending(q)
            \/ (IsOpen(t, x[2])' /\ (x[3] \/ Known(ClassOf[x[2]])))
      BY <3>1, <3>2
    <3>4. agenda'[t] = q
      BY <2>3, <3>2
    <3> QED BY <1>3, <3>3, <3>4 DEF FooterOK, Pending, Known
  <2>9. SendOK(t)'
    <3>1. r # <<>> => Head(r)[1] # "open" /\ (Head(r)[1] = "send" => o = Head(r)[2])
      BY <1>1, <1>2, <1>4, AfterWriting DEF r
    <3>2. out'[t][o] # <<>> /\ out'[t][o][1] = b
      BY <2>5
    <3> QED BY <1>3, <2>3, <2>4, <3>1, <3>2 DEF SendOK, Current
  <2>10. \A x \in Objects : KeptOK(x)'
    BY <1>1, <1>3, KeptStays DEF BytesInv
  <2>11. DOMAIN object' = Objects
    BY <1>1, <1>3 DEF BytesInv, Shapes
  <2>12. \A x \in Pending(agenda[t]) : x[1] = "footer" /\ x[2] # o => x \in Pending(agenda'[t])
    BY <2>3, <2>6
  <2>13. GoesTo(t, "run", Tail(agenda[t]))
    BY <2>1 DEF r
  <2>14. \A x \in Objects : object'[x].plain = object[x].plain
    BY <1>3
  <2>15. PICK e : out' = [out EXCEPT ![t][o] = e]
    BY <2>1
  <2> QED BY <1>2, <1>3, <1>4, <2>7, <2>8, <2>9, <2>10, <2>11, <2>12, <2>13, <2>14, <2>15, WrittenStep
<1> QED BY <1>5, <1>6

-----------------------------------------------------------------------------
(* Bytes: headers                                                           *)

(* A header is written.                                                     *)
LEMMA BytesOpen ==
    ASSUME BInv, NEW t \in Tasks, Open(t)
    PROVE  BytesInv'
<1>1. TasksInv /\ TasksInv' /\ BytesInv
  BY OneStep DEF BInv, RInv
<1>2. /\ at[t] = "run" /\ agenda[t] # <<>> /\ Valid(agenda[t]) /\ Head(agenda[t])[1] = "open"
      /\ Head(agenda[t]) = agenda[t][1] /\ StepOK(Head(agenda[t]))
  BY <1>1, DoingHead DEF Open
<1>3. UNCHANGED <<object, style, cluster>>
  BY DEF Open, shared, nodes
<1>4. PICK s : s = Head(agenda[t])
  OBVIOUS
<1>5. PICK r : r = Tail(agenda[t])
  OBVIOUS
<1>6. PICK o \in Objects : o = s[2]
  BY <1>2, <1>4 DEF StepOK
<1>7. /\ Pending(agenda[t]) = {s} \cup Pending(r)
      /\ \A x \in Pending(r) : x[1] = "footer" => BeforeFooter(s, x[2])
      /\ \E x \in Pending(r) : x[1] = "footer" /\ x[2] = o
  BY <1>2, <1>4, <1>5, <1>6, Popped
<1>8. GoesTo(t, "run", r)
  BY <1>1, <1>5, OneStep
<1>9. agenda'[t] = r
  BY <1>8 DEF GoesTo
<1>10. PICK b : b = [class |-> ClassOf[o], plain |-> object[o].plain, inner |-> <<>>,
                     header |-> CompactFooter, footer |-> CompactFooter,
                     hashed |-> FALSE, open |-> TRUE, disturbed |-> FALSE]
  OBVIOUS
<1>11. out' = [out EXCEPT ![t][o] = <<b>>]
  BY <1>4, <1>6, <1>10 DEF Open
<1>12. /\ out'[t][o] = <<b>>
       /\ \A x \in Objects : x # o => out'[t][x] = out[t][x]
  BY <1>1, <1>11 DEF BytesInv, Shapes
<1>13. /\ IsBytes(b) /\ b.class = ClassOf[o] /\ b.plain = object[o].plain /\ b.inner = <<>>
       /\ b.header = CompactFooter /\ b.open
  BY <1>10 DEF IsBytes
<1>14. OutOK(t, o)'
  <2>1. DOMAIN b.inner = {}
    BY <1>13
  <2>2. out'[t][o] = <<b>> /\ out'[t][o][1] = b
    BY <1>12
  <2>3. PICK q : q = r
    OBVIOUS
  <2>4. agenda'[t] = q /\ \E x \in Pending(q) : x[1] = "footer" /\ x[2] = o
    BY <2>3, <1>7, <1>9
  <2>5. b.plain = object'[o].plain /\ b.header = CompactFooter'
    BY <1>3, <1>13 DEF CompactFooter
  <2>6. \A i \in DOMAIN b.inner : b.inner[i].hashed \/ Known(b.inner[i].class)'
    BY <2>1
  <2> QED BY <1>13, <2>2, <2>4, <2>5, <2>6 DEF OutOK, IsBytes, InnerKnown, Pending
<1>15. FooterOK(t)'
  <2>1. ASSUME NEW x \in Pending(r), x[1] = "footer", <<"open", x[2]>> \notin Pending(r)
        PROVE  IsOpen(t, x[2])' /\ (x[3] \/ Known(ClassOf[x[2]]))
    <3>1. x[2] \in Objects
      BY <1>1, <1>7, <2>1, FooterObjects DEF FootersIn
    <3>2. CASE x[2] = o
      <4>1. IsOpen(t, x[2])'
        BY <3>2, <1>12, <1>13 DEF IsOpen
      <4>2. Known(ClassOf[o]) \/ <<"footer", o, TRUE>> \in Pending(agenda[t])
        BY <1>1, <1>2, <1>4, <1>6 DEF BytesInv, SendOK
      <4>3. ASSUME <<"footer", o, TRUE>> \in Pending(agenda[t])
            PROVE  x[3]
        <5>1. PICK y : y = <<"footer", o, TRUE>>
          OBVIOUS
        <5>2. y[1] = "footer" /\ y[2] = o /\ y[3]
          BY <5>1
        <5>3. x = y
          BY <1>2, <1>7, <2>1, <3>2, <4>3, <5>1, <5>2, OneFooter
        <5> QED BY <5>2, <5>3
      <4> QED BY <3>2, <4>1, <4>2, <4>3
    <3>3. CASE x[2] # o
      <4>1. <<"open", x[2]>> # s
        <5>1. <<"open", x[2]>>[2] = x[2]
          OBVIOUS
        <5> QED BY <3>3, <5>1, <1>6
      <4>2. IsOpen(t, x[2]) /\ (x[3] \/ Known(ClassOf[x[2]]))
        BY <1>1, <1>7, <2>1, <4>1 DEF BytesInv, FooterOK
      <4> QED BY <1>12, <3>1, <3>3, <4>2 DEF IsOpen
    <3> QED BY <3>2, <3>3
  <2>2. PICK q : q = r
    OBVIOUS
  <2>3. \A x \in Pending(q) : x[1] = "footer" => <<"open", x[2]>> \in Pending(q)
          \/ (IsOpen(t, x[2])' /\ (x[3] \/ Known(ClassOf[x[2]])))
    BY <2>1, <2>2
  <2>4. agenda'[t] = q
    BY <1>9, <2>2
  <2> QED BY <1>3, <2>3, <2>4 DEF FooterOK, Pending, Known
<1>16. SendOK(t)'
  <2>1. r # <<>> => Head(r)[1] # "open" /\ Head(r)[1] # "send"
    BY <1>1, <1>2, <1>5, AfterWriting
  <2> QED BY <1>9, <2>1 DEF SendOK
<1>17. \A x \in Objects : KeptOK(x)'
  BY <1>1, <1>3, KeptStays DEF BytesInv
<1>18. DOMAIN object' = Objects
  BY <1>1, <1>3 DEF BytesInv, Shapes
<1>19. \A x \in Pending(agenda[t]) : x[1] = "footer" /\ x[2] # o => x \in Pending(agenda'[t])
  BY <1>2, <1>4, <1>7, <1>9
<1>20. \A x \in Objects : object'[x].plain = object[x].plain
  BY <1>3
<1> QED BY <1>2, <1>3, <1>5, <1>8, <1>11, <1>14, <1>15, <1>16, <1>17, <1>18, <1>19, <1>20, WrittenStep

(* What a footer is written for.                                            *)
LEMMA BeforeFootering ==
    ASSUME BInv, NEW t \in Tasks, agenda[t] # <<>>, Head(agenda[t])[1] = "footer",
           NEW o \in Objects, o = Head(agenda[t])[2]
    PROVE  LET save == Head(agenda[t])[3] IN
           /\ save \in BOOLEAN
           /\ \A x \in Pending(Tail(agenda[t])) : x[1] = "footer" => x[2] # o
           /\ IsOpen(t, o) /\ (save \/ Known(ClassOf[o]))
           /\ Inner[o] # NoObject => ~IsOpen(t, Inner[o])
<1>1. TasksInv /\ BytesInv
  BY DEF BInv, RInv
<1>2. PICK s : s = Head(agenda[t])
  OBVIOUS
<1>3. PICK r : r = Tail(agenda[t])
  OBVIOUS
<1>4. Valid(agenda[t]) /\ s[1] = "footer" /\ s[2] = o
  BY <1>1, <1>2 DEF TasksInv
<1>5. /\ Valid(r) /\ StepOK(s)
      /\ Pending(agenda[t]) = {s} \cup Pending(r)
      /\ \A x \in Pending(r) : x[1] = "footer" => BeforeFooter(s, x[2])
  BY <1>2, <1>3, <1>4, Popped
<1>6. s[3] \in BOOLEAN
  BY <1>4, <1>5 DEF StepOK
<1>7. \A x \in Pending(r) : x[1] = "footer" => o = Inner[x[2]]
  BY <1>4, <1>5 DEF BeforeFooter
<1>8. \A x \in Pending(r) : x[1] = "footer" => x[2] # o
  BY <1>7, InnerObjects
<1>9. <<"open", o>> \notin Pending(agenda[t])
  <2> SUFFICES ASSUME <<"open", o>> \in Pending(agenda[t]) PROVE FALSE
    OBVIOUS
  <2>1. PICK y : y = <<"open", o>>
    OBVIOUS
  <2>2. y[1] = "open" /\ y[2] = o
    BY <2>1
  <2>3. y \in Pending(r)
    BY <1>4, <1>5, <2>1, <2>2
  <2>4. \E x \in Pending(r) : x[1] = "footer" /\ x[2] = o
    BY <1>5, <2>2, <2>3 DEF Valid, Pending
  <2> QED BY <1>8, <2>4
<1>10. IsOpen(t, o) /\ (s[3] \/ Known(ClassOf[o]))
  BY <1>1, <1>4, <1>5, <1>9 DEF BytesInv, FooterOK
<1>11. ASSUME Inner[o] # NoObject, IsOpen(t, Inner[o])
       PROVE  FALSE
  <2>1. Inner[o] \in Objects /\ Inner[Inner[o]] = NoObject /\ o # NoObject /\ Inner[o] # o
    BY <1>11, InnerObjects
  <2>2. PICK x \in Pending(agenda[t]) : x[1] = "footer" /\ x[2] = Inner[o]
    BY <1>1, <1>11, <2>1 DEF BytesInv, OutOK, IsOpen
  <2>3. x \in Pending(r)
    BY <1>4, <1>5, <2>1, <2>2
  <2> QED BY <1>7, <2>1, <2>2, <2>3
<1> QED BY <1>2, <1>3, <1>6, <1>8, <1>10, <1>11

-----------------------------------------------------------------------------
(* Bytes: footers                                                           *)

(* A footer is written, and the inner bytes become part of the outer ones.  *)
LEMMA BytesFooter ==
    ASSUME BInv, NEW t \in Tasks, WriteFooter(t)
    PROVE  BytesInv'
<1>1. TasksInv /\ TasksInv' /\ BytesInv
  BY OneStep DEF BInv, RInv
<1>2. /\ at[t] = "run" /\ agenda[t] # <<>> /\ Valid(agenda[t]) /\ Head(agenda[t])[1] = "footer"
      /\ Head(agenda[t]) = agenda[t][1] /\ StepOK(Head(agenda[t]))
  BY <1>1, DoingHead DEF WriteFooter
<1>3. UNCHANGED <<style, cluster>>
  BY DEF WriteFooter, shared, nodes
<1>4. PICK s : s = Head(agenda[t])
  OBVIOUS
<1>5. PICK r : r = Tail(agenda[t])
  OBVIOUS
<1>6. PICK o \in Objects : o = s[2]
  BY <1>2, <1>4 DEF StepOK
<1>7. PICK save : save = s[3]
  OBVIOUS
<1>8. /\ save \in BOOLEAN
      /\ \A x \in Pending(r) : x[1] = "footer" => x[2] # o
      /\ IsOpen(t, o) /\ (save \/ Known(ClassOf[o]))
      /\ Inner[o] # NoObject => ~IsOpen(t, Inner[o])
  BY <1>2, <1>4, <1>5, <1>6, <1>7, BeforeFootering
<1>9. Pending(agenda[t]) = {s} \cup Pending(r)
  BY <1>2, <1>4, <1>5, Popped
<1>10. GoesTo(t, "run", r) /\ agenda'[t] = r
  BY <1>1, <1>5, OneStep DEF GoesTo
<1>11. PICK b : b = out[t][o][1]
  OBVIOUS
<1>12. /\ IsBytes(b) /\ b.class = ClassOf[o] /\ InnerKnown(b) /\ b.open
       /\ b.disturbed \/ (b.plain = object[o].plain /\ b.header = CompactFooter)
  BY <1>1, <1>8, <1>11 DEF BytesInv, OutOK, IsOpen
<1>13. PICK inner : inner = IF Inner[o] = NoObject THEN <<>> ELSE out[t][Inner[o]]
  OBVIOUS
<1>14. PICK foot : foot = CompactFooter
  OBVIOUS
<1>15. PICK w : w = [b EXCEPT !.inner = inner, !.footer = foot, !.hashed = save, !.open = FALSE]
  OBVIOUS
<1>32. PICK closed : closed = FALSE
  OBVIOUS
<1>33. w = WithFooter(b, inner, foot, save, closed)
  BY <1>15, <1>32 DEF WithFooter
<1>34. /\ IsBytes(w) /\ w.class = b.class /\ w.plain = b.plain /\ w.inner = inner /\ w.header = b.header
       /\ w.footer = foot /\ w.hashed = save /\ w.open = closed /\ w.disturbed = b.disturbed
  BY <1>12, <1>33, Footered
<1>16. /\ IsBytes(w) /\ w.class = ClassOf[o] /\ w.plain = b.plain /\ w.inner = inner /\ w.header = b.header
       /\ w.footer = foot /\ w.hashed = save /\ ~w.open /\ w.disturbed = b.disturbed
  BY <1>12, <1>32, <1>34
<1>17. \A i \in DOMAIN inner : inner[i].hashed \/ Known(inner[i].class)
  <2>1. CASE inner = <<>>
    BY <2>1
  <2>2. CASE inner # <<>>
    <3>1. Inner[o] # NoObject /\ inner = out[t][Inner[o]] /\ ~IsOpen(t, Inner[o]) /\ Inner[o] \in Objects
      BY <1>8, <1>13, <2>2, InnerObjects
    <3>2. PICK c : c = inner[1]
      OBVIOUS
    <3>3. inner = <<c>> /\ (c.hashed \/ Known(c.class))
      BY <1>1, <2>2, <3>1, <3>2 DEF BytesInv, OutOK, IsOpen
    <3>4. DOMAIN inner = {1}
      BY <3>3
    <3> QED BY <3>2, <3>3, <3>4
  <2> QED BY <2>1, <2>2
<1>18. /\ out' = [out EXCEPT ![t][o] = <<w>>]
       /\ object' = [object EXCEPT ![o].hash = <<w>>, ![o].buffer = IF save THEN <<w>> ELSE @]
  BY <1>4, <1>6, <1>7, <1>11, <1>13, <1>14, <1>15 DEF WriteFooter
<1>19. /\ out'[t][o] = <<w>>
       /\ \A x \in Objects : x # o => out'[t][x] = out[t][x]
  BY <1>1, <1>18 DEF BytesInv, Shapes
<1>20. object[o] = [plain |-> object[o].plain, buffer |-> object[o].buffer, hash |-> object[o].hash]
  BY <1>1 DEF BytesInv, KeptOK
<1>21. DOMAIN object = Objects
  BY <1>1 DEF BytesInv, Shapes
<1>22. /\ DOMAIN object' = Objects
       /\ object'[o] = [plain |-> object[o].plain, buffer |-> IF save THEN <<w>> ELSE object[o].buffer, hash |-> <<w>>]
       /\ \A x \in Objects : x # o => object'[x] = object[x]
  BY <1>8, <1>18, <1>20, <1>21
<1>23. object'[o].plain = object[o].plain /\ object'[o].hash = <<w>>
       /\ object'[o].buffer = IF save THEN <<w>> ELSE object[o].buffer
  BY <1>22
<1>24. Current(o, w)' /\ Current(o, w)
  BY <1>12, <1>14, <1>16, <1>23 DEF Current
<1>25. \A i \in DOMAIN w.inner : w.inner[i].hashed \/ Known(w.inner[i].class)'
  BY <1>3, <1>16, <1>17 DEF Known
<1>26. OutOK(t, o)'
  <2>1. out'[t][o][1] = w
    BY <1>19
  <2>2. w.hashed \/ Known(w.class)'
    BY <1>3, <1>8, <1>16 DEF Known
  <2> QED BY <1>16, <1>19, <1>25, <2>1, <2>2 DEF OutOK, IsBytes, InnerKnown
<1>27. FooterOK(t)'
  <2>1. ASSUME NEW x \in Pending(r), x[1] = "footer", <<"open", x[2]>> \notin Pending(r)
        PROVE  IsOpen(t, x[2])' /\ (x[3] \/ Known(ClassOf[x[2]]))
    <3>1. x[2] \in Objects /\ x[2] # o
      BY <1>1, <1>8, <1>9, <2>1, FooterObjects DEF FootersIn
    <3>2. <<"open", x[2]>> # s
      <4>1. <<"open", x[2]>>[1] = "open"
        OBVIOUS
      <4> QED BY <4>1, <1>2, <1>4
    <3>3. IsOpen(t, x[2]) /\ (x[3] \/ Known(ClassOf[x[2]]))
      BY <1>1, <1>9, <2>1, <3>2 DEF BytesInv, FooterOK
    <3> QED BY <1>19, <3>1, <3>3 DEF IsOpen
  <2>2. \A x \in Pending(r) : x[1] = "footer" => <<"open", x[2]>> \in Pending(r)
          \/ (IsOpen(t, x[2])' /\ (x[3] \/ Known(ClassOf[x[2]])))
    BY <2>1
  <2> QED BY <1>3, <1>10, <2>2 DEF FooterOK, Pending, Known
<1>28. SendOK(t)'
  <2>1. r # <<>> => Head(r)[1] # "open" /\ (Head(r)[1] = "send" => o = Head(r)[2])
    BY <1>1, <1>2, <1>4, <1>5, <1>6, AfterWriting
  <2>2. out'[t][o] # <<>> /\ out'[t][o][1] = w
    BY <1>19
  <2> QED BY <1>10, <1>16, <1>24, <2>1, <2>2 DEF SendOK, Current
<1>29. ASSUME NEW x \in Objects
       PROVE  KeptOK(x)'
  <2>1. CASE x # o
    BY <1>1, <1>3, <1>22, <2>1, KeptStays DEF BytesInv
  <2>2. CASE x = o
    <3>1. object'[o] = [plain |-> object'[o].plain, buffer |-> object'[o].buffer, hash |-> object'[o].hash]
      BY <1>22, <1>23
    <3>2. object'[o].hash # <<>> /\ object'[o].hash[1] = w
      BY <1>23
    <3>3. CASE save
      <4>1. object'[o].buffer = <<w>> /\ object'[o].buffer[1] = w
        BY <1>23, <3>3
      <4>2. w.hashed
        BY <1>16, <3>3
      <4>3. KeptOK(o)'
        BY <1>16, <1>24, <1>25, <3>1, <3>2, <4>1, <4>2 DEF KeptOK, IsBytes, InnerKnown, Current
      <4> QED BY <2>2, <4>3
    <3>4. CASE ~save
      <4>1. object'[o].buffer = object[o].buffer
        BY <1>23, <3>4
      <4>2. PICK c : c = object[o].buffer[1]
        OBVIOUS
      <4>3. object[o].buffer # <<>> =>
              /\ object[o].buffer = <<c>> /\ IsBytes(c) /\ c.class = ClassOf[o] /\ ~c.open /\ c.hashed
              /\ InnerKnown(c) /\ Current(o, c)
        BY <1>1, <4>2 DEF BytesInv, KeptOK
      <4>4. InnerKnown(c) => InnerKnown(c)'
        BY <1>3, InnerKnownStays
      <4>5. Current(o, c) => Current(o, c)'
        BY <1>23 DEF Current
      <4>6. KeptOK(o)'
        BY <1>24, <3>1, <3>2, <4>1, <4>2, <4>3, <4>4, <4>5 DEF KeptOK, IsBytes, InnerKnown, Current
      <4> QED BY <2>2, <4>6
    <3> QED BY <1>8, <3>3, <3>4
  <2> QED BY <2>1, <2>2
<1>30. \A x \in Pending(agenda[t]) : x[1] = "footer" /\ x[2] # o => x \in Pending(agenda'[t])
  BY <1>6, <1>9, <1>10
<1>31. \A x \in Objects : object'[x].plain = object[x].plain
  BY <1>22, <1>23
<1> QED BY <1>2, <1>3, <1>5, <1>10, <1>18, <1>22, <1>26, <1>27, <1>28, <1>29, <1>30, <1>31, WrittenStep

(* Every step keeps the invariant.                                          *)
LEMMA BytesStep ==
    ASSUME BInv, [Next]_vars
    PROVE  BInv'
<1>1. RInv' /\ cluster \subseteq cluster'
  BY RegistryStep DEF BInv
<1>2. ASSUME NEW t \in Tasks, Call(t) \/ Runs(t) \/ Resumes(t) \/ NodeAnswers(t) \/ NodePuts(t)
      PROVE  BytesInv'
  <2>1. CASE Return(t)
    BY <2>1, BytesEnds DEF Return, shared, nodes
  <2>2. CASE RequestFails(t)
    BY <2>2, BytesEnds DEF RequestFails, nodes
  <2>3. CASE Enter(t) \/ Open(t) \/ WriteFooter(t)
    BY <2>3, BytesEnter, BytesOpen, BytesFooter
  <2>4. CASE GetDataclass(t) \/ LearnStyle(t)
    BY <2>4, BytesRead
  <2> QED BY <1>1, <1>2, <2>1, <2>2, <2>3, <2>4, BytesQuiet DEF Runs, Resumes
<1>3. ASSUME NEW o \in Objects, SetAttr(o)
      PROVE  BytesInv'
  BY <1>3, BytesSetAttr
<1>4. ASSUME UNCHANGED <<at, agenda, out, object, style>>
      PROVE  BytesInv'
  <2>1. TasksInv /\ BytesInv
    BY DEF BInv, RInv
  <2>2. Shapes'
    BY <1>4, <2>1 DEF BytesInv, Shapes
  <2>3. CompactFooter' = CompactFooter
    BY <1>4 DEF CompactFooter
  <2>4. ASSUME NEW u \in Tasks, NEW o \in Objects
        PROVE  OutOK(u, o)'
    BY <1>1, <1>4, <2>1, <2>3, OutStays DEF BytesInv
  <2>5. ASSUME NEW u \in Tasks
        PROVE  FooterOK(u)' /\ SendOK(u)'
    <3>1. \A o \in Objects : IsOpen(u, o) => IsOpen(u, o)'
      BY <1>4 DEF IsOpen
    <3>2. FooterOK(u)'
      BY <1>1, <1>4, <2>1, <3>1, FooterStays DEF BytesInv, TasksInv
    <3> QED BY <1>1, <1>4, <2>1, <3>2, SendStays DEF BytesInv
  <2>6. ASSUME NEW o \in Objects
        PROVE  KeptOK(o)'
    BY <1>1, <1>4, <2>1, KeptStays DEF BytesInv
  <2> QED BY <2>2, <2>4, <2>5, <2>6 DEF BytesInv
<1>5. ASSUME NEW key \in Foreign, OtherProgram(key)
      PROVE  BytesInv'
  BY <1>4, <1>5 DEF OtherProgram, shared, local
<1>6. CASE UNCHANGED vars
  BY <1>1, <1>4, <1>6 DEF vars, shared, local, BInv
<1> QED BY <1>1, <1>2, <1>3, <1>5, <1>6 DEF Next, BInv

(* At first nothing is written.                                             *)
LEMMA BytesInit == Init => BInv
<1> SUFFICES ASSUME Init PROVE BInv
  OBVIOUS
<1>1. /\ object = [o \in Objects |-> [plain |-> 0, buffer |-> <<>>, hash |-> <<>>]]
      /\ agenda = [t \in Tasks |-> <<>>]
      /\ out = [t \in Tasks |-> [o \in Objects |-> <<>>]]
  BY DEF Init
<1>2. Pending(<<>>) = {}
  <2>1. Len(<<>>) = 0
    BY EmptySeq
  <2> QED BY <2>1 DEF Pending
<1>3. Shapes
  BY <1>1 DEF Shapes
<1>4. \A t \in Tasks, o \in Objects : OutOK(t, o)
  BY <1>1 DEF OutOK
<1>5. \A t \in Tasks : FooterOK(t) /\ SendOK(t)
  BY <1>1, <1>2 DEF FooterOK, SendOK
<1>6. \A o \in Objects : KeptOK(o)
  BY <1>1 DEF KeptOK
<1> QED BY <1>3, <1>4, <1>5, <1>6, RegistryInit DEF BInv, BytesInv

(* The invariant holds in every state.                                      *)
LEMMA BytesInvariance == Spec => []BInv
<1>1. BInv /\ [Next]_vars => BInv'
  BY BytesStep
<1> QED BY <1>1, BytesInit, PTL DEF Spec

(* The cluster knows the class of every object in a request, of the inner   *)
(* ones too, unless it was written for its hash code (from_python_not_null  *)
(* of datatypes/complex.py, register_binary_type of aio_client.py).         *)
THEOREM ClassesAreKnown == Spec => []WrittenAreKnown
<1>1. ASSUME BInv
      PROVE  WrittenAreKnown
  <2> SUFFICES ASSUME NEW t \in Tasks, NEW p \in SentBy(t), ~p.hashed
               PROVE  Known(p.class)
    BY DEF WrittenAreKnown
  <2>1. TasksInv /\ BytesInv
    BY <1>1 DEF BInv, RInv
  <2>2. Doing(t, "send")
    BY DEF SentBy
  <2>3. agenda[t] # <<>> /\ Head(agenda[t])[1] = "send" /\ StepOK(Head(agenda[t]))
    BY <2>1, <2>2, DoingHead
  <2> DEFINE o == Head(agenda[t])[2]
             b == out[t][o][1]
  <2>4. o \in Objects
    BY <2>3 DEF StepOK
  <2>5. out[t][o] # <<>> /\ ~b.open
    BY <2>1, <2>3 DEF BytesInv, SendOK
  <2>6. InnerKnown(b) /\ (b.hashed \/ Known(b.class))
    BY <2>1, <2>4, <2>5 DEF BytesInv, OutOK
  <2>7. p \in Parts(b)
    BY <2>2 DEF SentBy
  <2> HIDE DEF b, o
  <2> QED BY <2>6, <2>7 DEF Parts, InnerKnown
<1> QED BY <1>1, BytesInvariance, PTL

(* Bytes that are kept, hashed or sent are those of the object as it is,    *)
(* with the footer their header announces, unless it changed while they     *)
(* were written (_setattr of binary.py).                                    *)
THEOREM KeptBytesAreCurrent == Spec => []BytesAreCurrent
<1>1. ASSUME BInv
      PROVE  BytesAreCurrent
  <2>1. TasksInv /\ BytesInv
    BY <1>1 DEF BInv, RInv
  <2>2. ASSUME NEW o \in Objects, NEW bytes \in {object[o].buffer, object[o].hash} \ {<<>>}
        PROVE  Current(o, bytes[1])
    BY <2>1 DEF BytesInv, KeptOK
  <2>3. ASSUME NEW t \in Tasks, Doing(t, "send")
        PROVE  Current(Head(agenda[t])[2], out[t][Head(agenda[t])[2]][1])
    <3>1. agenda[t] # <<>> /\ Head(agenda[t])[1] = "send"
      BY <2>1, <2>3, DoingHead
    <3> QED BY <2>1, <3>1 DEF BytesInv, SendOK
  <2> QED BY <2>2, <2>3 DEF BytesAreCurrent
<1> QED BY <1>1, BytesInvariance, PTL
=============================================================================
