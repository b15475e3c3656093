------------------------ MODULE RigActorStreamProofs ------------------------
(***************************************************************************)
(* What the rig actor may conclude from a reply.  A reply carries no       *)
(* number; the actor takes it for the oldest outstanding request it fits.  *)
(* For a rig that acknowledges every set and reports nothing on its own,   *)
(* the requests and replies in flight can be matched, in order, with       *)
(* outstanding requests of their kind (Stream).  The claim never comes     *)
(* behind the true one, so a reply that decides the command in service was *)
(* caused by one of its own attempts.                                      *)
(***************************************************************************)
EXTENDS RigActorProofs

Frames == {"ack", "nak", "on", "off"}

Sends == Operations \union {"session"}

\* The operation whose attempts are under way.
Serving ==
    IF pc \in {"drain", "write", "await"} THEN cur.op
    ELSE IF pc \in {"unkey", "unkeyAwait"} THEN "unkey" ELSE "none"

\* f takes what is in flight, replies first, to outstanding requests: in order and
\* kind by kind.  An attempt of the command in service carries its operation, and
\* was answered by one of the frames `told`.
Matching(f, out, rep, wr, op, told) ==
    /\ f \in [1..(Len(rep) + Len(wr)) -> 1..Len(out)]
    /\ \A i, j \in 1..(Len(rep) + Len(wr)) : i < j => f[i] < f[j]
    /\ \A k \in 1..Len(rep) : Fits(rep[k], out[f[k]]) /\ (out[f[k]].mine => rep[k] \in told)
    /\ \A k \in 1..Len(wr) :
          /\ out[f[Len(rep) + k]].kind = ReplyKind(wr[k])
          /\ out[f[Len(rep) + k]].mine => op \in {"none", wr[k]}

----------------------------------------------------------------------------
(* How a matching changes.                                                 *)

\* It remains one when the command in service stays or ends.
LEMMA MatchStays ==
    ASSUME NEW f, NEW out, NEW rep, NEW wr, NEW op, NEW op2, NEW told, NEW told2,
           Matching(f, out, rep, wr, op, told), op2 \in {op, "none"}, told \subseteq told2
    PROVE  Matching(f, out, rep, wr, op2, told2)
BY DEF Matching

\* When a command begins, no outstanding request is an attempt of it.
LEMMA MatchDisowned ==
    ASSUME NEW f, NEW out \in Seq(Entries), NEW rep \in Seq(Frames), NEW wr \in Seq(Sends),
           NEW op, NEW op2, NEW told, NEW told2,
           Matching(f, out, rep, wr, op, told)
    PROVE  Matching(f, [i \in DOMAIN out |-> [out[i] EXCEPT !.mine = FALSE]], rep, wr, op2, told2)
<1>. DEFINE new == [i \in DOMAIN out |-> [out[i] EXCEPT !.mine = FALSE]]
<1>1. Len(rep) \in Nat /\ Len(wr) \in Nat /\ Len(out) \in Nat /\ DOMAIN out = 1..Len(out)
  BY LenProperties
<1>2. \A i \in 1..Len(out) : out[i] \in Entries
  BY ElementOfSeq
<1>3. new \in Seq(Entries) /\ Len(new) = Len(out)
  <2>1. new \in [1..Len(out) -> Entries]
    BY <1>1, <1>2 DEF Entries
  <2>2. new \in Seq(Entries)
    BY <2>1, <1>1, SeqDef
  <2>. QED
    BY <2>1, <2>2, <1>1, LenProperties
<1>4. \A i \in 1..Len(out) : new[i].kind = out[i].kind /\ new[i].mine = FALSE
  BY <1>1, <1>2 DEF Entries
<1>5. \A i \in 1..Len(out), frame \in Frames : Fits(frame, out[i]) => Fits(frame, new[i])
  BY <1>4 DEF Fits
<1>6. \A k \in 1..Len(rep) : rep[k] \in Frames
  BY ElementOfSeq
<1>7. \A k \in 1..(Len(rep) + Len(wr)) : f[k] \in 1..Len(out)
  BY DEF Matching
<1>8. \A k \in 1..Len(rep) : k \in 1..(Len(rep) + Len(wr))
  BY <1>1
<1>9. \A k \in 1..Len(wr) : Len(rep) + k \in 1..(Len(rep) + Len(wr))
  BY <1>1
<1>. HIDE DEF new
<1>10. \A k \in 1..Len(rep) : Fits(rep[k], new[f[k]]) /\ new[f[k]].mine = FALSE
  BY <1>4, <1>5, <1>6, <1>7, <1>8 DEF Matching
<1>11. \A k \in 1..Len(wr) :
          new[f[Len(rep) + k]].kind = ReplyKind(wr[k]) /\ new[f[Len(rep) + k]].mine = FALSE
  BY <1>4, <1>7, <1>9 DEF Matching
<1>12. /\ f \in [1..(Len(rep) + Len(wr)) -> 1..Len(new)]
       /\ \A i, j \in 1..(Len(rep) + Len(wr)) : i < j => f[i] < f[j]
  BY <1>3 DEF Matching
<1>13. Matching(f, new, rep, wr, op2, told2)
  BY <1>10, <1>11, <1>12 DEF Matching
<1>. QED
  BY <1>13 DEF new

\* A request is written, and noted as outstanding; the stream may have lost it.
LEMMA MatchWritten ==
    ASSUME NEW f, NEW out \in Seq(Entries), NEW rep \in Seq(Frames), NEW wr \in Seq(Sends),
           NEW op, NEW told, NEW sent \in Sends, NEW e \in Entries,
           Matching(f, out, rep, wr, op, told),
           e.kind = ReplyKind(sent), op \in {"none", sent}
    PROVE  /\ Matching(f, Append(out, e), rep, wr, op, told)
           /\ \E g : Matching(g, Append(out, e), rep, Append(wr, sent), op, told)
<1>. DEFINE n == Len(rep) + Len(wr)
            out2 == Append(out, e)
            wr2 == Append(wr, sent)
            g == [k \in 1..(n + 1) |-> IF k = n + 1 THEN Len(out) + 1 ELSE f[k]]
<1>1. Len(rep) \in Nat /\ Len(wr) \in Nat /\ Len(out) \in Nat
  BY LenProperties
<1>2. /\ Len(out2) = Len(out) + 1 /\ out2[Len(out) + 1] = e
      /\ \A i \in 1..Len(out) : out2[i] = out[i]
  BY <1>1, AppendProperties
<1>3. /\ Len(wr2) = Len(wr) + 1 /\ wr2[Len(wr) + 1] = sent
      /\ \A k \in 1..Len(wr) : wr2[k] = wr[k]
  BY <1>1, AppendProperties
<1>4. /\ f \in [1..n -> 1..Len(out)]
      /\ \A i, j \in 1..n : i < j => f[i] < f[j]
  BY DEF Matching
<1>5. \A k \in 1..Len(rep) : k \in 1..n /\ f[k] \in 1..Len(out)
  <2>1. \A k \in 1..Len(rep) : k \in 1..n
    BY <1>1
  <2>. HIDE DEF n
  <2>. QED
    BY <2>1, <1>4
<1>6. \A k \in 1..Len(wr) : Len(rep) + k \in 1..n /\ f[Len(rep) + k] \in 1..Len(out)
  <2>1. \A k \in 1..Len(wr) : Len(rep) + k \in 1..n
    BY <1>1
  <2>. HIDE DEF n
  <2>. QED
    BY <2>1, <1>4
<1>7. \A k \in 1..Len(rep) : Fits(rep[k], out2[f[k]]) /\ (out2[f[k]].mine => rep[k] \in told)
  BY <1>2, <1>5 DEF Matching
<1>8. \A k \in 1..Len(wr) :
         /\ out2[f[Len(rep) + k]].kind = ReplyKind(wr[k])
         /\ out2[f[Len(rep) + k]].mine => op \in {"none", wr[k]}
  BY <1>2, <1>6 DEF Matching
<1>. HIDE DEF out2, wr2
<1>9. Matching(f, out2, rep, wr, op, told)
  <2>1. f \in [1..n -> 1..Len(out2)]
    BY <1>1, <1>2, <1>4
  <2>. QED
    BY <2>1, <1>4, <1>7, <1>8 DEF Matching
<1>10. n + 1 = Len(rep) + Len(wr2) /\ n \in Nat
  BY <1>1, <1>3
<1>11. /\ g \in [1..(n + 1) -> 1..Len(out2)] /\ g[n + 1] = Len(out) + 1
       /\ \A k \in 1..n : g[k] = f[k]
  BY <1>1, <1>2, <1>4, <1>10
<1>. HIDE DEF g
<1>12. \A i, j \in 1..(n + 1) : i < j => g[i] < g[j]
  <2>1. \A i \in 1..n : f[i] < Len(out) + 1
    BY <1>1, <1>4
  <2>. HIDE DEF n
  <2>2. \A i, j \in 1..(n + 1) : i < j => i \in 1..n /\ (j \in 1..n \/ j = n + 1)
    BY <1>10
  <2>. QED
    BY <2>1, <2>2, <1>4, <1>11
<1>13. \A k \in 1..Len(rep) : Fits(rep[k], out2[g[k]]) /\ (out2[g[k]].mine => rep[k] \in told)
  BY <1>5, <1>7, <1>11
<1>14. \A k \in 1..Len(wr2) :
          /\ out2[g[Len(rep) + k]].kind = ReplyKind(wr2[k])
          /\ out2[g[Len(rep) + k]].mine => op \in {"none", wr2[k]}
  <2>1. \A k \in 1..Len(wr2) : k \in 1..Len(wr) \/ k = Len(wr) + 1
    BY <1>1, <1>3
  <2>2. \A k \in 1..Len(wr) : g[Len(rep) + k] = f[Len(rep) + k]
    BY <1>6, <1>11
  <2>3. g[Len(rep) + (Len(wr) + 1)] = Len(out) + 1
    BY <1>1, <1>11
  <2>. QED
    BY <2>1, <2>2, <2>3, <1>2, <1>3, <1>8
<1>15. Matching(g, out2, rep, wr2, op, told)
  BY <1>10, <1>11, <1>12, <1>13, <1>14 DEF Matching
<1>. QED
  BY <1>9, <1>15 DEF out2, wr2

\* The requests in flight are lost.
LEMMA MatchCut ==
    ASSUME NEW f, NEW out \in Seq(Entries), NEW rep \in Seq(Frames), NEW wr \in Seq(Sends),
           NEW op, NEW told, Matching(f, out, rep, wr, op, told)
    PROVE  \E g : Matching(g, out, rep, <<>>, op, told)
<1>. DEFINE g == [k \in 1..Len(rep) |-> f[k]]
<1>1. Len(rep) \in Nat /\ Len(wr) \in Nat /\ Len(out) \in Nat /\ Len(<<>>) = 0
  BY LenProperties, EmptySeq
<1>2. 1..Len(rep) \subseteq 1..(Len(rep) + Len(wr)) /\ Len(rep) + Len(<<>>) = Len(rep)
  BY <1>1
<1>3. /\ g \in [1..Len(rep) -> 1..Len(out)] /\ \A k \in 1..Len(rep) : g[k] = f[k]
      /\ \A i, j \in 1..Len(rep) : i < j => g[i] < g[j]
  BY <1>1, <1>2 DEF Matching
<1>4. \A k \in 1..Len(rep) : Fits(rep[k], out[g[k]]) /\ (out[g[k]].mine => rep[k] \in told)
  BY <1>3 DEF Matching
<1>5. 1..Len(<<>>) = {}
  BY <1>1
<1>. HIDE DEF g
<1>6. Matching(g, out, rep, <<>>, op, told)
  BY <1>2, <1>3, <1>4, <1>5 DEF Matching
<1>. QED
  BY <1>6

\* Nothing in flight is matched whatever is outstanding.
LEMMA MatchNothing ==
    ASSUME NEW out, NEW op, NEW told
    PROVE  \E g : Matching(g, out, <<>>, <<>>, op, told)
<1>1. Len(<<>>) = 0
  BY EmptySeq
<1>2. 1..Len(<<>>) = {} /\ 1..(Len(<<>>) + Len(<<>>)) = {}
  BY <1>1
<1>3. Matching([k \in {} |-> 0], out, <<>>, <<>>, op, told)
  BY <1>2 DEF Matching
<1>. QED
  BY <1>3

\* What remains without one of the outstanding requests.
LEMMA WithoutValues ==
    ASSUME NEW out \in Seq(Entries), NEW i \in 1..Len(out)
    PROVE  /\ Without(out, i) \in Seq(Entries) /\ Len(Without(out, i)) = Len(out) - 1
           /\ \A j \in 1..(Len(out) - 1) :
                 Without(out, i)[j] = IF j < i THEN out[j] ELSE out[j + 1]
<1>. DEFINE front == SubSeq(out, 1, i - 1)
            back  == SubSeq(out, i + 1, Len(out))
<1>1. Len(out) \in Nat /\ DOMAIN out = 1..Len(out) /\ i \in 1..Len(out)
  BY LenProperties
<1>. i \in Int /\ Len(out) \in Int /\ 1 <= i /\ i <= Len(out)
  BY <1>1
<1>2. Without(out, i) = front \o back
  BY <1>1 DEF Without
<1>3. \A j \in 1..Len(out) : out[j] \in Entries
  BY ElementOfSeq
<1>4. /\ front \in Seq(Entries) /\ Len(front) = i - 1
      /\ \A j \in 1..(i - 1) : front[j] = out[j]
  <2>1. \A j \in 1..(i - 1) : out[j] \in Entries /\ 1 + j - 1 = j
    BY <1>1, <1>3
  <2>2. 1 \in Int /\ i - 1 \in Int /\ (i - 1) - 1 + 1 = i - 1
    BY <1>1
  <2>3. /\ front \in Seq(Entries) /\ Len(front) = IF 1 <= i - 1 THEN (i - 1) - 1 + 1 ELSE 0
        /\ \A j \in 1..((i - 1) - 1 + 1) : front[j] = out[1 + j - 1]
    BY <2>1, <2>2, SubSeqProperties
  <2>4. Len(front) = i - 1
    BY <1>1, <2>3
  <2>. HIDE DEF front
  <2>. QED
    BY <2>1, <2>2, <2>3, <2>4
<1>5. /\ back \in Seq(Entries) /\ Len(back) = Len(out) - i
      /\ \A j \in 1..(Len(out) - i) : back[j] = out[i + j]
  <2>1. \A j \in (i + 1)..Len(out) : out[j] \in Entries
    BY <1>1, <1>3
  <2>2. i + 1 \in Int /\ Len(out) \in Int /\ Len(out) - (i + 1) + 1 = Len(out) - i
    BY <1>1
  <2>3. /\ back \in Seq(Entries)
        /\ Len(back) = IF i + 1 <= Len(out) THEN Len(out) - (i + 1) + 1 ELSE 0
        /\ \A j \in 1..(Len(out) - (i + 1) + 1) : back[j] = out[(i + 1) + j - 1]
    BY <2>1, <2>2, SubSeqProperties
  <2>4. \A j \in 1..(Len(out) - i) : (i + 1) + j - 1 = i + j
    BY <1>1
  <2>. HIDE DEF back
  <2>5. Len(back) = IF i + 1 <= Len(out) THEN Len(out) - (i + 1) + 1 ELSE 0
    BY <2>3
  <2>6. Len(back) = Len(out) - i
    BY <2>5
  <2>. QED
    BY <2>2, <2>3, <2>4, <2>6
<1>. HIDE DEF front, back
<1>6. /\ front \o back \in Seq(Entries) /\ Len(front \o back) = Len(front) + Len(back)
      /\ \A j \in 1..(Len(front) + Len(back)) :
            (front \o back)[j] = IF j <= Len(front) THEN front[j] ELSE back[j - Len(front)]
  BY <1>4, <1>5, ConcatProperties
<1>7. Len(front) + Len(back) = Len(out) - 1
  BY <1>1, <1>4, <1>5
<1>8. \A j \in 1..(Len(out) - 1) :
         (front \o back)[j] = IF j < i THEN out[j] ELSE out[j + 1]
  <2>. TAKE j \in 1..(Len(out) - 1)
  <2>1. (front \o back)[j] = IF j <= i - 1 THEN front[j] ELSE back[j - (i - 1)]
    BY <1>4, <1>6, <1>7
  <2>2. CASE j < i
    <3>1. j \in 1..(i - 1) /\ j <= i - 1
      BY <1>1, <2>2
    <3>. QED
      BY <3>1, <2>1, <2>2, <1>4
  <2>3. CASE ~(j < i)
    <3>1. j - (i - 1) \in 1..(Len(out) - i) /\ ~(j <= i - 1) /\ i + (j - (i - 1)) = j + 1
      BY <1>1, <2>3
    <3>. QED
      BY <3>1, <2>1, <2>3, <1>5
  <2>. QED
    BY <2>2, <2>3
<1>. QED
  BY <1>2, <1>6, <1>7, <1>8

\* The first reply is read and claims a request, its own or an older one.
LEMMA MatchAbsorbed ==
    ASSUME NEW f, NEW out \in Seq(Entries), NEW rep \in Seq(Frames), NEW wr \in Seq(Sends),
           NEW op, NEW told, Matching(f, out, rep, wr, op, told), rep # <<>>,
           NEW i \in 1..Len(out), i <= f[1]
    PROVE  \E g : Matching(g, Without(out, i), Tail(rep), wr, op, told)
<1>. DEFINE n == Len(rep) + Len(wr)
            out2 == Without(out, i)
            rep2 == Tail(rep)
            g == [k \in 1..(n - 1) |-> f[k + 1] - 1]
<1>1. Len(rep) \in Nat \ {0} /\ Len(wr) \in Nat /\ Len(out) \in Nat /\ i \in 1..Len(out)
  BY LenProperties, EmptySeq
<1>2. /\ Len(out2) = Len(out) - 1
      /\ \A j \in 1..(Len(out) - 1) : out2[j] = IF j < i THEN out[j] ELSE out[j + 1]
  BY WithoutValues
<1>3. Len(rep2) = Len(rep) - 1 /\ \A k \in 1..Len(rep2) : rep2[k] = rep[k + 1]
  BY HeadTailProperties
<1>4. /\ f \in [1..n -> 1..Len(out)]
      /\ \A j, k \in 1..n : j < k => f[j] < f[k]
  BY DEF Matching
<1>5. n \in Nat \ {0} /\ Len(rep2) + Len(wr) = n - 1
  BY <1>1, <1>3
<1>6. \A k \in 1..(n - 1) : k + 1 \in 1..n /\ 1 \in 1..n /\ 1 < k + 1
  BY <1>5
<1>. HIDE DEF out2, rep2, n
<1>7. \A k \in 1..(n - 1) : f[k + 1] \in 1..Len(out) /\ f[1] \in 1..Len(out) /\ f[1] < f[k + 1]
  BY <1>4, <1>6
<1>8. \A k \in 1..(n - 1) :
         /\ g[k] = f[k + 1] - 1 /\ g[k] \in 1..(Len(out) - 1) /\ ~(g[k] < i)
         /\ g[k] + 1 = f[k + 1]
  BY <1>1, <1>7
<1>9. g \in [1..(n - 1) -> 1..Len(out2)]
  BY <1>2, <1>8
<1>. HIDE DEF g
<1>10. \A k \in 1..(n - 1) : out2[g[k]] = out[f[k + 1]]
  BY <1>2, <1>8
<1>11. \A j, k \in 1..(n - 1) : j < k => g[j] < g[k]
  <2>. SUFFICES ASSUME NEW j \in 1..(n - 1), NEW k \in 1..(n - 1), j < k
                PROVE  g[j] < g[k]
    OBVIOUS
  <2>1. j + 1 < k + 1
    BY <1>5
  <2>2. f[j + 1] < f[k + 1]
    BY <2>1, <1>4, <1>6
  <2>. QED
    BY <2>2, <1>7, <1>8
<1>12. \A k \in 1..Len(rep2) : Fits(rep2[k], out2[g[k]]) /\ (out2[g[k]].mine => rep2[k] \in told)
  <2>1. \A k \in 1..Len(rep2) : k \in 1..(n - 1) /\ k + 1 \in 1..Len(rep)
    BY <1>1, <1>3, <1>5
  <2>. QED
    BY <2>1, <1>3, <1>10 DEF Matching
<1>13. \A k \in 1..Len(wr) :
          /\ out2[g[Len(rep2) + k]].kind = ReplyKind(wr[k])
          /\ out2[g[Len(rep2) + k]].mine => op \in {"none", wr[k]}
  <2>1. \A k \in 1..Len(wr) :
           Len(rep2) + k \in 1..(n - 1) /\ (Len(rep2) + k) + 1 = Len(rep) + k
    BY <1>1, <1>3, <1>5
  <2>. QED
    BY <2>1, <1>10 DEF Matching
<1>14. Matching(g, out2, rep2, wr, op, told)
  BY <1>5, <1>9, <1>11, <1>12, <1>13 DEF Matching
<1>. QED
  BY <1>14 DEF out2, rep2

\* The rig takes the first request and says nothing.
LEMMA MatchSilent ==
    ASSUME NEW f, NEW out \in Seq(Entries), NEW rep \in Seq(Frames), NEW wr \in Seq(Sends),
           NEW op, NEW told, Matching(f, out, rep, wr, op, told), wr # <<>>
    PROVE  \E g : Matching(g, out, rep, Tail(wr), op, told)
<1>. DEFINE n == Len(rep) + Len(wr)
            wr2 == Tail(wr)
            g == [k \in 1..(n - 1) |-> IF k <= Len(rep) THEN f[k] ELSE f[k + 1]]
<1>1. Len(rep) \in Nat /\ Len(wr) \in Nat \ {0} /\ Len(out) \in Nat
  BY LenProperties, EmptySeq
<1>2. Len(wr2) = Len(wr) - 1 /\ \A k \in 1..Len(wr2) : wr2[k] = wr[k + 1]
  BY HeadTailProperties
<1>3. /\ f \in [1..n -> 1..Len(out)]
      /\ \A j, k \in 1..n : j < k => f[j] < f[k]
  BY DEF Matching
<1>4. n \in Nat \ {0} /\ Len(rep) + Len(wr2) = n - 1 /\ Len(rep) <= n - 1
  BY <1>1, <1>2
<1>. HIDE DEF wr2, n
<1>5. \A k \in 1..(n - 1) : k \in 1..n /\ k + 1 \in 1..n
  BY <1>4
<1>6. g \in [1..(n - 1) -> 1..Len(out)]
  BY <1>3, <1>5
<1>7. \A k \in 1..(n - 1) : g[k] = IF k <= Len(rep) THEN f[k] ELSE f[k + 1]
  OBVIOUS
<1>. HIDE DEF g
<1>8. \A j, k \in 1..(n - 1) : j < k => g[j] < g[k]
  <2>. SUFFICES ASSUME NEW j \in 1..(n - 1), NEW k \in 1..(n - 1), j < k
                PROVE  g[j] < g[k]
    OBVIOUS
  <2>1. j < k + 1 /\ j + 1 < k + 1 /\ (j <= Len(rep) \/ ~(k <= Len(rep)))
    BY <1>1, <1>4
  <2>2. f[j] < f[k] /\ f[j] < f[k + 1] /\ f[j + 1] < f[k + 1]
    BY <2>1, <1>3, <1>5
  <2>. QED
    BY <2>1, <2>2, <1>7
<1>9. \A k \in 1..Len(rep) : k \in 1..(n - 1) /\ g[k] = f[k]
  <2>1. \A k \in 1..Len(rep) : k \in 1..(n - 1) /\ k <= Len(rep)
    BY <1>1, <1>4
  <2>. QED
    BY <2>1, <1>7
<1>10. \A k \in 1..Len(rep) : Fits(rep[k], out[g[k]]) /\ (out[g[k]].mine => rep[k] \in told)
  BY <1>9 DEF Matching
<1>11. \A k \in 1..Len(wr2) :
          /\ out[g[Len(rep) + k]].kind = ReplyKind(wr2[k])
          /\ out[g[Len(rep) + k]].mine => op \in {"none", wr2[k]}
  <2>1. \A k \in 1..Len(wr2) :
           /\ Len(rep) + k \in 1..(n - 1) /\ ~(Len(rep) + k <= Len(rep))
           /\ (Len(rep) + k) + 1 = Len(rep) + (k + 1) /\ k + 1 \in 1..Len(wr)
    BY <1>1, <1>2, <1>4
  <2>2. \A k \in 1..Len(wr2) : g[Len(rep) + k] = f[Len(rep) + (k + 1)]
    BY <2>1, <1>7
  <2>. QED
    BY <2>1, <2>2, <1>2 DEF Matching
<1>12. Matching(g, out, rep, wr2, op, told)
  BY <1>4, <1>6, <1>8, <1>10, <1>11 DEF Matching
<1>. QED
  BY <1>12 DEF wr2

\* The rig takes the first request and replies to it.
LEMMA MatchReplied ==
    ASSUME NEW f, NEW out \in Seq(Entries), NEW rep \in Seq(Frames), NEW wr \in Seq(Sends),
           NEW op, NEW told, Matching(f, out, rep, wr, op, told), wr # <<>>,
           NEW frame \in Frames, Fits(frame, out[f[Len(rep) + 1]]),
           out[f[Len(rep) + 1]].mine => frame \in told
    PROVE  Matching(f, out, Append(rep, frame), Tail(wr), op, told)
<1>. DEFINE wr2 == Tail(wr)
            rep2 == Append(rep, frame)
<1>1. Len(rep) \in Nat /\ Len(wr) \in Nat \ {0} /\ Len(out) \in Nat
  BY LenProperties, EmptySeq
<1>2. Len(wr2) = Len(wr) - 1 /\ \A k \in 1..Len(wr2) : wr2[k] = wr[k + 1]
  BY HeadTailProperties
<1>3. /\ Len(rep2) = Len(rep) + 1 /\ rep2[Len(rep) + 1] = frame
      /\ \A k \in 1..Len(rep) : rep2[k] = rep[k]
  BY <1>1, AppendProperties
<1>. HIDE DEF wr2, rep2
<1>4. Len(rep2) + Len(wr2) = Len(rep) + Len(wr)
  BY <1>1, <1>2, <1>3
<1>5. \A k \in 1..Len(rep2) :
         Fits(rep2[k], out[f[k]]) /\ (out[f[k]].mine => rep2[k] \in told)
  <2>1. \A k \in 1..Len(rep2) : k \in 1..Len(rep) \/ k = Len(rep) + 1
    BY <1>1, <1>3
  <2>. QED
    BY <2>1, <1>3 DEF Matching
<1>6. \A k \in 1..Len(wr2) :
         /\ out[f[Len(rep2) + k]].kind = ReplyKind(wr2[k])
         /\ out[f[Len(rep2) + k]].mine => op \in {"none", wr2[k]}
  <2>1. \A k \in 1..Len(wr2) : Len(rep2) + k = Len(rep) + (k + 1) /\ k + 1 \in 1..Len(wr)
    BY <1>1, <1>2, <1>3
  <2>. QED
    BY <2>1, <1>2 DEF Matching
<1>7. Matching(f, out, rep2, wr2, op, told)
  BY <1>4, <1>5, <1>6 DEF Matching
<1>. QED
  BY <1>7 DEF wr2, rep2

\* Ahead of a request of an abandoned command there are only replies to such.
LEMMA MatchUntold ==
    ASSUME NEW f, NEW out \in Seq(Entries), NEW rep \in Seq(Frames), NEW wr \in Seq(Sends),
           NEW op, NEW told, NEW told2, Matching(f, out, rep, wr, op, told), wr # <<>>,
           \A i, j \in DOMAIN out : i < j /\ out[i].mine => out[j].mine,
           ~out[f[Len(rep) + 1]].mine
    PROVE  Matching(f, out, rep, wr, op, told2)
<1>1. Len(rep) \in Nat /\ Len(wr) \in Nat \ {0} /\ DOMAIN out = 1..Len(out)
  BY LenProperties, EmptySeq
<1>2. \A k \in 1..Len(rep) :
         /\ k \in 1..(Len(rep) + Len(wr)) /\ Len(rep) + 1 \in 1..(Len(rep) + Len(wr))
         /\ k < Len(rep) + 1
  BY <1>1
<1>3. \A k \in 1..Len(rep) :
         f[k] \in DOMAIN out /\ f[Len(rep) + 1] \in DOMAIN out /\ f[k] < f[Len(rep) + 1]
  BY <1>1, <1>2 DEF Matching
<1>4. \A k \in 1..Len(rep) : ~out[f[k]].mine
  BY <1>3
<1>. QED
  BY <1>4 DEF Matching

----------------------------------------------------------------------------
(* The stream and the requests outstanding on it.                          *)

\* An unkey that was executed: nothing since has put the rig on the air or taken
\* the port away unseen.
Cleared ==
    /\ ~aired
    /\ exposed => ~watch_seen \/ status # "Connected"
    /\ PanelMoves = 0 => tx = {}

\* What the command in service may have been answered: an unkey was acknowledged
\* only if the rig executed it.
Telling == IF Serving = "unkey" => Cleared THEN Frames ELSE Frames \ {"ack"}

\* Whatever is in flight has its request outstanding.
Stream == \E f : Matching(f, outstanding, replies, wire, Serving, Telling)

\* The attempts of the command in service are the latest requests ...
Ours ==
    \A i, j \in DOMAIN outstanding : i < j /\ outstanding[i].mine => outstanding[j].mine

\* ... and expect the reply it expects.
Kinds ==
    Serving # "none" =>
        \A i \in DOMAIN outstanding :
            outstanding[i].mine => outstanding[i].kind = ReplyKind(Serving)

Streaming == Stream /\ Ours /\ Kinds

StreamHas == outstanding \in Seq(Entries) /\ replies \in Seq(Frames) /\ wire \in Seq(Sends)

LEMMA StreamHasTypes == ASSUME RadioTypes PROVE StreamHas
BY DEF RadioTypes, StreamHas, Entries, Frames, Sends

\* The command in service stays or ends, and the stream is as it was.
SameServing ==
    /\ Serving' \in {Serving, "none"}
    /\ Serving' = "unkey" /\ Cleared => Cleared'

LEMMA TellingGrows ==
    ASSUME SameServing
    PROVE  Telling \subseteq Telling'
<1>1. CASE Serving' = "unkey"
  BY <1>1 DEF SameServing, Telling
<1>2. CASE Serving' # "unkey"
  BY <1>2 DEF Telling
<1>. QED
  BY <1>1, <1>2

LEMMA StreamKept ==
    ASSUME Streaming, SameServing, UNCHANGED wireVars
    PROVE  Streaming'
<1>1. PICK f : Matching(f, outstanding, replies, wire, Serving, Telling)
  BY DEF Streaming, Stream
<1>2. Matching(f, outstanding, replies, wire, Serving', Telling')
  BY <1>1, MatchStays, TellingGrows DEF SameServing
<1>3. Stream'
  BY <1>2 DEF Stream, wireVars
<1>4. Ours' /\ Kinds'
  BY DEF Streaming, Ours, Kinds, SameServing, wireVars
<1>. QED
  BY <1>3, <1>4 DEF Streaming

\* A command begins, or a fail-closed unkey.
LEMMA StreamBegins ==
    ASSUME StreamHas, Streaming, outstanding' = Disowned, UNCHANGED <<replies, wire>>
    PROVE  Streaming'
<1>1. PICK f : Matching(f, outstanding, replies, wire, Serving, Telling)
  BY DEF Streaming, Stream
<1>2. Matching(f, Disowned, replies, wire, Serving', Telling')
  BY <1>1, MatchDisowned DEF Disowned, StreamHas
<1>3. Stream'
  BY <1>2 DEF Stream
<1>4. DOMAIN outstanding' = DOMAIN outstanding /\ \A i \in DOMAIN outstanding : ~outstanding'[i].mine
  <2>1. \A i \in DOMAIN outstanding : outstanding[i] \in Entries
    BY ElementOfSeq, LenProperties DEF StreamHas
  <2>. QED
    BY <2>1 DEF Disowned, Entries
<1>5. Ours' /\ Kinds'
  BY <1>4 DEF Ours, Kinds
<1>. QED
  BY <1>3, <1>5 DEF Streaming

\* A set of positions has a first one: initial segments ordered by inclusion.
LEMMA FirstPosition ==
    ASSUME NEW n \in Nat, NEW T, T \subseteq 1..n, T # {}
    PROVE  \E x \in T : \A y \in T : x <= y
<1>. DEFINE segments == {1..x : x \in T}
<1>1. IsWellFoundedOn(StrictSubsetOrdering(1..n), FiniteSubsetsOf(1..n))
  BY FS_StrictSubsetOrderingWellFounded
<1>2. segments \subseteq FiniteSubsetsOf(1..n)
  <2>. SUFFICES ASSUME NEW x \in T
                PROVE  1..x \subseteq 1..n /\ IsFiniteSet(1..x)
    BY DEF FiniteSubsetsOf
  <2>1. x \in 1..n
    OBVIOUS
  <2>2. IsFiniteSet(1..x)
    BY <2>1, FS_Interval
  <2>. QED
    BY <2>1, <2>2
<1>3. segments # {}
  OBVIOUS
<1>4. PICK s \in segments : \A r \in segments : <<r, s>> \notin StrictSubsetOrdering(1..n)
  <2>. HIDE DEF segments
  <2>. QED
    BY <1>1, <1>2, <1>3, WFMin
<1>5. PICK x \in T : s = 1..x
  OBVIOUS
<1>6. ASSUME NEW y \in T
      PROVE  x <= y
  <2>1. x \in 1..n /\ y \in 1..n /\ 1..y \in segments
    OBVIOUS
  <2>2. ASSUME y < x
        PROVE  FALSE
    <3>1. 1..y \subseteq 1..x /\ x \in 1..x /\ x \notin 1..y
      BY <2>1, <2>2
    <3>2. 1..y \in SUBSET (1..n) /\ 1..x \in SUBSET (1..n) /\ 1..y # 1..x
      BY <2>1, <3>1
    <3>3. <<1..y, 1..x>> \in StrictSubsetOrdering(1..n)
      BY <3>1, <3>2 DEF StrictSubsetOrdering
    <3>. QED
      BY <3>3, <2>1, <1>4, <1>5
  <2>. QED
    BY <2>1, <2>2
<1>. QED
  BY <1>6

\* A frame that fits an outstanding request claims that one or an older one.
LEMMA ClaimIsOldest ==
    ASSUME StreamHas, NEW frame, NEW i \in DOMAIN outstanding, Fits(frame, outstanding[i])
    PROVE  /\ Claim(frame) \in DOMAIN outstanding /\ Claim(frame) \in 1..Len(outstanding)
           /\ Claim(frame) <= i /\ Fits(frame, outstanding[Claim(frame)])
<1>. DEFINE fitting == {j \in DOMAIN outstanding : Fits(frame, outstanding[j])}
<1>1. DOMAIN outstanding = 1..Len(outstanding) /\ Len(outstanding) \in Nat
  BY LenProperties DEF StreamHas
<1>2. fitting # {} /\ fitting \subseteq 1..Len(outstanding) /\ i \in fitting
  BY <1>1
<1>3. Claim(frame) = Oldest(fitting)
  BY <1>2 DEF Claim
<1>. HIDE DEF fitting
<1>4. \E x \in fitting : \A y \in fitting : x <= y
  BY <1>1, <1>2, FirstPosition
<1>5. Oldest(fitting) \in fitting /\ \A y \in fitting : Oldest(fitting) <= y
  BY <1>4 DEF Oldest
<1>6. Claim(frame) \in fitting /\ Claim(frame) <= i
  BY <1>2, <1>3, <1>5
<1>. QED
  BY <1>1, <1>2, <1>6 DEF fitting

\* The first reply claims a request no later than the one it answers; when it claims
\* an attempt of the command in service, every reply in flight answers one.
LEMMA FirstReply ==
    ASSUME StreamHas, replies # <<>>, NEW f, Ours,
           Matching(f, outstanding, replies, wire, Serving, Telling)
    PROVE  LET i == Claim(Head(replies)) IN
           /\ i \in 1..Len(outstanding) /\ i \in DOMAIN outstanding /\ i <= f[1]
           /\ Fits(Head(replies), outstanding[i])
           /\ Head(replies) = replies[1] /\ 1 \in 1..Len(replies)
           /\ outstanding[i].mine => \A k \in 1..Len(replies) :
                 f[k] \in DOMAIN outstanding /\ outstanding[f[k]].mine /\ replies[k] \in Telling
<1>. DEFINE i == Claim(Head(replies))
<1>1. /\ Len(replies) \in Nat \ {0} /\ Len(wire) \in Nat /\ Len(outstanding) \in Nat
      /\ DOMAIN outstanding = 1..Len(outstanding)
  BY LenProperties, EmptySeq DEF StreamHas
<1>2. 1 \in 1..Len(replies) /\ Head(replies) = replies[1]
  BY <1>1 DEF StreamHas
<1>3. \A k \in 1..Len(replies) : k \in 1..(Len(replies) + Len(wire)) /\ 1 <= k
  BY <1>1
<1>4. \A k \in 1..Len(replies) : f[k] \in 1..Len(outstanding) /\ (1 < k => f[1] < f[k])
  BY <1>2, <1>3 DEF Matching
<1>5. Fits(Head(replies), outstanding[f[1]]) /\ f[1] \in DOMAIN outstanding
  BY <1>1, <1>2, <1>4 DEF Matching
<1>6. /\ i \in DOMAIN outstanding /\ i \in 1..Len(outstanding)
      /\ i <= f[1] /\ Fits(Head(replies), outstanding[i])
  BY <1>5, ClaimIsOldest
<1>. HIDE DEF i
<1>7. ASSUME outstanding[i].mine, NEW k \in 1..Len(replies)
      PROVE  f[k] \in DOMAIN outstanding /\ outstanding[f[k]].mine /\ replies[k] \in Telling
  <2>1. f[k] \in DOMAIN outstanding /\ f[1] \in Nat /\ f[k] \in Nat /\ i \in Nat
    BY <1>1, <1>2, <1>4, <1>6
  <2>2. i < f[k] \/ i = f[k]
    <3>1. f[1] < f[k] \/ k = 1
      BY <1>3, <1>4
    <3>. QED
      BY <2>1, <3>1, <1>6
  <2>3. outstanding[f[k]].mine
    BY <2>1, <2>2, <1>6, <1>7 DEF Ours
  <2>. QED
    BY <2>1, <2>3 DEF Matching
<1>. QED
  BY <1>2, <1>6, <1>7 DEF i

\* An unkey in service that is decided by an acknowledgement was executed.
LEMMA UnkeyTold ==
    ASSUME StreamHas, Streaming, replies # <<>>, Serving = "unkey",
           NEW kind, Decides(Head(replies), kind) = "ok", Head(replies) = "ack"
    PROVE  Cleared
<1>1. PICK f : Matching(f, outstanding, replies, wire, Serving, Telling)
  BY DEF Streaming, Stream
<1>. DEFINE i == Claim(Head(replies))
<1>2. /\ i \in 1..Len(outstanding)
      /\ outstanding[i].mine => replies[1] \in Telling
      /\ Head(replies) = replies[1]
  BY <1>1, FirstReply DEF Streaming
<1>3. outstanding[i].mine
  <2>1. ~Stale(Head(replies))
    BY DEF Decides
  <2>2. i # 0
    BY <1>2, LenProperties DEF StreamHas
  <2>. QED
    BY <2>1, <2>2 DEF Stale
<1>4. "ack" \in Telling
  BY <1>2, <1>3
<1>. QED
  BY <1>4 DEF Telling, Frames

\* While a command that expects an acknowledgement is in service and the first reply
\* claims an attempt of it, no reply in flight reports the transmit state.
LEMMA OnlyDecisions ==
    ASSUME StreamHas, Streaming, replies # <<>>, Serving # "none",
           ReplyKind(Serving) = "ack",
           ~Stale(Head(replies))
    PROVE  \A k \in DOMAIN replies : replies[k] \in {"ack", "nak"}
<1>1. PICK f : Matching(f, outstanding, replies, wire, Serving, Telling)
  BY DEF Streaming, Stream
<1>. DEFINE i == Claim(Head(replies))
<1>2. /\ i \in 1..Len(outstanding)
      /\ outstanding[i].mine => \A k \in 1..Len(replies) :
                 f[k] \in DOMAIN outstanding /\ outstanding[f[k]].mine
  BY <1>1, FirstReply DEF Streaming
<1>3. outstanding[i].mine
  <2>1. i # 0
    BY <1>2, LenProperties DEF StreamHas
  <2>. QED
    BY <2>1 DEF Stale
<1>4. \A k \in 1..Len(replies) :
         outstanding[f[k]].kind = "ack" /\ Fits(replies[k], outstanding[f[k]]) /\ replies[k] \in Frames
  <2>1. \A k \in 1..Len(replies) : outstanding[f[k]].kind = "ack"
    BY <1>2, <1>3 DEF Streaming, Kinds
  <2>2. \A k \in 1..Len(replies) : replies[k] \in Frames
    BY ElementOfSeq DEF StreamHas
  <2>. QED
    BY <1>1, <2>1, <2>2 DEF Matching
<1>5. DOMAIN replies = 1..Len(replies)
  BY LenProperties DEF StreamHas
<1>. QED
  BY <1>4, <1>5 DEF Fits, Frames

\* The first reply is read.
LEMMA StreamAbsorbs ==
    ASSUME StreamHas, Streaming, replies # <<>>, Absorb(Head(replies)), UNCHANGED wire,
           SameServing
    PROVE  Streaming'
<1>1. PICK f : Matching(f, outstanding, replies, wire, Serving, Telling)
  BY DEF Streaming, Stream
<1>. DEFINE i == Claim(Head(replies))
<1>2. i \in 1..Len(outstanding) /\ i <= f[1]
  BY <1>1, FirstReply DEF Streaming
<1>3. outstanding' = Without(outstanding, i) /\ replies' = Tail(replies)
  BY DEF Absorb
<1>. HIDE DEF i
<1>4. PICK g : Matching(g, Without(outstanding, i), Tail(replies), wire, Serving, Telling)
  BY <1>1, <1>2, MatchAbsorbed DEF StreamHas
<1>5. Matching(g, outstanding', replies', wire', Serving', Telling')
  BY <1>3, <1>4, MatchStays, TellingGrows DEF SameServing
<1>6. Stream'
  BY <1>5 DEF Stream
<1>7. /\ Len(outstanding) \in Nat /\ DOMAIN outstanding = 1..Len(outstanding)
      /\ DOMAIN outstanding' = 1..(Len(outstanding) - 1)
      /\ \A j \in 1..(Len(outstanding) - 1) :
            outstanding'[j] = IF j < i THEN outstanding[j] ELSE outstanding[j + 1]
  <2>1. /\ Len(outstanding') = Len(outstanding) - 1 /\ outstanding' \in Seq(Entries)
        /\ \A j \in 1..(Len(outstanding) - 1) :
            outstanding'[j] = IF j < i THEN outstanding[j] ELSE outstanding[j + 1]
    BY <1>2, <1>3, WithoutValues DEF StreamHas
  <2>. QED
    BY <2>1, LenProperties DEF StreamHas
<1>8. Ours'
  <2>. SUFFICES ASSUME NEW j \in DOMAIN outstanding', NEW k \in DOMAIN outstanding',
                       j < k, outstanding'[j].mine
                PROVE  outstanding'[k].mine
    BY DEF Ours
  <2>1. /\ j \in 1..Len(outstanding) /\ j + 1 \in 1..Len(outstanding)
        /\ k \in 1..Len(outstanding) /\ k + 1 \in 1..Len(outstanding)
        /\ j < k + 1 /\ j + 1 < k + 1 /\ (j < i \/ ~(k < i))
    BY <1>2, <1>7
  <2>. QED
    BY <2>1, <1>7 DEF Streaming, Ours
<1>9. Kinds'
  <2>1. \A j \in DOMAIN outstanding' : \E k \in DOMAIN outstanding : outstanding'[j] = outstanding[k]
    <3>1. \A j \in 1..(Len(outstanding) - 1) :
             j \in 1..Len(outstanding) /\ j + 1 \in 1..Len(outstanding)
      BY <1>7
    <3>. QED
      BY <3>1, <1>7
  <2>. QED
    BY <2>1 DEF Streaming, Kinds, SameServing
<1>. QED
  BY <1>6, <1>8, <1>9 DEF Streaming

\* An attempt is written and noted.
LEMMA StreamWrites ==
    ASSUME StreamHas, Streaming, SameServing, Serving \in Sends, NEW kind,
           kind = ReplyKind(Serving), kind \in {"ack", "ptt"},
           outstanding' = NoteWritten(outstanding, kind), Written(Serving), UNCHANGED replies
    PROVE  Streaming'
<1>. DEFINE e == [kind |-> kind, mine |-> TRUE]
<1>1. e \in Entries /\ e.kind = kind /\ e.mine = TRUE
  BY DEF Entries
<1>2. outstanding' = Append(outstanding, e)
  BY DEF NoteWritten
<1>. HIDE DEF e
<1>3. PICK f : Matching(f, outstanding, replies, wire, Serving, Telling)
  BY DEF Streaming, Stream
<1>4. /\ Matching(f, Append(outstanding, e), replies, wire, Serving, Telling)
      /\ \E g : Matching(g, Append(outstanding, e), replies, Append(wire, Serving), Serving, Telling)
  BY <1>1, <1>3, MatchWritten DEF StreamHas
<1>5. \E g : Matching(g, outstanding', replies', wire', Serving, Telling)
  BY <1>2, <1>4 DEF Written
<1>6. Stream'
  BY <1>5, MatchStays, TellingGrows DEF Stream, SameServing
<1>7. /\ Len(outstanding) \in Nat /\ DOMAIN outstanding = 1..Len(outstanding)
      /\ DOMAIN outstanding' = 1..(Len(outstanding) + 1)
      /\ outstanding'[Len(outstanding) + 1] = e
      /\ \A j \in 1..Len(outstanding) : outstanding'[j] = outstanding[j]
  BY <1>1, <1>2, AppendProperties, LenProperties DEF StreamHas
<1>8. \A j \in DOMAIN outstanding' : j \in DOMAIN outstanding \/ j = Len(outstanding) + 1
  BY <1>7
<1>9. Ours'
  <2>. SUFFICES ASSUME NEW j \in DOMAIN outstanding', NEW k \in DOMAIN outstanding',
                       j < k, outstanding'[j].mine
                PROVE  outstanding'[k].mine
    BY DEF Ours
  <2>1. CASE k = Len(outstanding) + 1
    BY <2>1, <1>1, <1>7
  <2>2. CASE k # Len(outstanding) + 1
    <3>1. j \in DOMAIN outstanding /\ k \in DOMAIN outstanding
      BY <2>2, <1>7
    <3>. QED
      BY <3>1, <1>7 DEF Streaming, Ours
  <2>. QED
    BY <2>1, <2>2
<1>10. Kinds'
  BY <1>1, <1>7, <1>8 DEF Streaming, Kinds, SameServing
<1>. QED
  BY <1>6, <1>9, <1>10 DEF Streaming

\* A request of the session is written; it disowns the one before it.
LEMMA StreamSession ==
    ASSUME StreamHas, Streaming, Serving' = "none", SetReply = "ack",
           outstanding' = NoteWritten(Disowned, SetReply), Written("session"), UNCHANGED replies
    PROVE  Streaming'
<1>. DEFINE e == [kind |-> SetReply, mine |-> TRUE]
<1>1. e \in Entries /\ e.kind = SetReply /\ e.mine = TRUE
  BY DEF Entries
<1>2. outstanding' = Append(Disowned, e)
  BY DEF NoteWritten
<1>. HIDE DEF e
<1>3. PICK f : Matching(f, outstanding, replies, wire, Serving, Telling)
  BY DEF Streaming, Stream
<1>4. Matching(f, Disowned, replies, wire, "none", Telling')
  BY <1>3, MatchDisowned DEF Disowned, StreamHas
<1>5. Disowned \in Seq(Entries) /\ DOMAIN Disowned = DOMAIN outstanding
  BY DisownedType DEF StreamHas, Disowned
<1>6. "session" \in Sends /\ ReplyKind("session") = SetReply
  BY DEF Sends, ReplyKind
<1>7. /\ Matching(f, Append(Disowned, e), replies, wire, "none", Telling')
      /\ \E g : Matching(g, Append(Disowned, e), replies, Append(wire, "session"), "none", Telling')
  BY <1>1, <1>4, <1>5, <1>6, MatchWritten DEF StreamHas
<1>8. Stream'
  BY <1>2, <1>7 DEF Stream, Written
<1>9. /\ Len(Disowned) \in Nat /\ DOMAIN Disowned = 1..Len(Disowned)
      /\ DOMAIN outstanding' = 1..(Len(Disowned) + 1)
      /\ \A j \in 1..Len(Disowned) : outstanding'[j] = Disowned[j]
  BY <1>1, <1>2, <1>5, AppendProperties, LenProperties
<1>10. \A j \in DOMAIN outstanding' : outstanding'[j].mine => j = Len(Disowned) + 1
  <2>1. \A j \in DOMAIN outstanding : Disowned[j].mine = FALSE
    <3>1. \A j \in DOMAIN outstanding : outstanding[j] \in Entries
      BY ElementOfSeq, LenProperties DEF StreamHas
    <3>. QED
      BY <3>1 DEF Disowned, Entries
  <2>2. \A j \in DOMAIN outstanding' : j \in 1..Len(Disowned) \/ j = Len(Disowned) + 1
    BY <1>9
  <2>. QED
    BY <2>1, <2>2, <1>5, <1>9
<1>11. Ours'
  <2>. SUFFICES ASSUME NEW j \in DOMAIN outstanding', NEW k \in DOMAIN outstanding',
                       j < k, outstanding'[j].mine
                PROVE  FALSE
    BY DEF Ours
  <2>. QED
    BY <1>9, <1>10
<1>12. Kinds'
  BY DEF Kinds
<1>. QED
  BY <1>8, <1>11, <1>12 DEF Streaming

\* The requests in flight are lost.
LEMMA StreamCut ==
    ASSUME StreamHas, Streaming, SameServing, wire' = <<>>, UNCHANGED <<replies, outstanding>>
    PROVE  Streaming'
<1>1. PICK f : Matching(f, outstanding, replies, wire, Serving, Telling)
  BY DEF Streaming, Stream
<1>2. PICK g : Matching(g, outstanding, replies, <<>>, Serving, Telling)
  BY <1>1, MatchCut DEF StreamHas
<1>3. Matching(g, outstanding, replies, <<>>, Serving', Telling')
  BY <1>2, MatchStays, TellingGrows DEF SameServing
<1>4. Stream'
  BY <1>3 DEF Stream
<1>5. Ours' /\ Kinds'
  BY DEF Streaming, Ours, Kinds, SameServing
<1>. QED
  BY <1>4, <1>5 DEF Streaming

\* The window of the oldest request closes, with nothing in flight.
LEMMA StreamExpires ==
    ASSUME StreamHas, Streaming, Expire
    PROVE  Streaming'
<1>1. /\ outstanding # <<>> /\ outstanding' = Tail(outstanding)
      /\ wire' = <<>> /\ replies' = <<>>
  BY DEF Expire
<1>2. Serving' = Serving
  BY DEF Expire, Environment, Actors, taskVars, Serving
<1>3. Stream'
  BY <1>1, MatchNothing DEF Stream
<1>4. /\ Len(outstanding) \in Nat /\ DOMAIN outstanding = 1..Len(outstanding)
      /\ DOMAIN outstanding' = 1..(Len(outstanding) - 1)
      /\ \A j \in 1..(Len(outstanding) - 1) : outstanding'[j] = outstanding[j + 1]
  <2>1. /\ outstanding' \in Seq(Entries) /\ Len(outstanding') = Len(outstanding) - 1
        /\ \A j \in 1..Len(outstanding') : outstanding'[j] = outstanding[j + 1]
    BY <1>1, HeadTailProperties DEF StreamHas
  <2>. QED
    BY <2>1, LenProperties DEF StreamHas
<1>5. \A j \in DOMAIN outstanding' : j + 1 \in DOMAIN outstanding /\ j \in Nat
  BY <1>4
<1>6. Ours'
  <2>. SUFFICES ASSUME NEW j \in DOMAIN outstanding', NEW k \in DOMAIN outstanding',
                       j < k, outstanding'[j].mine
                PROVE  outstanding'[k].mine
    BY DEF Ours
  <2>1. j + 1 < k + 1
    BY <1>5
  <2>. QED
    BY <2>1, <1>4, <1>5 DEF Streaming, Ours
<1>7. Kinds'
  BY <1>2, <1>4, <1>5 DEF Streaming, Kinds
<1>. QED
  BY <1>3, <1>6, <1>7 DEF Streaming

\* aired is of a rig on the air.
AiredIsOn == aired => tx # {}

\* What the rig says of a request fits the entry it was noted under.
LEMMA AnswerFits ==
    ASSUME SetReply = "ack", NEW op \in Sends, NEW entry, entry.kind = ReplyKind(op)
    PROVE  /\ ReplyKind(op) # "none"
           /\ Answer(op) \in Frames /\ Fits(Answer(op), entry)
           /\ "nak" \in Frames /\ Fits("nak", entry)
BY DEF ReplyKind, Answer, Report, Fits, Frames

LEMMA ExecutedIsCleared ==
    ASSUME AiredIsOn, OnAir(Effect("unkey")), exposed' = (exposed /\ FALSE)
    PROVE  Cleared'
<1>1. tx' = {} /\ aired' = (aired /\ ~(tx # {}))
  BY DEF OnAir, Effect
<1>2. ~aired'
  BY <1>1 DEF AiredIsOn
<1>3. ~exposed'
  OBVIOUS
<1>. QED
  BY <1>1, <1>2, <1>3 DEF Cleared

\* The rig executes or refuses the request at the head, and answers or not.
LEMMA StreamExecutes ==
    ASSUME StreamHas, Streaming, AiredIsOn, SetReply = "ack", RigExecutes
    PROVE  Streaming'
<1>. DEFINE op == Head(wire)
            entry(f) == outstanding[f[Len(replies) + 1]]
<1>1. /\ wire # <<>> /\ wire' = Tail(wire) /\ outstanding' = outstanding
      /\ Serving' = Serving /\ watch_seen' = watch_seen /\ status' = status
  BY DEF RigExecutes, Environment, Actors, taskVars, portVars, Serving
<1>2. /\ Len(replies) \in Nat /\ Len(wire) \in Nat \ {0}
      /\ 1 \in 1..Len(wire) /\ op = wire[1] /\ op \in Sends
  BY <1>1, LenProperties, EmptySeq, HeadTailProperties DEF StreamHas
<1>3. PICK f : Matching(f, outstanding, replies, wire, Serving, Telling)
  BY DEF Streaming, Stream
<1>4. entry(f).kind = ReplyKind(op) /\ (entry(f).mine => Serving \in {"none", op})
  BY <1>2, <1>3 DEF Matching
<1>5. \/ replies' = replies
      \/ replies' = Append(replies, Answer(op)) /\ OnAir(Effect(op)) /\ exposed' = (exposed /\ op # "unkey")
      \/ replies' = Append(replies, "nak")
  BY <1>2, <1>4, AnswerFits DEF RigExecutes
<1>6. \/ OnAir(Effect(op)) /\ exposed' = (exposed /\ op # "unkey")
      \/ UNCHANGED <<tx, exposed, aired>>
  BY DEF RigExecutes, radioVars
<1>7. ASSUME ~entry(f).mine
      PROVE  Stream'
  <2>1. Matching(f, outstanding, replies, wire, Serving, Telling')
    BY <1>1, <1>3, <1>7, MatchUntold DEF StreamHas, Streaming, Ours
  <2>2. \E g : Matching(g, outstanding, replies', Tail(wire), Serving, Telling')
    <3>1. CASE replies' = replies
      BY <1>1, <2>1, <3>1, MatchSilent DEF StreamHas
    <3>2. CASE replies' = Append(replies, Answer(op))
      <4>1. Answer(op) \in Frames /\ Fits(Answer(op), entry(f))
        BY <1>2, <1>4, AnswerFits
      <4>2. Matching(f, outstanding, Append(replies, Answer(op)), Tail(wire), Serving, Telling')
        BY <1>1, <1>7, <2>1, <4>1, MatchReplied DEF StreamHas
      <4>. QED
        BY <4>2, <3>2
    <3>3. CASE replies' = Append(replies, "nak")
      <4>1. "nak" \in Frames /\ Fits("nak", entry(f))
        BY <1>2, <1>4, AnswerFits
      <4>2. Matching(f, outstanding, Append(replies, "nak"), Tail(wire), Serving, Telling')
        BY <1>1, <1>7, <2>1, <4>1, MatchReplied DEF StreamHas
      <4>. QED
        BY <4>2, <3>3
    <3>. QED
      BY <1>5, <3>1, <3>2, <3>3
  <2>. HIDE DEF op, entry
  <2>10. PICK g : Matching(g, outstanding, replies', Tail(wire), Serving, Telling')
    BY <2>2
  <2>11. Matching(g, outstanding', replies', wire', Serving', Telling')
    BY <1>1, <2>10
  <2>. QED
    BY <2>11 DEF Stream
<1>8. ASSUME entry(f).mine
      PROVE  Stream'
  <2>1. Serving = "unkey" => op = "unkey"
    BY <1>4, <1>8
  <2>2. Telling \subseteq Telling' /\ "nak" \in Telling'
    <3>1. CASE Serving # "unkey"
      BY <1>1, <3>1 DEF Telling, Frames
    <3>2. CASE Serving = "unkey" /\ OnAir(Effect(op)) /\ exposed' = (exposed /\ op # "unkey")
      <4>1. Cleared'
        BY <2>1, <3>2, ExecutedIsCleared
      <4>. QED
        BY <4>1 DEF Telling, Frames
    <3>3. CASE UNCHANGED <<tx, exposed, aired>>
      <4>1. Cleared' = Cleared
        BY <1>1, <3>3 DEF Cleared
      <4>. QED
        BY <1>1, <4>1 DEF Telling, Frames
    <3>. QED
      BY <1>6, <3>1, <3>2, <3>3
  <2>3. Matching(f, outstanding, replies, wire, Serving, Telling')
    BY <1>3, <2>2, MatchStays
  <2>4. \E g : Matching(g, outstanding, replies', Tail(wire), Serving, Telling')
    <3>1. CASE replies' = replies
      BY <1>1, <2>3, <3>1, MatchSilent DEF StreamHas
    <3>2. CASE /\ replies' = Append(replies, Answer(op))
               /\ OnAir(Effect(op)) /\ exposed' = (exposed /\ op # "unkey")
      <4>1. Answer(op) \in Frames /\ Fits(Answer(op), entry(f))
        BY <1>2, <1>4, AnswerFits
      <4>2. Telling' = Frames
        <5>1. CASE Serving # "unkey"
          BY <1>1, <5>1 DEF Telling
        <5>2. CASE Serving = "unkey"
          <6>1. Cleared'
            BY <2>1, <3>2, <5>2, ExecutedIsCleared
          <6>. QED
            BY <6>1 DEF Telling
        <5>. QED
          BY <5>1, <5>2
      <4>3. Matching(f, outstanding, Append(replies, Answer(op)), Tail(wire), Serving, Telling')
        BY <1>1, <2>3, <4>1, <4>2, MatchReplied DEF StreamHas
      <4>. QED
        BY <4>3, <3>2
    <3>3. CASE replies' = Append(replies, "nak")
      <4>1. "nak" \in Frames /\ Fits("nak", entry(f))
        BY <1>2, <1>4, AnswerFits
      <4>2. Matching(f, outstanding, Append(replies, "nak"), Tail(wire), Serving, Telling')
        BY <1>1, <2>2, <2>3, <4>1, MatchReplied DEF StreamHas
      <4>. QED
        BY <4>2, <3>3
    <3>. QED
      BY <1>5, <3>1, <3>2, <3>3
  <2>. HIDE DEF op, entry
  <2>10. PICK g : Matching(g, outstanding, replies', Tail(wire), Serving, Telling')
    BY <2>4
  <2>11. Matching(g, outstanding', replies', wire', Serving', Telling')
    BY <1>1, <2>10
  <2>. QED
    BY <2>11 DEF Stream
<1>9. Ours' /\ Kinds'
  BY <1>1 DEF Streaming, Ours, Kinds
<1>. QED
  BY <1>7, <1>8, <1>9 DEF Streaming

----------------------------------------------------------------------------
(* The steps of the actor leave the stream matched.                        *)

LEMMA ServingStays ==
    ASSUME UNCHANGED <<pc, cur>>
    PROVE  Serving' = Serving
BY DEF Serving

LEMMA ServingEnds ==
    ASSUME pc' \notin {"drain", "write", "await", "unkey", "unkeyAwait"}
    PROVE  SameServing /\ Serving' = "none"
BY DEF Serving, SameServing

LEMMA ServingSame ==
    ASSUME Serving' = Serving, UNCHANGED <<aired, exposed, watch_seen, status, tx>>
    PROVE  SameServing
BY DEF SameServing, Cleared

LEMMA CompleteStreams ==
    ASSUME NEW cmd, NEW result, NEW failed, Complete(cmd, result, failed)
    PROVE  SameServing
<1>1. pc' \in {"held", "select"}
  BY DEF Complete
<1>. QED
  BY <1>1, ServingEnds

LEMMA BeginStreams ==
    ASSUME StreamHas, Streaming, NEW cmd, Begin(cmd), UNCHANGED <<replies, wire>>
    PROVE  Streaming'
<1>1. CASE \E reason \in Refusals(cmd) : Complete(cmd, reason, FALSE) /\ UNCHANGED outstanding
  BY <1>1, CompleteStreams, StreamKept DEF wireVars
<1>2. CASE outstanding' = Disowned
  BY <1>2, StreamBegins
<1>. QED
  BY <1>1, <1>2 DEF Begin

LEMMA FailClosedStreams ==
    ASSUME StreamHas, Streaming, NEW next, FailClosed(next), UNCHANGED <<replies, wire>>
    PROVE  Streaming'
BY StreamBegins DEF FailClosed

LEMMA UnkeyDoneStreams ==
    ASSUME TaskTypes, NEW ok, UnkeyDone(ok)
    PROVE  SameServing
<1>1. CASE after = "timeout"
  <2>1. \E failed : Complete(cur, "Timeout", failed)
    BY <1>1 DEF UnkeyDone
  <2>. QED
    BY <2>1, CompleteStreams
<1>2. CASE after # "timeout"
  <2>1. pc' \in {"select", "session", "stopped"}
    BY <1>2 DEF UnkeyDone, TaskTypes
  <2>. QED
    BY <2>1, ServingEnds
<1>. QED
  BY <1>1, <1>2

\* Between commands.
LEMMA IdleStreams ==
    ASSUME StreamHas, TaskTypes, Streaming,
           \/ TakeEmergency \/ LinkStatusChanged \/ WatchdogFire \/ TakeNormal \/ ServeHeld
           \/ ReadIdle \/ LoseLinkIdle \/ PollOnce \/ Stop
    PROVE  Streaming'
<1>1. CASE TakeEmergency
  BY <1>1, BeginStreams DEF TakeEmergency
<1>2. CASE LinkStatusChanged
  <2>1. pc \in {"start", "select"} /\ UNCHANGED <<wire, replies>>
    BY <1>2 DEF LinkStatusChanged, Idle
  <2>2. FailClosed("restored") \/ (pc' \in {"start", "select", "session"} /\ UNCHANGED outstanding)
    <3>1. CASE status # "Connected"
      BY <3>1, <1>2 DEF LinkStatusChanged
    <3>2. CASE status = "Connected" /\ generation = link_generation
      BY <3>2, <2>1, <1>2 DEF LinkStatusChanged
    <3>3. CASE status = "Connected" /\ generation # link_generation
      BY <3>3, <1>2 DEF LinkStatusChanged
    <3>. QED
      BY <3>1, <3>2, <3>3
  <2>. QED
    BY <2>1, <2>2, FailClosedStreams, ServingEnds, StreamKept DEF wireVars
<1>3. CASE WatchdogFire
  BY <1>3, FailClosedStreams DEF WatchdogFire
<1>4. CASE TakeNormal
  <2>1. (Begin(Head(normal)) \/ outstanding' = Disowned) /\ UNCHANGED <<wire, replies>>
    BY <1>4 DEF TakeNormal
  <2>. QED
    BY <2>1, BeginStreams, StreamBegins
<1>5. CASE ServeHeld
  BY <1>5, BeginStreams DEF ServeHeld
<1>6. CASE ReadIdle
  <2>1. /\ replies # <<>> /\ Absorb(Head(replies)) /\ UNCHANGED wire /\ pc' = "select"
    BY <1>6 DEF ReadIdle, Idle, taskVars
  <2>. QED
    BY <2>1, ServingEnds, StreamAbsorbs
<1>7. CASE LoseLinkIdle
  <2>1. pc' = "select" /\ UNCHANGED wireVars
    BY <1>7 DEF LoseLinkIdle, Idle, taskVars
  <2>. QED
    BY <2>1, ServingEnds, StreamKept
<1>8. CASE PollOnce
  BY <1>8, BeginStreams DEF PollOnce
<1>9. CASE Stop
  <2>1. /\ UNCHANGED <<wire, replies>>
        /\ FailClosed("stopped") \/ (pc' = "stopped" /\ UNCHANGED outstanding)
    BY <1>9 DEF Stop
  <2>. QED
    BY <2>1, FailClosedStreams, ServingEnds, StreamKept DEF wireVars
<1>. QED
  BY <1>1, <1>2, <1>3, <1>4, <1>5, <1>6, <1>7, <1>8, <1>9

LEMMA LinkLostStreams ==
    ASSUME Streaming, LinkLost
    PROVE  Streaming'
<1>1. UNCHANGED wireVars /\ Complete(cur, "LinkDown", FALSE)
  BY DEF LinkLost
<1>. QED
  BY <1>1, CompleteStreams, StreamKept

LEMMA ServingCommand ==
    ASSUME CommandsAreReal, SetReply = "ack", pc \in {"drain", "write", "await"}
    PROVE  /\ Serving = cur.op /\ Serving \in Operations /\ Serving \in Sends
           /\ ReplyKind(Serving) \in {"ack", "ptt"}
<1>1. cur.op \in Operations
  BY DEF CommandsAreReal, Requests, Poll, Operations
<1>. QED
  BY <1>1 DEF Serving, Sends, ReplyKind

LEMMA WriteCommandStreams ==
    ASSUME StreamHas, CommandsAreReal, Streaming, SetReply = "ack",
           NEW expired \in BOOLEAN, WriteCommand(expired)
    PROVE  Streaming'
<1>1. /\ pc \in {"drain", "write"} /\ Written(cur.op) /\ UNCHANGED replies
      /\ outstanding' = NoteWritten(outstanding, ReplyKind(cur.op))
      /\ UNCHANGED <<watch_seen, status, tx, exposed>>
  BY DEF WriteCommand, linkVars, portVars, radioVars
<1>2. Serving = cur.op /\ Serving \in Sends /\ ReplyKind(Serving) \in {"ack", "ptt"}
  BY <1>1, ServingCommand
<1>3. pc' = "await" /\ UNCHANGED <<cur, aired>>
  BY <1>2 DEF WriteCommand
<1>4. Serving' = Serving
  BY <1>1, <1>3 DEF Serving
<1>5. SameServing
  BY <1>1, <1>3, <1>4, ServingSame
<1>. QED
  BY <1>1, <1>2, <1>5, StreamWrites

\* While a command is served.
LEMMA ServeStreams ==
    ASSUME StreamHas, CommandsAreReal, Streaming, SetReply = "ack",
           \/ Woken \/ DrainStale \/ LoseLinkServing
           \/ (\E expired \in BOOLEAN : WriteCommand(expired))
           \/ WriteTimesOut \/ AwaitReply \/ WatchdogPreempts \/ ReplyTimesOut
    PROVE  Streaming'
<1>1. CASE Woken
  <2>1. UNCHANGED wireVars /\ UNCHANGED <<watch_seen, status, tx, exposed>>
    BY <1>1 DEF Woken, linkVars, portVars, radioVars
  <2>2. Complete(cur, "Cancelled", FALSE) \/ UNCHANGED <<pc, cur, aired>>
    BY <1>1 DEF Woken
  <2>3. SameServing
    BY <2>1, <2>2, CompleteStreams, ServingStays, ServingSame
  <2>. QED
    BY <2>1, <2>3, StreamKept
<1>2. CASE DrainStale
  <2>1. /\ replies # <<>> /\ Absorb(Head(replies)) /\ UNCHANGED wire
        /\ UNCHANGED <<pc, cur, aired, watch_seen, status, tx, exposed>>
    BY <1>2 DEF DrainStale, taskVars, linkVars, portVars, radioVars
  <2>2. SameServing
    BY <2>1, ServingStays, ServingSame
  <2>. QED
    BY <2>1, <2>2, StreamAbsorbs
<1>3. CASE LoseLinkServing
  <2>1. LinkLost
    BY <1>3 DEF LoseLinkServing
  <2>. QED
    BY <2>1, LinkLostStreams
<1>4. CASE \E expired \in BOOLEAN : WriteCommand(expired)
  BY <1>4, WriteCommandStreams
<1>5. CASE WriteTimesOut
  <2>1. /\ UNCHANGED <<wire, replies>>
        /\ FailClosed("timeout") \/ (Complete(cur, "Timeout", FALSE) /\ UNCHANGED outstanding)
    BY <1>5 DEF WriteTimesOut
  <2>. QED
    BY <2>1, FailClosedStreams, CompleteStreams, StreamKept DEF wireVars
<1>6. CASE AwaitReply
  <2>1. /\ replies # <<>> /\ Absorb(Head(replies)) /\ UNCHANGED wire
        /\ UNCHANGED <<watch_seen, status, tx, exposed>>
    BY <1>6 DEF AwaitReply, linkVars, portVars, radioVars
  <2>2. \/ Complete(cur, Decides(Head(replies), ReplyKind(cur.op)), FALSE)
        \/ UNCHANGED <<pc, cur, aired>>
    BY <1>6 DEF AwaitReply
  <2>3. SameServing
    BY <2>1, <2>2, CompleteStreams, ServingStays, ServingSame
  <2>. QED
    BY <2>1, <2>3, StreamAbsorbs
<1>7. CASE WatchdogPreempts
  <2>1. UNCHANGED wireVars /\ Complete(cur, "Cancelled", FALSE)
    BY <1>7 DEF WatchdogPreempts
  <2>. QED
    BY <2>1, CompleteStreams, StreamKept
<1>8. CASE ReplyTimesOut
  <2>1. UNCHANGED <<wire, replies, watch_seen, status, tx, exposed>> /\ pc = "await"
    BY <1>8 DEF ReplyTimesOut, linkVars, portVars, radioVars
  <2>2. \/ pc' \in {"write", "drain"} /\ UNCHANGED <<cur, aired, outstanding>>
        \/ FailClosed("timeout")
        \/ Complete(cur, "Timeout", FALSE) /\ UNCHANGED outstanding
    BY <1>8 DEF ReplyTimesOut
  <2>3. CASE pc' \in {"write", "drain"} /\ UNCHANGED <<cur, aired, outstanding>>
    <3>1. Serving' = Serving
      BY <2>1, <2>3 DEF Serving
    <3>2. SameServing
      BY <2>1, <2>3, <3>1, ServingSame
    <3>. QED
      BY <2>1, <2>3, <3>2, StreamKept DEF wireVars
  <2>. QED
    BY <2>1, <2>2, <2>3, FailClosedStreams, CompleteStreams, StreamKept DEF wireVars
<1>. QED
  BY <1>1, <1>2, <1>3, <1>4, <1>5, <1>6, <1>7, <1>8

\* The fail-closed unkey, and the requests of a session.
LEMMA UnkeyStreams ==
    ASSUME StreamHas, TaskTypes, Streaming, SetReply = "ack",
           \/ WriteUnkey \/ UnkeyWriteFails \/ UnkeyAttemptFails \/ UnkeyAwait \/ UnkeyGivesUp
    PROVE  Streaming'
<1>1. CASE WriteUnkey
  <2>1. /\ Serving = "unkey" /\ Written("unkey") /\ UNCHANGED replies
        /\ outstanding' = NoteWritten(outstanding, SetReply)
        /\ pc' = "unkeyAwait" /\ UNCHANGED <<aired, watch_seen, status, tx, exposed>>
    BY <1>1 DEF WriteUnkey, UnkeyUnchanged, linkVars, portVars, radioVars, Serving
  <2>2. Serving' = Serving /\ Serving \in Sends /\ SetReply = ReplyKind(Serving)
    BY <2>1 DEF Serving, Sends, Operations, ReplyKind
  <2>3. SameServing
    BY <2>1, <2>2, ServingSame
  <2>. QED
    BY <2>1, <2>2, <2>3, StreamWrites
<1>2. CASE UnkeyWriteFails
  BY <1>2, UnkeyDoneStreams, StreamKept DEF UnkeyWriteFails
<1>3. CASE UnkeyAttemptFails
  <2>1. /\ Serving = "unkey" /\ pc' = "unkey"
        /\ UNCHANGED wireVars /\ UNCHANGED <<aired, watch_seen, status, tx, exposed>>
    BY <1>3 DEF UnkeyAttemptFails, NextUnkeyAttempt, UnkeyUnchanged, linkVars, portVars,
                radioVars, Serving
  <2>2. Serving' = Serving
    BY <2>1 DEF Serving
  <2>. QED
    BY <2>1, <2>2, ServingSame, StreamKept
<1>4. CASE UnkeyAwait
  <2>1. /\ replies # <<>> /\ Absorb(Head(replies)) /\ UNCHANGED wire /\ pc = "unkeyAwait"
        /\ UNCHANGED <<watch_seen, status, tx, exposed>>
    BY <1>4 DEF UnkeyAwait, UnkeyUnchanged, linkVars, portVars, radioVars
  <2>2. UnkeyDone(TRUE) \/ (UNCHANGED aired /\ (UNCHANGED <<pc, tries>> \/ NextUnkeyAttempt))
    BY <1>4 DEF UnkeyAwait
  <2>3. CASE UNCHANGED aired /\ (UNCHANGED <<pc, tries>> \/ NextUnkeyAttempt)
    <3>1. Serving' = Serving
      BY <2>1, <2>3 DEF Serving, NextUnkeyAttempt
    <3>. QED
      BY <2>1, <2>3, <3>1, ServingSame, StreamAbsorbs
  <2>. QED
    BY <2>1, <2>2, <2>3, UnkeyDoneStreams, StreamAbsorbs
<1>5. CASE UnkeyGivesUp
  BY <1>5, UnkeyDoneStreams, StreamKept DEF UnkeyGivesUp
<1>. QED
  BY <1>1, <1>2, <1>3, <1>4, <1>5

LEMMA SessionStreams ==
    ASSUME StreamHas, Streaming, SetReply = "ack", SessionStep \/ SessionAwait
    PROVE  Streaming'
<1>1. CASE SessionStep
  <2>1. UNCHANGED replies /\ pc' \in {"session", "sessionAwait", "select"}
    BY <1>1 DEF SessionStep
  <2>2. SameServing /\ Serving' = "none"
    BY <2>1, ServingEnds
  <2>3. \/ Written("session") /\ outstanding' = NoteWritten(Disowned, SetReply)
        \/ UNCHANGED <<wire, outstanding>>
    BY <1>1 DEF SessionStep
  <2>. QED
    BY <2>1, <2>2, <2>3, StreamSession, StreamKept DEF wireVars
<1>2. CASE SessionAwait
  <2>1. UNCHANGED wire /\ pc' \in {"session", "sessionAwait"}
    BY <1>2 DEF SessionAwait
  <2>2. SameServing /\ Serving' = "none"
    BY <2>1, ServingEnds
  <2>3. \/ replies # <<>> /\ Absorb(Head(replies))
        \/ UNCHANGED <<replies, outstanding>>
    BY <1>2 DEF SessionAwait
  <2>. QED
    BY <2>1, <2>2, <2>3, StreamAbsorbs, StreamKept DEF wireVars
<1>. QED
  BY <1>1, <1>2

\* The radio and the link.
LEMMA RadioStreams ==
    ASSUME StreamHas, LinkTypes, RadioTypes, Streaming, AiredIsOn, SetReply = "ack",
           ~Transceive \/ PanelMoves = 0, Radio \/ Link
    PROVE  Streaming'
<1>1. UNCHANGED <<pc, cur>> /\ Serving' = Serving
  <2>1. UNCHANGED <<pc, cur>>
    BY DEF Radio, Link, RigExecutes, CwEnds, FrontPanel, Expire, WatchdogLapses, StreamFails,
           PortLost, PortReopened, SupervisorCloses, Environment, Actors, taskVars
  <2>. QED
    BY <2>1, ServingStays
<1>2. CASE RigExecutes
  BY <1>2, StreamExecutes
<1>3. CASE CwEnds
  <2>1. /\ UNCHANGED wireVars /\ UNCHANGED <<watch_seen, status, exposed>>
        /\ "cw" \in tx /\ (aired' => aired)
    BY <1>3 DEF CwEnds, portVars, OnAir
  <2>2. Cleared => Cleared'
    BY <2>1 DEF Cleared
  <2>. QED
    BY <2>1, <2>2, <1>1, StreamKept DEF SameServing
<1>4. CASE FrontPanel
  <2>1. PanelMoves # 0 /\ ~Transceive
    BY <1>4, ConstantsAssumption DEF FrontPanel, LinkTypes, ConstantsAssumption
  <2>2. /\ UNCHANGED wireVars /\ UNCHANGED <<watch_seen, status, exposed>> /\ (aired' => aired)
    BY <1>4, <2>1 DEF FrontPanel, OnAir, wireVars
  <2>3. Cleared => Cleared'
    BY <2>1, <2>2 DEF Cleared
  <2>. QED
    BY <2>2, <2>3, <1>1, StreamKept DEF SameServing
<1>5. CASE Expire
  BY <1>5, StreamExpires
<1>6. CASE WatchdogLapses
  <2>1. UNCHANGED wireVars /\ UNCHANGED <<aired, exposed, watch_seen, status, tx>>
    BY <1>6 DEF WatchdogLapses, portVars, radioVars
  <2>. QED
    BY <2>1, <1>1, ServingSame, StreamKept
<1>7. CASE StreamFails
  <2>1. /\ wire' = <<>> /\ UNCHANGED <<replies, outstanding>>
        /\ UNCHANGED <<aired, exposed, watch_seen, status, tx>>
    BY <1>7 DEF StreamFails, radioVars
  <2>. QED
    BY <2>1, <1>1, ServingSame, StreamCut
<1>8. CASE PortLost
  <2>1. /\ wire' = <<>> /\ UNCHANGED <<replies, outstanding, aired, tx>>
        /\ status' = "Reconnecting"
    BY <1>8 DEF PortLost
  <2>2. Cleared => Cleared'
    BY <2>1 DEF Cleared
  <2>. QED
    BY <2>1, <2>2, <1>1, StreamCut DEF SameServing
<1>9. CASE PortReopened \/ SupervisorCloses
  <2>1. /\ UNCHANGED wireVars /\ UNCHANGED <<aired, exposed, tx>> /\ watch_seen' = FALSE
    BY <1>9 DEF PortReopened, SupervisorCloses, radioVars
  <2>2. Cleared => Cleared'
    BY <2>1 DEF Cleared
  <2>. QED
    BY <2>1, <2>2, <1>1, StreamKept DEF SameServing
<1>. QED
  BY <1>2, <1>3, <1>4, <1>5, <1>6, <1>7, <1>8, <1>9 DEF Radio, Link

\* The callers and the owner of the gate do not touch it.
LEMMA CallersStream ==
    ASSUME Streaming,
           (\E c \in Clients : Call(c) \/ SubmitStep(c)) \/ MoveGate \/ UNCHANGED vars
    PROVE  Streaming'
<1>1. UNCHANGED wireVars /\ UNCHANGED <<pc, cur, aired, exposed, watch_seen, status, tx>>
  BY DEF Call, Submit, SubmitEmergency, Submitting, SubmitStep, SendEmergency, WakeActor,
         FindEmergencyFull, Ride, InSubmit, MoveGate, vars, taskVars, linkVars, portVars, radioVars
<1>. QED
  BY <1>1, ServingStays, ServingSame, StreamKept

----------------------------------------------------------------------------
(* A rig on the air is watched.                                            *)

\* A rig that went off the air did so for every caller.
QuietNow == tx = {} => quiet = Clients

\* A report that the rig receives is older than whatever put it on the air.
OffIsOld == (\E i \in DOMAIN replies : replies[i] = "off") => ~aired

\* Whoever is on the air on an acknowledged command is watched.
Watched == aired => keyed_since # "off" \/ pc \in {"unkey", "unkeyAwait"} \/ "air" \in alarm

Airing == AiredIsOn /\ QuietNow /\ OffIsOld /\ Watched

LEMMA CompleteAir ==
    ASSUME SetReply = "ack", NEW cmd, NEW result, NEW failed, Complete(cmd, result, failed)
    PROVE  /\ aired' => aired \/ (Transmits(cmd.op) /\ result = "ok" /\ tx # {})
           /\ (result # "ok" \/ ~Transmits(cmd.op)) /\ "air" \in alarm => "air" \in alarm'
           /\ failed => "air" \in alarm'
           /\ pc' \in {"held", "select"}
<1>1. Transmits(cmd.op) => ReplyKind(cmd.op) = "ack"
  BY DEF Transmits, ReplyKind
<1>2. aired' = (aired \/ ((Transmits(cmd.op) /\ result = "ok") /\ (tx # {} \/ ReplyKind(cmd.op) = "none")))
  BY Zenon DEF Complete
<1>3. alarm' = IF failed \/ (IsUnkey(cmd.op) /\ result # "ok") THEN Failures
               ELSE IF Transmits(cmd.op) /\ result = "ok" THEN alarm \ {"air"} ELSE alarm
  BY DEF Complete
<1>4. pc' \in {"held", "select"}
  BY DEF Complete
<1>5. aired' => aired \/ (Transmits(cmd.op) /\ result = "ok" /\ tx # {})
  BY <1>1, <1>2
<1>6. (result # "ok" \/ ~Transmits(cmd.op)) /\ "air" \in alarm => "air" \in alarm'
  BY <1>3 DEF Failures
<1>7. failed => "air" \in alarm'
  BY <1>3 DEF Failures
<1>. QED
  BY <1>4, <1>5, <1>6, <1>7

\* A step of the actor that ends a command with anything but success, or ends none.
NoNews == (aired' => aired) /\ ("air" \in alarm => "air" \in alarm')

LEMMA RefusedAir ==
    ASSUME SetReply = "ack", NEW cmd, NEW result, NEW failed, result # "ok",
           Complete(cmd, result, failed)
    PROVE  NoNews /\ pc' \in {"held", "select"} /\ (failed => "air" \in alarm')
BY CompleteAir DEF NoNews

LEMMA EndedAir ==
    ASSUME SetReply = "ack", NEW cmd, NEW result, result # "ok" \/ ~Transmits(cmd.op),
           Complete(cmd, result, FALSE)
    PROVE  NoNews
<1>1. CASE result # "ok"
  BY <1>1, RefusedAir
<1>2. CASE ~Transmits(cmd.op)
  BY <1>2, CompleteAir, Zenon DEF NoNews
<1>. QED
  BY <1>1, <1>2

LEMMA BeginAir ==
    ASSUME SetReply = "ack", NEW cmd, Begin(cmd)
    PROVE  NoNews
<1>1. CASE \E reason \in Refusals(cmd) : Complete(cmd, reason, FALSE)
  <2>1. "ok" \notin Refusals(cmd)
    BY DEF Refusals
  <2>. QED
    BY <1>1, <2>1, RefusedAir
<1>2. CASE UNCHANGED <<callVars, aired, alarm>>
  BY <1>2 DEF NoNews
<1>. QED
  BY <1>1, <1>2 DEF Begin

\* What becomes of the watch when nothing new is acknowledged.
LEMMA WatchStays ==
    ASSUME Watched, NoNews,
           \/ pc' \in {"unkey", "unkeyAwait"} \/ "air" \in alarm'
           \/ pc \notin {"unkey", "unkeyAwait"} /\ (aired /\ keyed_since # "off" => keyed_since' # "off")
    PROVE  Watched'
BY DEF Watched, NoNews

\* A report arms the watchdog, or it is of a rig that is not on the air.
LEMMA ObservedStays ==
    ASSUME StreamHas, OffIsOld, replies # <<>>, ObserveFrame(Head(replies)), aired, keyed_since # "off"
    PROVE  keyed_since' # "off"
<1>1. 1 \in DOMAIN replies /\ Head(replies) = replies[1]
  BY LenProperties, EmptySeq DEF StreamHas
<1>2. Head(replies) # "off"
  BY <1>1 DEF OffIsOld
<1>3. CASE Head(replies) = "on"
  BY <1>3 DEF ObserveFrame, Observe, ArmWatchdog
<1>4. CASE Head(replies) \notin {"on", "off"}
  BY <1>4 DEF ObserveFrame, stateVars
<1>. QED
  BY <1>2, <1>3, <1>4

LEMMA IdleWatches ==
    ASSUME StreamHas, Airing, SetReply = "ack",
           \/ TakeEmergency \/ LinkStatusChanged \/ WatchdogFire \/ TakeNormal \/ ServeHeld
           \/ ReadIdle \/ LoseLinkIdle \/ PollOnce \/ Stop
    PROVE  NoNews /\ Watched'
<1>0. Watched
  BY DEF Airing
<1>1. CASE TakeEmergency
  <2>1. Begin(Head(emergency)) /\ pc \notin {"unkey", "unkeyAwait"} /\ UNCHANGED keyed_since
    BY <1>1 DEF TakeEmergency, Idle, stateVars
  <2>. QED
    BY <1>0, <2>1, BeginAir, WatchStays
<1>2. CASE LinkStatusChanged
  <2>1. pc \notin {"unkey", "unkeyAwait"} /\ UNCHANGED <<keyed_since, aired, alarm>>
    BY <1>2 DEF LinkStatusChanged, Idle, stateVars
  <2>2. NoNews
    BY <2>1 DEF NoNews
  <2>. QED
    BY <1>0, <2>1, <2>2, WatchStays
<1>3. CASE WatchdogFire
  <2>1. NoNews /\ pc' = "unkey"
    BY <1>3 DEF WatchdogFire, FailClosed, NoNews
  <2>. QED
    BY <1>0, <2>1, WatchStays
<1>4. CASE TakeNormal
  <2>1. pc \notin {"unkey", "unkeyAwait"} /\ UNCHANGED keyed_since
    BY <1>4 DEF TakeNormal, Idle, stateVars
  <2>2. Begin(Head(normal)) \/ UNCHANGED <<callVars, aired, alarm>>
    BY <1>4 DEF TakeNormal
  <2>3. NoNews
    BY <2>2, BeginAir DEF NoNews
  <2>. QED
    BY <1>0, <2>1, <2>3, WatchStays
<1>5. CASE ServeHeld
  <2>1. Begin(held) /\ pc \notin {"unkey", "unkeyAwait"} /\ UNCHANGED keyed_since
    BY <1>5 DEF ServeHeld, stateVars
  <2>. QED
    BY <1>0, <2>1, BeginAir, WatchStays
<1>6. CASE ReadIdle
  <2>1. /\ pc \notin {"unkey", "unkeyAwait"} /\ NoNews
        /\ replies # <<>> /\ ObserveFrame(Head(replies))
    BY <1>6 DEF ReadIdle, Idle, NoNews
  <2>2. aired /\ keyed_since # "off" => keyed_since' # "off"
    BY <2>1, ObservedStays DEF Airing
  <2>. QED
    BY <1>0, <2>1, <2>2, WatchStays
<1>7. CASE LoseLinkIdle
  <2>1. pc \notin {"unkey", "unkeyAwait"} /\ NoNews /\ UNCHANGED keyed_since
    BY <1>7 DEF LoseLinkIdle, Idle, NoNews, stateVars
  <2>. QED
    BY <1>0, <2>1, WatchStays
<1>8. CASE PollOnce
  <2>1. Begin(Poll) /\ pc \notin {"unkey", "unkeyAwait"} /\ UNCHANGED keyed_since
    BY <1>8 DEF PollOnce, Idle, stateVars
  <2>. QED
    BY <1>0, <2>1, BeginAir, WatchStays
<1>9. CASE Stop
  <2>1. pc \notin {"unkey", "unkeyAwait"} /\ NoNews /\ UNCHANGED keyed_since
    BY <1>9 DEF Stop, Idle, NoNews, stateVars
  <2>. QED
    BY <1>0, <2>1, WatchStays
<1>. QED
  BY <1>1, <1>2, <1>3, <1>4, <1>5, <1>6, <1>7, <1>8, <1>9

\* What the replies still unread report.
LEMMA OffStays ==
    ASSUME StreamHas, OffIsOld, aired' => aired,
           \/ UNCHANGED replies
           \/ replies # <<>> /\ Absorb(Head(replies))
    PROVE  OffIsOld'
<1>1. CASE UNCHANGED replies
  BY <1>1 DEF OffIsOld
<1>2. CASE replies # <<>> /\ Absorb(Head(replies))
  <2>1. /\ replies' = Tail(replies) /\ Len(replies) \in Nat \ {0}
        /\ DOMAIN replies = 1..Len(replies)
    BY <1>2, EmptySeq, LenProperties DEF Absorb, StreamHas
  <2>2. Len(replies') = Len(replies) - 1 /\ DOMAIN replies' = 1..(Len(replies) - 1)
    BY <1>2, <2>1, HeadTailProperties, LenProperties DEF StreamHas
  <2>3. ASSUME NEW i \in DOMAIN replies'
        PROVE  i + 1 \in DOMAIN replies /\ replies'[i] = replies[i + 1]
    <3>1. i \in 1..(Len(replies) - 1) /\ i + 1 \in 1..Len(replies)
      <4>1. i \in 1..(Len(replies) - 1)
        BY <2>2
      <4>2. Len(replies) \in Nat \ {0}
        BY <2>1
      <4>. QED
        BY <4>1, <4>2
    <3>2. Tail(replies)[i] = replies[i + 1]
      BY <1>2, <3>1, HeadTailProperties DEF StreamHas
    <3>. QED
      BY <2>1, <3>1, <3>2
  <2>. QED
    BY <2>3 DEF OffIsOld
<1>. QED
  BY <1>1, <1>2

\* A step of the actor that acknowledges nothing.
LEMMA AiringStays ==
    ASSUME StreamHas, Airing, aired' => aired, Watched', UNCHANGED <<tx, quiet>>,
           \/ UNCHANGED replies
           \/ replies # <<>> /\ Absorb(Head(replies))
    PROVE  Airing'
<1>1. OffIsOld'
  BY OffStays DEF Airing
<1>2. AiredIsOn' /\ QuietNow'
  BY DEF Airing, AiredIsOn, QuietNow
<1>. QED
  BY <1>1, <1>2 DEF Airing

\* Between commands.
LEMMA IdleAir ==
    ASSUME StreamHas, Airing, SetReply = "ack",
           \/ TakeEmergency \/ LinkStatusChanged \/ WatchdogFire \/ TakeNormal \/ ServeHeld
           \/ ReadIdle \/ LoseLinkIdle \/ PollOnce \/ Stop
    PROVE  Airing'
<1>1. NoNews /\ Watched'
  BY IdleWatches
<1>2. /\ UNCHANGED <<tx, quiet>>
      /\ \/ UNCHANGED replies
         \/ replies # <<>> /\ Absorb(Head(replies))
  <2>1. CASE ReadIdle
    BY <2>1 DEF ReadIdle, radioVars
  <2>2. CASE TakeEmergency \/ LinkStatusChanged \/ WatchdogFire \/ TakeNormal
    BY <2>2 DEF TakeEmergency, LinkStatusChanged, WatchdogFire, TakeNormal, radioVars
  <2>3. CASE ServeHeld \/ LoseLinkIdle \/ PollOnce \/ Stop
    BY <2>3 DEF ServeHeld, LoseLinkIdle, PollOnce, Stop, radioVars, wireVars
  <2>. QED
    BY <2>1, <2>2, <2>3
<1>. QED
  BY <1>1, <1>2, AiringStays DEF NoNews

\* The reply that decides a command.
LEMMA AwaitWatches ==
    ASSUME StreamHas, CommandsAreReal, Streaming, Airing, SetReply = "ack", AwaitReply
    PROVE  Airing'
<1>. DEFINE frame == Head(replies)
            outcome == Decides(frame, ReplyKind(cur.op))
<1>1. /\ pc = "await" /\ replies # <<>> /\ Absorb(frame) /\ UNCHANGED <<tx, quiet>>
      /\ IF outcome = "ok" /\ frame = "ack" THEN ApplySet(cur.op) ELSE ObserveFrame(frame)
      /\ \/ outcome = "none" /\ UNCHANGED <<aired, alarm>>
         \/ outcome # "none" /\ Complete(cur, outcome, FALSE)
  BY DEF AwaitReply, radioVars, callVars
<1>2. Serving = cur.op /\ Serving \in Operations /\ ReplyKind(Serving) \in {"ack", "ptt"}
  BY <1>1, ServingCommand
<1>3. Watched /\ AiredIsOn /\ OffIsOld /\ QuietNow /\ pc \notin {"unkey", "unkeyAwait"}
  BY <1>1 DEF Airing
<1>4. CASE outcome = "ok" /\ frame = "ack"
  <2>1. ReplyKind(cur.op) = "ack" /\ ~Stale(frame) /\ cur.op # "get"
    <3>1. ~Stale(frame) /\ ReplyKind(cur.op) # "ptt"
      BY <1>4 DEF Decides
    <3>2. ReplyKind(cur.op) = "ack"
      BY <1>2, <3>1
    <3>. QED
      BY <3>1, <3>2 DEF ReplyKind
  <2>2. CASE Transmits(cur.op)
    <3>1. \A k \in DOMAIN replies : replies[k] \in {"ack", "nak"}
      BY <1>1, <1>2, <2>1, OnlyDecisions DEF Operations
    <3>2. OffIsOld'
      <4>1. (\A k \in DOMAIN replies : replies[k] # "off") => \A k \in DOMAIN replies' : replies'[k] # "off"
        <5>1. ASSUME \A k \in DOMAIN replies : replies[k] # "off"
              PROVE  \A k \in DOMAIN Tail(replies) : Tail(replies)[k] # "off"
          <6>1. /\ Len(replies) \in Nat \ {0} /\ DOMAIN replies = 1..Len(replies)
                /\ DOMAIN Tail(replies) = 1..(Len(replies) - 1)
            BY <1>1, EmptySeq, LenProperties, HeadTailProperties DEF StreamHas
          <6>2. ASSUME NEW k \in DOMAIN Tail(replies)
                PROVE  k + 1 \in DOMAIN replies /\ Tail(replies)[k] = replies[k + 1]
            BY <1>1, <6>1, HeadTailProperties DEF StreamHas
          <6>. QED
            BY <5>1, <6>2
        <5>. QED
          BY <1>1, <5>1 DEF Absorb
      <4>. QED
        BY <3>1, <4>1 DEF OffIsOld
    <3>3. keyed_since' # "off"
      BY <1>1, <1>4, <2>2 DEF Transmits, ApplySet, Observe, ArmWatchdog
    <3>4. aired' => aired \/ tx # {}
      BY <1>1, <1>4, CompleteAir
    <3>. QED
      BY <1>1, <1>3, <3>2, <3>3, <3>4 DEF Airing, AiredIsOn, QuietNow, Watched
  <2>3. CASE cur.op = "unkey"
    <3>1. ~aired
      BY <1>1, <1>2, <1>4, <2>3, UnkeyTold DEF Cleared
    <3>2. aired' => aired
      BY <1>1, <1>4, <2>3, CompleteAir DEF Transmits
    <3>. QED
      BY <1>1, <3>1, <3>2, AiringStays DEF Watched
  <2>4. CASE ~Transmits(cur.op) /\ cur.op # "unkey"
    <3>1. UNCHANGED keyed_since
      BY <1>1, <1>4, <2>4 DEF Transmits, ApplySet, stateVars
    <3>2. NoNews
      BY <1>1, <1>4, <2>4, CompleteAir DEF NoNews
    <3>. QED
      BY <1>1, <1>3, <3>1, <3>2, WatchStays, AiringStays DEF NoNews
  <2>. QED
    BY <2>2, <2>3, <2>4
<1>5. CASE ~(outcome = "ok" /\ frame = "ack")
  <2>1. outcome = "ok" => ~Transmits(cur.op)
    <3>1. outcome = "ok" => ReplyKind(cur.op) = "ptt"
      BY <1>5 DEF Decides
    <3>. QED
      BY <3>1 DEF Transmits, ReplyKind
  <2>2. NoNews
    <3>. HIDE DEF outcome
    <3>1. CASE UNCHANGED <<aired, alarm>>
      BY <3>1 DEF NoNews
    <3>2. CASE Complete(cur, outcome, FALSE)
      <4>1. outcome # "ok" \/ ~Transmits(cur.op)
        BY <2>1
      <4>. QED
        BY <3>2, <4>1, EndedAir
    <3>. QED
      BY <1>1, <3>1, <3>2
  <2>3. ObserveFrame(Head(replies))
    BY <1>1, <1>5
  <2>4. aired /\ keyed_since # "off" => keyed_since' # "off"
    BY <1>1, <1>3, <2>3, ObservedStays
  <2>. QED
    BY <1>1, <1>3, <2>2, <2>4, WatchStays, AiringStays DEF NoNews
<1>. QED
  BY <1>4, <1>5

\* While a command is served.
LEMMA ServeWatches ==
    ASSUME StreamHas, CommandsAreReal, Streaming, Airing, SetReply = "ack",
           \/ Woken \/ DrainStale \/ LoseLinkServing
           \/ (\E expired \in BOOLEAN : WriteCommand(expired))
           \/ WriteTimesOut \/ AwaitReply \/ WatchdogPreempts \/ ReplyTimesOut
    PROVE  Airing'
<1>0. Watched
  BY DEF Airing
<1>1. ASSUME pc \in {"drain", "write", "await"}, UNCHANGED <<tx, quiet, replies, keyed_since>>, NoNews
      PROVE  Airing'
  <2>1. Watched'
    BY <1>0, <1>1, WatchStays
  <2>. QED
    BY <1>1, <2>1, AiringStays DEF NoNews
<1>2. ASSUME NEW result, result # "ok", Complete(cur, result, FALSE) \/ UNCHANGED <<aired, alarm>>
      PROVE  NoNews
  <2>1. CASE Complete(cur, result, FALSE)
    BY <1>2, <2>1, RefusedAir
  <2>2. CASE UNCHANGED <<aired, alarm>>
    BY <2>2 DEF NoNews
  <2>. QED
    BY <1>2, <2>1, <2>2
<1>3. CASE Woken
  <2>1. /\ pc \in {"drain", "write", "await"} /\ UNCHANGED <<tx, quiet, replies, keyed_since>>
        /\ Complete(cur, "Cancelled", FALSE) \/ UNCHANGED <<aired, alarm>>
    BY <1>3 DEF Woken, radioVars, wireVars, stateVars
  <2>2. NoNews
    BY <2>1, <1>2
  <2>. QED
    BY <2>1, <2>2, <1>1
<1>4. CASE DrainStale
  <2>1. /\ pc \notin {"unkey", "unkeyAwait"} /\ NoNews /\ UNCHANGED <<tx, quiet>>
        /\ replies # <<>> /\ Absorb(Head(replies)) /\ ObserveFrame(Head(replies))
    BY <1>4 DEF DrainStale, NoNews, radioVars
  <2>2. aired /\ keyed_since # "off" => keyed_since' # "off"
    BY <2>1, ObservedStays DEF Airing
  <2>3. Watched'
    BY <1>0, <2>1, <2>2, WatchStays
  <2>. QED
    BY <2>1, <2>3, AiringStays DEF NoNews
<1>5. CASE LoseLinkServing
  <2>1. /\ pc \in {"drain", "write", "await"} /\ UNCHANGED <<tx, quiet, replies, keyed_since>>
        /\ Complete(cur, "LinkDown", FALSE)
    BY <1>5 DEF LoseLinkServing, LinkLost, radioVars, wireVars, stateVars
  <2>. QED
    BY <2>1, <1>1, <1>2
<1>6. CASE \E expired \in BOOLEAN : WriteCommand(expired)
  <2>1. PICK expired \in BOOLEAN : WriteCommand(expired)
    BY <1>6
  <2>2. pc \in {"drain", "write", "await"} /\ UNCHANGED <<tx, quiet, replies>>
    BY <2>1 DEF WriteCommand, radioVars
  <2>3. ReplyKind(cur.op) # "none"
    BY <2>2, ServingCommand
  <2>4. UNCHANGED <<aired, alarm, keyed_since>>
    BY <2>1, <2>3 DEF WriteCommand, stateVars
  <2>. QED
    BY <2>2, <2>4, <1>1 DEF NoNews
<1>7. CASE WriteTimesOut
  <2>1. /\ pc \in {"drain", "write", "await"} /\ UNCHANGED <<tx, quiet, replies, keyed_since>>
        /\ Complete(cur, "Timeout", FALSE) \/ UNCHANGED <<aired, alarm>>
    BY <1>7 DEF WriteTimesOut, radioVars, stateVars
  <2>2. NoNews
    BY <2>1, <1>2
  <2>. QED
    BY <2>1, <2>2, <1>1
<1>8. CASE AwaitReply
  BY <1>8, AwaitWatches
<1>9. CASE WatchdogPreempts
  <2>1. /\ pc \in {"drain", "write", "await"} /\ UNCHANGED <<tx, quiet, replies, keyed_since>>
        /\ Complete(cur, "Cancelled", FALSE)
    BY <1>9 DEF WatchdogPreempts, radioVars, wireVars, stateVars
  <2>. QED
    BY <2>1, <1>1, <1>2
<1>10. CASE ReplyTimesOut
  <2>1. /\ pc \in {"drain", "write", "await"} /\ UNCHANGED <<tx, quiet, replies, keyed_since>>
        /\ Complete(cur, "Timeout", FALSE) \/ UNCHANGED <<aired, alarm>>
    BY <1>10 DEF ReplyTimesOut, radioVars, stateVars
  <2>2. NoNews
    BY <2>1, <1>2
  <2>. QED
    BY <2>1, <2>2, <1>1
<1>. QED
  BY <1>3, <1>4, <1>5, <1>6, <1>7, <1>8, <1>9, <1>10

\* The end of a fail-closed unkey: the rig was unkeyed, or the failure is reported.
LEMMA UnkeyDoneAir ==
    ASSUME TaskTypes, SetReply = "ack", NEW ok \in BOOLEAN, UnkeyDone(ok)
    PROVE  (aired' => aired) /\ (~ok => alarm' = Failures)
<1>1. CASE after = "timeout"
  <2>1. Complete(cur, "Timeout", ~ok)
    BY <1>1 DEF UnkeyDone
  <2>2. aired' => aired
    BY <2>1, CompleteAir
  <2>3. ~ok => alarm' = Failures
    BY <2>1 DEF Complete
  <2>. QED
    BY <2>2, <2>3
<1>2. CASE after # "timeout"
  BY <1>2 DEF UnkeyDone, callVars
<1>. QED
  BY <1>1, <1>2

LEMMA UnkeyWatches ==
    ASSUME StreamHas, TaskTypes, Streaming, Airing, SetReply = "ack",
           \/ WriteUnkey \/ UnkeyWriteFails \/ UnkeyAttemptFails \/ UnkeyAwait \/ UnkeyGivesUp
    PROVE  Airing'
<1>0. Watched
  BY DEF Airing
<1>1. ASSUME UnkeyDone(FALSE), UNCHANGED <<tx, quiet, replies>>
      PROVE  Airing'
  <2>1. (aired' => aired) /\ alarm' = Failures
    BY <1>1, UnkeyDoneAir
  <2>2. Watched'
    BY <2>1 DEF Watched, Failures
  <2>. QED
    BY <1>1, <2>1, <2>2, AiringStays
<1>2. CASE WriteUnkey
  <2>1. UNCHANGED <<tx, quiet, replies, aired>> /\ pc' = "unkeyAwait"
    BY <1>2 DEF WriteUnkey, UnkeyUnchanged, radioVars
  <2>. QED
    BY <2>1, AiringStays DEF Watched
<1>3. CASE UnkeyWriteFails
  BY <1>1, <1>3 DEF UnkeyWriteFails, UnkeyUnchanged, radioVars, wireVars
<1>4. CASE UnkeyAttemptFails
  <2>1. UNCHANGED <<tx, quiet, replies, aired>> /\ pc' = "unkey"
    BY <1>4 DEF UnkeyAttemptFails, UnkeyUnchanged, radioVars, wireVars, NextUnkeyAttempt
  <2>. QED
    BY <2>1, AiringStays DEF Watched
<1>5. CASE UnkeyAwait
  <2>. DEFINE outcome == Decides(Head(replies), SetReply)
  <2>1. /\ pc = "unkeyAwait" /\ replies # <<>> /\ Absorb(Head(replies))
        /\ UNCHANGED <<tx, quiet>> /\ Serving = "unkey"
    BY <1>5 DEF UnkeyAwait, UnkeyUnchanged, radioVars, Serving
  <2>2. CASE outcome = "ok" /\ UnkeyDone(TRUE)
    <3>1. Head(replies) = "ack"
      BY <2>2 DEF Decides
    <3>2. ~aired
      BY <2>1, <2>2, <3>1, UnkeyTold DEF Cleared
    <3>3. ~aired'
      BY <2>2, <3>2, UnkeyDoneAir
    <3>. QED
      BY <2>1, <3>3, AiringStays DEF Watched
  <2>3. CASE ~(outcome = "ok" /\ UnkeyDone(TRUE))
    <3>1. UNCHANGED aired /\ pc' \in {"unkey", "unkeyAwait"}
      BY <1>5, <2>1, <2>3 DEF UnkeyAwait, NextUnkeyAttempt
    <3>. QED
      BY <2>1, <3>1, AiringStays DEF Watched
  <2>. QED
    BY <2>2, <2>3
<1>6. CASE UnkeyGivesUp
  BY <1>1, <1>6 DEF UnkeyGivesUp, UnkeyUnchanged, radioVars, wireVars
<1>. QED
  BY <1>2, <1>3, <1>4, <1>5, <1>6

\* The requests of a session.
LEMMA SessionWatches ==
    ASSUME StreamHas, Airing, SessionStep \/ SessionAwait
    PROVE  Airing'
<1>1. /\ UNCHANGED <<tx, quiet, aired, alarm>> /\ pc \notin {"unkey", "unkeyAwait"}
      /\ \/ UNCHANGED <<replies, keyed_since>>
         \/ replies # <<>> /\ Absorb(Head(replies)) /\ ObserveFrame(Head(replies))
  BY DEF SessionStep, SessionAwait, SessionUnchanged, UnkeyUnchanged, radioVars, stateVars
<1>2. aired /\ keyed_since # "off" => keyed_since' # "off"
  BY <1>1, ObservedStays DEF Airing
<1>3. Watched'
  BY <1>1, <1>2, WatchStays DEF Airing, NoNews
<1>. QED
  BY <1>1, <1>3, AiringStays

\* The rig sends a frame, if it sends any.
LEMMA OffSent ==
    ASSUME RadioTypes, OffIsOld, aired' => aired, NEW frame, frame = "off" => ~aired',
           replies' = replies \/ replies' = Append(replies, frame)
    PROVE  OffIsOld'
<1>1. CASE replies' = replies
  BY <1>1 DEF OffIsOld
<1>2. CASE replies' = Append(replies, frame)
  <2>1. /\ DOMAIN replies' = 1..(Len(replies) + 1) /\ DOMAIN replies = 1..Len(replies)
        /\ \A i \in 1..Len(replies) : replies'[i] = replies[i]
        /\ replies'[Len(replies) + 1] = frame /\ Len(replies) \in Nat
    BY <1>2, AppendProperties, LenProperties DEF RadioTypes
  <2>2. \A i \in DOMAIN replies' : (i \in DOMAIN replies /\ replies'[i] = replies[i]) \/ replies'[i] = frame
    BY <2>1
  <2>. QED
    BY <2>2 DEF OffIsOld
<1>. QED
  BY <1>1, <1>2

\* The rig goes on the air or off it, and may report what it did.
LEMMA OnAirWatches ==
    ASSUME RadioTypes, Airing, NEW new, OnAir(new), UNCHANGED <<keyed_since, pc, alarm>>,
           NEW frame, frame = "off" => new = {},
           replies' = replies \/ replies' = Append(replies, frame)
    PROVE  Airing'
<1>1. tx' = new /\ (aired' => aired /\ ~(tx # {} /\ new = {}))
  BY DEF OnAir
<1>2. AiredIsOn'
  BY <1>1 DEF Airing, AiredIsOn
<1>3. QuietNow'
  BY DEF OnAir, QuietNow
<1>4. OffIsOld'
  <2>1. frame = "off" => ~aired'
    BY <1>1, <1>2 DEF AiredIsOn
  <2>. QED
    BY <1>1, <2>1, OffSent DEF Airing
<1>5. Watched'
  BY <1>1 DEF Airing, Watched
<1>. QED
  BY <1>2, <1>3, <1>4, <1>5 DEF Airing

\* The radio and the link.
LEMMA RadioWatches ==
    ASSUME StreamHas, RadioTypes, Airing, SetReply = "ack", Radio \/ Link
    PROVE  Airing'
<1>1. CASE RigExecutes
  <2>. DEFINE op == Head(wire)
  <2>1. UNCHANGED <<keyed_since, pc, alarm>>
    BY <1>1 DEF RigExecutes, stateVars, Environment, Actors, taskVars
  <2>2. ASSUME OnAir(Effect(op)), replies' = replies \/ replies' = Append(replies, Answer(op))
        PROVE  Airing'
    <3>1. Answer(op) = "off" => Effect(op) = {}
      BY DEF Answer, Report
    <3>. QED
      BY <2>1, <2>2, <3>1, OnAirWatches
  <2>3. ASSUME UNCHANGED radioVars, UNCHANGED aired, replies' = replies \/ replies' = Append(replies, "nak")
        PROVE  Airing'
    <3>. DEFINE frame == "nak"
    <3>1. OffIsOld'
      <4>1. /\ aired' => aired
            /\ frame = "off" => ~aired'
            /\ replies' = replies \/ replies' = Append(replies, frame)
        BY <2>3
      <4>. HIDE DEF frame
      <4>. QED
        BY <4>1, OffSent DEF Airing
    <3>. QED
      BY <2>1, <2>3, <3>1 DEF Airing, AiredIsOn, QuietNow, Watched, radioVars
  <2>4. \/ OnAir(Effect(op)) /\ (replies' = replies \/ replies' = Append(replies, Answer(op)))
        \/ UNCHANGED radioVars /\ UNCHANGED aired /\ (replies' = replies \/ replies' = Append(replies, "nak"))
    BY <1>1 DEF RigExecutes
  <2>. HIDE DEF op
  <2>. QED
    BY <2>2, <2>3, <2>4
<1>2. CASE CwEnds
  <2>1. OnAir(tx \ {"cw"}) /\ UNCHANGED <<keyed_since, pc, alarm>> /\ replies' = replies
    BY <1>2 DEF CwEnds, stateVars, Environment, Actors, taskVars, wireVars
  <2>. QED
    BY <2>1, OnAirWatches
<1>3. CASE FrontPanel
  <2>1. PICK on \in BOOLEAN :
            /\ OnAir(IF on THEN tx \union {"ptt"} ELSE {})
            /\ replies' = replies \/ replies' = Append(replies, Report(on))
    BY <1>3 DEF FrontPanel
  <2>2. UNCHANGED <<keyed_since, pc, alarm>>
    BY <1>3 DEF FrontPanel, stateVars, Environment, Actors, taskVars
  <2>3. Report(on) = "off" => (IF on THEN tx \union {"ptt"} ELSE {}) = {}
    BY DEF Report
  <2>. QED
    BY <2>1, <2>2, <2>3, OnAirWatches
<1>4. CASE Expire \/ WatchdogLapses \/ StreamFails \/ PortLost \/ PortReopened \/ SupervisorCloses
  <2>1. /\ UNCHANGED <<tx, quiet, replies, aired, pc>>
        /\ "air" \in alarm => "air" \in alarm'
        /\ keyed_since # "off" => keyed_since' # "off"
    BY <1>4 DEF Expire, WatchdogLapses, StreamFails, PortLost, PortReopened, SupervisorCloses,
                stateVars, Environment, Actors, taskVars, radioVars, wireVars
  <2>2. Watched'
    BY <2>1 DEF Airing, Watched
  <2>. QED
    BY <2>1, <2>2, AiringStays
<1>. QED
  BY <1>1, <1>2, <1>3, <1>4 DEF Radio, Link

\* The callers: a request of a rig that is off the air finds it so.
LEMMA CallersWatch ==
    ASSUME StreamHas, Airing, RadioTypes,
           (\E c \in Clients : Call(c) \/ SubmitStep(c)) \/ MoveGate \/ UNCHANGED vars
    PROVE  Airing'
<1>1. /\ UNCHANGED <<tx, replies, aired, pc, keyed_since, alarm>>
      /\ tx = {} /\ quiet = Clients => quiet' = Clients
  <2>1. CASE \E c \in Clients : Call(c)
    <3>1. PICK c \in Clients, op \in ClientOps : Submitting(c, op)
      BY <2>1 DEF Call, Submit, SubmitEmergency
    <3>. QED
      BY <3>1 DEF Submitting, taskVars, stateVars, wireVars
  <2>2. CASE (\E c \in Clients : SubmitStep(c)) \/ MoveGate \/ UNCHANGED vars
    BY <2>2 DEF SubmitStep, SendEmergency, WakeActor, FindEmergencyFull, Ride, InSubmit, MoveGate,
                vars, taskVars, stateVars, wireVars, radioVars
  <2>. QED
    BY <2>1, <2>2
<1>. QED
  BY <1>1 DEF Airing, AiredIsOn, QuietNow, OffIsOld, Watched

----------------------------------------------------------------------------
(* A port that came back has its rig unkeyed.                              *)

\* Which opens of the port the actor has seen.
Generations ==
    /\ generation >= 1 /\ link_generation <= generation
    /\ exposed => link_generation # 0
    /\ ~watch_seen /\ status = "Connected" => generation # link_generation
    /\ pc = "start" => link_generation = 0

\* An exposed rig whose port is back is being unkeyed, or its failure was reported.
Restored ==
    exposed /\ watch_seen /\ link_up /\ status = "Connected" =>
        pc \in {"unkey", "unkeyAwait"} \/ "port" \in alarm

\* A step of the actor that does not look at the watch.
PortKept ==
    /\ UNCHANGED <<generation, link_generation, watch_seen, status, exposed>>
    /\ link_up' => link_up
    /\ "port" \in alarm => "port" \in alarm'
    /\ pc' # "start"

LEMMA PortStays ==
    ASSUME Generations, Restored, PortKept,
           \/ pc \notin {"unkey", "unkeyAwait"} \/ pc' \in {"unkey", "unkeyAwait"}
           \/ alarm' = Failures \/ Cleared
    PROVE  Generations' /\ Restored'
<1>1. Generations'
  BY DEF Generations, PortKept
<1>2. Restored'
  BY DEF Restored, PortKept, Cleared, Failures
<1>. QED
  BY <1>1, <1>2

LEMMA CompletePort ==
    ASSUME NEW cmd, NEW result, NEW failed, Complete(cmd, result, failed)
    PROVE  ("port" \in alarm => "port" \in alarm') /\ pc' \in {"held", "select"}
BY DEF Complete, Failures

LEMMA BeginPort ==
    ASSUME NEW cmd, Begin(cmd)
    PROVE  ("port" \in alarm => "port" \in alarm') /\ pc' # "start"
<1>1. CASE \E reason \in Refusals(cmd) : Complete(cmd, reason, FALSE)
  BY <1>1, CompletePort
<1>2. CASE /\ pc' = IF IsEmergency(cmd.op) THEN "write" ELSE "drain"
           /\ UNCHANGED <<callVars, aired, alarm>>
  BY <1>2
<1>. QED
  BY <1>1, <1>2 DEF Begin

\* The actor looks at the watch: it unkeys, or there is nothing to unkey.
LEMMA WatchRestores ==
    ASSUME LinkTypes, Generations, Restored, LinkStatusChanged
    PROVE  Generations' /\ Restored'
<1>1. /\ pc \in {"start", "select"} /\ (pc = "start" \/ ~watch_seen)
      /\ watch_seen' = TRUE /\ UNCHANGED <<generation, status, exposed, alarm>>
  BY DEF LinkStatusChanged, Idle, portVars, radioVars
<1>2. CASE status # "Connected"
  <2>1. link_generation' = link_generation /\ pc' = "select"
    BY <1>2 DEF LinkStatusChanged
  <2>. QED
    BY <1>1, <1>2, <2>1 DEF Generations, Restored
<1>3. CASE status = "Connected" /\ generation = link_generation
  BY <1>1, <1>3 DEF Generations, LinkTypes
<1>4. CASE status = "Connected" /\ generation # link_generation
  <2>1. link_generation' = generation /\ link_up' = TRUE
    BY <1>4 DEF LinkStatusChanged
  <2>2. \/ NothingToUnkey /\ pc' \in {"session", "select"}
        \/ pc' = "unkey"
    BY <1>4 DEF LinkStatusChanged, FailClosed
  <2>3. Generations'
    BY <1>1, <2>1, <2>2 DEF Generations, LinkTypes
  <2>4. Restored'
    BY <1>1, <2>2 DEF Restored, Generations, NothingToUnkey
  <2>. QED
    BY <2>3, <2>4
<1>. QED
  BY <1>2, <1>3, <1>4

LEMMA IdleRestores ==
    ASSUME LinkTypes, Generations, Restored,
           \/ TakeEmergency \/ LinkStatusChanged \/ WatchdogFire \/ TakeNormal \/ ServeHeld
           \/ ReadIdle \/ LoseLinkIdle \/ PollOnce \/ Stop
    PROVE  Generations' /\ Restored'
<1>1. CASE LinkStatusChanged
  BY <1>1, WatchRestores
<1>2. CASE TakeEmergency \/ ServeHeld \/ PollOnce
  <2>1. /\ (\E cmd : Begin(cmd)) /\ pc \in {"select", "held"}
        /\ UNCHANGED <<linkVars, portVars, radioVars>>
    BY <1>2 DEF TakeEmergency, ServeHeld, PollOnce, Idle
  <2>2. ("port" \in alarm => "port" \in alarm') /\ pc' # "start"
    BY <2>1, BeginPort
  <2>3. PortKept
    BY <2>1, <2>2 DEF PortKept, linkVars, portVars, radioVars
  <2>. QED
    BY <2>1, <2>3, PortStays
<1>3. CASE TakeNormal
  <2>1. /\ Begin(Head(normal)) \/ (pc' = "drain" /\ UNCHANGED <<callVars, aired, alarm>>)
        /\ pc = "select" /\ UNCHANGED <<linkVars, portVars, radioVars>>
    BY <1>3 DEF TakeNormal, Idle
  <2>2. ("port" \in alarm => "port" \in alarm') /\ pc' # "start"
    BY <2>1, BeginPort
  <2>3. PortKept
    BY <2>1, <2>2 DEF PortKept, linkVars, portVars, radioVars
  <2>. QED
    BY <2>1, <2>3, PortStays
<1>4. CASE WatchdogFire \/ ReadIdle \/ LoseLinkIdle \/ Stop
  <2>1. PortKept /\ pc = "select"
    BY <1>4 DEF WatchdogFire, ReadIdle, LoseLinkIdle, Stop, Idle, FailClosed, PortKept, taskVars,
                linkVars, portVars, radioVars
  <2>. QED
    BY <2>1, PortStays
<1>. QED
  BY <1>1, <1>2, <1>3, <1>4

LEMMA ServeRestores ==
    ASSUME Generations, Restored,
           \/ Woken \/ DrainStale \/ LoseLinkServing
           \/ (\E expired \in BOOLEAN : WriteCommand(expired))
           \/ WriteTimesOut \/ AwaitReply \/ WatchdogPreempts \/ ReplyTimesOut
    PROVE  Generations' /\ Restored'
<1>1. /\ UNCHANGED <<generation, link_generation, watch_seen, status, exposed>>
      /\ link_up' => link_up
      /\ pc \in {"drain", "write", "await"}
  <2>1. CASE LoseLinkServing
    BY <2>1 DEF LoseLinkServing, LinkLost, portVars, radioVars
  <2>2. CASE \E expired \in BOOLEAN : WriteCommand(expired)
    BY <2>2 DEF WriteCommand, linkVars, portVars, radioVars
  <2>3. CASE Woken
    BY <2>3 DEF Woken, linkVars, portVars, radioVars
  <2>4. CASE DrainStale
    BY <2>4 DEF DrainStale, linkVars, portVars, radioVars
  <2>5. CASE WriteTimesOut
    BY <2>5 DEF WriteTimesOut, linkVars, portVars, radioVars
  <2>6. CASE AwaitReply
    BY <2>6 DEF AwaitReply, linkVars, portVars, radioVars
  <2>7. CASE WatchdogPreempts
    BY <2>7 DEF WatchdogPreempts, linkVars, portVars, radioVars
  <2>8. CASE ReplyTimesOut
    BY <2>8 DEF ReplyTimesOut, linkVars, portVars, radioVars
  <2>. QED
    BY <2>1, <2>2, <2>3, <2>4, <2>5, <2>6, <2>7, <2>8
<1>2. \/ \E result, failed : Complete(cur, result, failed)
      \/ pc' \in {"drain", "write", "await", "unkey"} /\ UNCHANGED alarm
  <2>1. CASE Woken \/ DrainStale \/ LoseLinkServing \/ WatchdogPreempts
    BY <1>1, <2>1 DEF Woken, DrainStale, LoseLinkServing, LinkLost, WatchdogPreempts, taskVars
  <2>2. CASE \E expired \in BOOLEAN : WriteCommand(expired)
    BY <2>2 DEF WriteCommand
  <2>3. CASE WriteTimesOut \/ AwaitReply \/ ReplyTimesOut
    BY <1>1, <2>3 DEF WriteTimesOut, AwaitReply, ReplyTimesOut, FailClosed
  <2>. QED
    BY <2>1, <2>2, <2>3
<1>3. ("port" \in alarm => "port" \in alarm') /\ pc' # "start"
  BY <1>2, CompletePort
<1>4. PortKept
  BY <1>1, <1>3 DEF PortKept
<1>. QED
  BY <1>1, <1>4, PortStays

LEMMA UnkeyRestores ==
    ASSUME StreamHas, TaskTypes, Streaming, SetReply = "ack", Generations, Restored,
           \/ WriteUnkey \/ UnkeyWriteFails \/ UnkeyAttemptFails \/ UnkeyAwait \/ UnkeyGivesUp
    PROVE  Generations' /\ Restored'
<1>1. /\ UNCHANGED <<generation, link_generation, watch_seen, status, exposed>>
      /\ link_up' => link_up
  <2>1. CASE UnkeyWriteFails
    BY <2>1 DEF UnkeyWriteFails, UnkeyUnchanged, portVars, radioVars
  <2>2. CASE WriteUnkey \/ UnkeyAttemptFails
    BY <2>2 DEF WriteUnkey, UnkeyAttemptFails, UnkeyUnchanged, linkVars, portVars, radioVars
  <2>3. CASE UnkeyAwait
    BY <2>3 DEF UnkeyAwait, UnkeyUnchanged, linkVars, portVars, radioVars
  <2>4. CASE UnkeyGivesUp
    BY <2>4 DEF UnkeyGivesUp, UnkeyUnchanged, linkVars, portVars, radioVars
  <2>. QED
    BY <2>1, <2>2, <2>3, <2>4
<1>2. \/ pc' \in {"unkey", "unkeyAwait"} /\ UNCHANGED alarm
      \/ UnkeyDone(FALSE)
      \/ UnkeyDone(TRUE) /\ Cleared
  <2>1. CASE WriteUnkey \/ UnkeyWriteFails \/ UnkeyAttemptFails \/ UnkeyGivesUp
    BY <2>1 DEF WriteUnkey, UnkeyWriteFails, UnkeyAttemptFails, UnkeyGivesUp, NextUnkeyAttempt
  <2>2. CASE UnkeyAwait
    <3>. DEFINE outcome == Decides(Head(replies), SetReply)
    <3>1. pc = "unkeyAwait" /\ replies # <<>> /\ Serving = "unkey"
      BY <2>2 DEF UnkeyAwait, Serving
    <3>2. CASE outcome = "ok" /\ UnkeyDone(TRUE)
      <4>1. Head(replies) = "ack"
        BY <3>2 DEF Decides
      <4>. QED
        BY <3>1, <3>2, <4>1, UnkeyTold
    <3>3. CASE ~(outcome = "ok" /\ UnkeyDone(TRUE))
      BY <2>2, <3>1, <3>3 DEF UnkeyAwait, NextUnkeyAttempt
    <3>. QED
      BY <3>2, <3>3
  <2>. QED
    BY <2>1, <2>2
<1>3. ASSUME NEW ok \in BOOLEAN, UnkeyDone(ok)
      PROVE  ("port" \in alarm => "port" \in alarm') /\ pc' # "start"
  <2>1. CASE after = "timeout"
    <3>1. Complete(cur, "Timeout", ~ok)
      BY <1>3, <2>1 DEF UnkeyDone
    <3>. QED
      BY <3>1, CompletePort
  <2>2. CASE after # "timeout"
    BY <1>3, <2>2 DEF UnkeyDone, TaskTypes, Failures
  <2>. QED
    BY <2>1, <2>2
<1>4. PortKept
  <2>1. ("port" \in alarm => "port" \in alarm') /\ pc' # "start"
    BY <1>2, <1>3
  <2>. QED
    BY <1>1, <2>1 DEF PortKept
<1>5. UnkeyDone(FALSE) => alarm' = Failures
  BY UnkeyDoneAir
<1>. QED
  BY <1>2, <1>4, <1>5, PortStays

LEMMA SessionRestores ==
    ASSUME Generations, Restored, SessionStep \/ SessionAwait
    PROVE  Generations' /\ Restored'
<1>1. PortKept /\ pc \in {"session", "sessionAwait"}
  BY DEF SessionStep, SessionAwait, SessionUnchanged, UnkeyUnchanged, PortKept, linkVars, portVars,
         radioVars
<1>. QED
  BY <1>1, PortStays

\* The radio and the link.
LEMMA RadioRestores ==
    ASSUME LinkTypes, Generations, Restored, Radio \/ Link
    PROVE  Generations' /\ Restored'
<1>1. UNCHANGED <<pc, link_up, link_generation>>
  BY DEF Radio, Link, RigExecutes, CwEnds, FrontPanel, Expire, WatchdogLapses, StreamFails,
         PortLost, PortReopened, SupervisorCloses, Environment, Actors, taskVars
<1>2. CASE RigExecutes \/ CwEnds \/ FrontPanel \/ Expire \/ WatchdogLapses \/ StreamFails
  <2>1. UNCHANGED <<generation, watch_seen, status, alarm>> /\ (exposed' => exposed)
    <3>1. CASE RigExecutes
      <4>1. UNCHANGED <<generation, watch_seen, status, alarm>>
        BY <3>1 DEF RigExecutes, Environment, portVars
      <4>2. exposed' = exposed \/ exposed' = (exposed /\ Head(wire) # "unkey")
        BY <3>1 DEF RigExecutes, radioVars
      <4>3. exposed' => exposed
        BY <4>2, Zenon
      <4>. QED
        BY <4>1, <4>3
    <3>2. CASE CwEnds \/ FrontPanel \/ Expire \/ WatchdogLapses \/ StreamFails
      BY <3>2 DEF CwEnds, FrontPanel, Expire, WatchdogLapses, StreamFails, Environment, portVars,
                  radioVars
    <3>. QED
      BY <1>2, <3>1, <3>2
  <2>. QED
    BY <1>1, <2>1 DEF Generations, Restored
<1>3. CASE PortLost
  <2>1. /\ status' = "Reconnecting" /\ generation' = generation /\ watch_seen' = FALSE
        /\ exposed' = (link_generation # 0)
    BY <1>3 DEF PortLost
  <2>. QED
    BY <1>1, <2>1 DEF Generations, Restored
<1>4. CASE PortReopened
  <2>1. watch_seen' = FALSE /\ generation' = generation + 1 /\ exposed' = exposed
    BY <1>4 DEF PortReopened, radioVars
  <2>. QED
    BY <1>1, <2>1 DEF Generations, Restored, LinkTypes
<1>5. CASE SupervisorCloses
  <2>1. status' = "Closed" /\ watch_seen' = FALSE /\ UNCHANGED <<generation, exposed>>
    BY <1>5 DEF SupervisorCloses, radioVars
  <2>. QED
    BY <1>1, <2>1 DEF Generations, Restored
<1>. QED
  BY <1>2, <1>3, <1>4, <1>5 DEF Radio, Link

LEMMA CallersRestore ==
    ASSUME Generations, Restored,
           (\E c \in Clients : Call(c) \/ SubmitStep(c)) \/ MoveGate \/ UNCHANGED vars
    PROVE  Generations' /\ Restored'
<1>1. UNCHANGED <<generation, link_generation, watch_seen, status, exposed, link_up, alarm, pc>>
  BY DEF Call, Submit, SubmitEmergency, Submitting, SubmitStep, SendEmergency, WakeActor,
         FindEmergencyFull, Ride, InSubmit, MoveGate, vars, taskVars, linkVars, portVars, radioVars
<1>. QED
  BY <1>1 DEF Generations, Restored

----------------------------------------------------------------------------
(* An unkey that is answered ok.                                           *)

\* Nobody starts to ride, and nobody is told that an unkey of a rig on the air worked.
Answers ==
    /\ unkey_waiters' \subseteq unkey_waiters
    /\ \A c \in Clients : calls'[c] = "riding" => calls[c] = "riding"
    /\ \A c \in Clients : answer'[c] = "ok" => answer[c] = "ok" \/ request[c] # "unkey" \/ tx = {}

LEMMA SameAnswers == ASSUME UNCHANGED <<unkey_waiters, calls, answer>> PROVE Answers
BY DEF Answers

\* A command that ends with anything but success, or leaves no unkeyed rig on the air.
LEMMA CompleteAnswers ==
    ASSUME Requested, NEW cmd, AsAsked(cmd), NEW result, NEW failed, Complete(cmd, result, failed),
           result = "ok" /\ cmd.op = "unkey" => tx = {}
    PROVE  Answers /\ cur' = NoCommand /\ UNCHANGED request
<1>1. /\ \A c \in Clients : answer'[c] = IF c \in Riders(cmd.op) \union ({cmd.client} \ {NoClient})
                                         THEN result ELSE answer[c]
      /\ \A c \in Clients : calls'[c] \in {"idle", calls[c]}
      /\ unkey_waiters' = unkey_waiters \ Riders(cmd.op)
      /\ cur' = NoCommand /\ UNCHANGED request
  BY DEF Complete
<1>2. ASSUME NEW c \in Clients, answer'[c] = "ok", answer[c] # "ok", request[c] = "unkey"
      PROVE  tx = {}
  <2>1. c \in Riders(cmd.op) \union ({cmd.client} \ {NoClient}) /\ result = "ok"
    BY <1>1, <1>2
  <2>2. cmd.op = "unkey"
    BY <2>1, <1>2 DEF Riders, IsUnkey, AsAsked
  <2>. QED
    BY <2>1, <2>2
<1>. QED
  BY <1>1, <1>2 DEF Answers

LEMMA BeginAnswers ==
    ASSUME Requested, NEW cmd, AsAsked(cmd), Begin(cmd)
    PROVE  Answers /\ cur' \in {cmd, NoCommand} /\ UNCHANGED request
<1>1. CASE \E reason \in Refusals(cmd) : Complete(cmd, reason, FALSE)
  <2>1. "ok" \notin Refusals(cmd)
    BY DEF Refusals
  <2>. QED
    BY <1>1, <2>1, CompleteAnswers
<1>2. CASE cur' = cmd /\ UNCHANGED <<callVars, aired, alarm>>
  BY <1>2, SameAnswers DEF callVars
<1>. QED
  BY <1>1, <1>2 DEF Begin

\* Between commands.
LEMMA IdleAnswers ==
    ASSUME QueueTypes, Requested,
           \/ TakeEmergency \/ LinkStatusChanged \/ WatchdogFire \/ TakeNormal \/ ServeHeld
           \/ ReadIdle \/ LoseLinkIdle \/ PollOnce \/ Stop
    PROVE  Moves /\ Answers
<1>1. CASE TakeEmergency
  <2>1. /\ emergency # <<>> /\ emergency' = Tail(emergency) /\ UNCHANGED <<normal, held>>
        /\ Begin(Head(emergency))
    BY <1>1 DEF TakeEmergency
  <2>2. AsAsked(Head(emergency))
    BY <2>1, TakenAsAsked DEF Requested, QueueTypes
  <2>3. Answers /\ cur' \in {Head(emergency), NoCommand} /\ UNCHANGED request
    BY <2>1, <2>2, BeginAnswers
  <2>. QED
    BY <2>1, <2>3 DEF Moves, Taken, First
<1>2. CASE TakeNormal
  <2>1. /\ normal # <<>> /\ normal' = Tail(normal) /\ UNCHANGED emergency
        /\ \/ Begin(Head(normal)) /\ UNCHANGED held
           \/ held' = Head(normal) /\ cur' = Poll /\ UNCHANGED callVars
    BY <1>2 DEF TakeNormal
  <2>2. CASE Begin(Head(normal)) /\ UNCHANGED held
    <3>1. AsAsked(Head(normal))
      BY <2>1, TakenAsAsked DEF Requested, QueueTypes
    <3>2. Answers /\ cur' \in {Head(normal), NoCommand} /\ UNCHANGED request
      BY <2>2, <3>1, BeginAnswers
    <3>. QED
      BY <2>1, <2>2, <3>2 DEF Moves, Taken, First
  <2>3. CASE held' = Head(normal) /\ cur' = Poll /\ UNCHANGED callVars
    BY <2>1, <2>3, SameAnswers DEF Moves, Taken, First, callVars
  <2>. QED
    BY <2>1, <2>2, <2>3
<1>3. CASE ServeHeld
  <2>1. Begin(held) /\ held' = NoCommand /\ UNCHANGED <<emergency, normal>>
    BY <1>3 DEF ServeHeld, queueVars
  <2>2. Answers /\ cur' \in {held, NoCommand} /\ UNCHANGED request
    BY <2>1, BeginAnswers DEF Requested
  <2>. QED
    BY <2>1, <2>2 DEF Moves, Taken
<1>4. CASE PollOnce
  <2>1. Begin(Poll) /\ UNCHANGED <<emergency, normal, held>>
    BY <1>4 DEF PollOnce, queueVars
  <2>2. AsAsked(Poll)
    BY DEF AsAsked, Poll
  <2>3. Answers /\ cur' \in {Poll, NoCommand} /\ UNCHANGED request
    BY <2>1, <2>2, BeginAnswers
  <2>. QED
    BY <2>1, <2>3 DEF Moves, Taken
<1>5. CASE LinkStatusChanged \/ WatchdogFire \/ ReadIdle \/ LoseLinkIdle \/ Stop
  <2>1. UNCHANGED <<emergency, normal, cur, held, request, unkey_waiters, calls, answer>>
    BY <1>5 DEF LinkStatusChanged, WatchdogFire, ReadIdle, LoseLinkIdle, Stop, queueVars, callVars,
                taskVars
  <2>. QED
    BY <2>1, SameAnswers DEF Moves, Taken
<1>. QED
  BY <1>1, <1>2, <1>3, <1>4, <1>5

\* While a command is served, or ends in one way or another.
LEMMA EndedAnswers ==
    ASSUME Requested, UNCHANGED <<emergency, normal, held>>,
           \/ UNCHANGED <<callVars, cur>>
           \/ \E result, failed : /\ Complete(cur, result, failed)
                                  /\ result = "ok" /\ cur.op = "unkey" => tx = {}
    PROVE  Moves /\ Answers
<1>1. CASE UNCHANGED <<callVars, cur>>
  BY <1>1, SameAnswers DEF Moves, Taken, callVars
<1>2. CASE \E result, failed : /\ Complete(cur, result, failed)
                               /\ result = "ok" /\ cur.op = "unkey" => tx = {}
  <2>1. Answers /\ cur' = NoCommand /\ UNCHANGED request
    BY <1>2, CompleteAnswers DEF Requested
  <2>. QED
    BY <2>1 DEF Moves, Taken
<1>. QED
  BY <1>1, <1>2

LEMMA FailedAnswers ==
    ASSUME Requested, UNCHANGED <<emergency, normal, held>>, NEW result, result # "ok",
           UNCHANGED <<callVars, cur>> \/ Complete(cur, result, FALSE)
    PROVE  Moves /\ Answers
<1>1. CASE UNCHANGED <<callVars, cur>>
  BY <1>1, EndedAnswers
<1>2. CASE Complete(cur, result, FALSE)
  BY <1>2, EndedAnswers
<1>. QED
  BY <1>1, <1>2

LEMMA AwaitAnswers ==
    ASSUME StreamHas, CommandsAreReal, Streaming, SetReply = "ack", PanelMoves = 0, Requested,
           AwaitReply
    PROVE  Moves /\ Answers
<1>. DEFINE frame == Head(replies)
            outcome == Decides(frame, ReplyKind(cur.op))
<1>1. /\ pc = "await" /\ replies # <<>> /\ UNCHANGED <<emergency, normal, held>>
      /\ \/ UNCHANGED <<callVars, cur>>
         \/ Complete(cur, outcome, FALSE)
  BY DEF AwaitReply, queueVars
<1>2. ASSUME outcome = "ok", cur.op = "unkey"
      PROVE  tx = {}
  <2>1. Serving = "unkey"
    BY <1>1, <1>2 DEF Serving
  <2>2. ReplyKind(cur.op) = "ack"
    BY <1>2 DEF ReplyKind
  <2>3. frame = "ack"
    BY <1>2, <2>2 DEF Decides
  <2>. QED
    BY <1>1, <1>2, <2>1, <2>3, UnkeyTold DEF Cleared
<1>. HIDE DEF outcome
<1>. QED
  BY <1>1, <1>2, EndedAnswers

LEMMA ServeAnswers ==
    ASSUME StreamHas, CommandsAreReal, Streaming, SetReply = "ack", PanelMoves = 0, Requested,
           \/ Woken \/ DrainStale \/ LoseLinkServing
           \/ (\E expired \in BOOLEAN : WriteCommand(expired))
           \/ WriteTimesOut \/ AwaitReply \/ WatchdogPreempts \/ ReplyTimesOut
    PROVE  Moves /\ Answers
<1>1. CASE Woken \/ WatchdogPreempts
  <2>1. /\ UNCHANGED <<emergency, normal, held>>
        /\ UNCHANGED <<callVars, cur>> \/ Complete(cur, "Cancelled", FALSE)
    BY <1>1 DEF Woken, WatchdogPreempts, queueVars
  <2>. QED
    BY <2>1, FailedAnswers
<1>2. CASE DrainStale
  <2>1. UNCHANGED <<emergency, normal, held, callVars, cur>>
    BY <1>2 DEF DrainStale, queueVars, taskVars
  <2>. QED
    BY <2>1, FailedAnswers
<1>3. CASE LoseLinkServing
  <2>1. UNCHANGED <<emergency, normal, held>> /\ Complete(cur, "LinkDown", FALSE)
    BY <1>3 DEF LoseLinkServing, LinkLost, queueVars
  <2>. QED
    BY <2>1, FailedAnswers
<1>4. CASE \E expired \in BOOLEAN : WriteCommand(expired)
  <2>1. PICK expired \in BOOLEAN : WriteCommand(expired)
    BY <1>4
  <2>2. ReplyKind(cur.op) # "none"
    BY <2>1, ServingCommand DEF WriteCommand
  <2>3. UNCHANGED <<emergency, normal, held, callVars, cur>>
    BY <2>1, <2>2 DEF WriteCommand, queueVars
  <2>. QED
    BY <2>3, EndedAnswers
<1>5. CASE WriteTimesOut \/ ReplyTimesOut
  <2>1. /\ UNCHANGED <<emergency, normal, held>>
        /\ UNCHANGED <<callVars, cur>> \/ Complete(cur, "Timeout", FALSE)
    BY <1>5 DEF WriteTimesOut, ReplyTimesOut, queueVars
  <2>. QED
    BY <2>1, FailedAnswers
<1>6. CASE AwaitReply
  BY <1>6, AwaitAnswers
<1>. QED
  BY <1>1, <1>2, <1>3, <1>4, <1>5, <1>6

\* The fail-closed unkey answers what it was for with a timeout.
LEMMA UnkeyAnswers ==
    ASSUME Requested,
           \/ WriteUnkey \/ UnkeyWriteFails \/ UnkeyAttemptFails \/ UnkeyAwait \/ UnkeyGivesUp
           \/ SessionStep \/ SessionAwait
    PROVE  Moves /\ Answers
<1>1. UNCHANGED <<emergency, normal, held>>
  BY DEF WriteUnkey, UnkeyWriteFails, UnkeyAttemptFails, UnkeyAwait, UnkeyGivesUp, SessionStep,
         SessionAwait, SessionUnchanged, UnkeyUnchanged, queueVars
<1>2. \/ UNCHANGED <<callVars, cur>>
      \/ \E failed : Complete(cur, "Timeout", failed)
  <2>1. ASSUME NEW ok, UnkeyDone(ok)
        PROVE  UNCHANGED <<callVars, cur>> \/ \E failed : Complete(cur, "Timeout", failed)
    BY <2>1 DEF UnkeyDone
  <2>. QED
    BY <2>1 DEF WriteUnkey, UnkeyWriteFails, UnkeyAttemptFails, UnkeyAwait, UnkeyGivesUp,
                SessionStep, SessionAwait, SessionUnchanged
<1>. QED
  BY <1>1, <1>2, EndedAnswers

----------------------------------------------------------------------------
(* The invariants together.                                                *)

\* What holds of a rig that acknowledges every set and reports nothing on its own.
RInv == IInv /\ Streaming /\ Airing /\ Generations /\ Restored

LEMMA RInvHas ==
    ASSUME RInv
    PROVE  /\ StreamHas /\ CommandsAreReal /\ AiredIsOn
           /\ QueueTypes /\ TaskTypes /\ LinkTypes /\ RadioTypes
BY StreamHasTypes DEF RInv, IInv, TypeOK, Airing

LEMMA RInit == Init => RInv
<1> SUFFICES ASSUME Init PROVE RInv
  OBVIOUS
<1>1. IInv
  BY InitInv
<1>2. Streaming
  <2>1. outstanding = <<>> /\ replies = <<>> /\ wire = <<>>
    BY DEF Init
  <2>2. Stream
    BY <2>1, MatchNothing DEF Stream
  <2>. QED
    BY <2>1, <2>2 DEF Streaming, Ours, Kinds
<1>3. Airing
  BY DEF Init, Airing, AiredIsOn, QuietNow, OffIsOld, Watched
<1>4. Generations /\ Restored
  BY DEF Init, Generations, Restored
<1>. QED
  BY <1>1, <1>2, <1>3, <1>4 DEF RInv

LEMMA RNext ==
    ASSUME SetReply = "ack", ~Transceive \/ PanelMoves = 0
    PROVE  RInv /\ [Next]_vars => RInv'
<1> SUFFICES ASSUME RInv, [Next]_vars PROVE RInv'
  OBVIOUS
<1>1. IInv'
  BY NextInv DEF RInv
<1>. SUFFICES Streaming' /\ Airing' /\ Generations' /\ Restored'
  BY <1>1 DEF RInv
<1>2. /\ StreamHas /\ CommandsAreReal /\ TaskTypes /\ LinkTypes /\ RadioTypes
      /\ Streaming /\ Airing /\ AiredIsOn /\ Generations /\ Restored
  BY RInvHas DEF RInv
<1>3. CASE (\E c \in Clients : Call(c) \/ SubmitStep(c)) \/ MoveGate \/ UNCHANGED vars
  BY <1>2, <1>3, CallersStream, CallersWatch, CallersRestore
<1>4. CASE \/ TakeEmergency \/ LinkStatusChanged \/ WatchdogFire \/ TakeNormal \/ ServeHeld
           \/ ReadIdle \/ LoseLinkIdle \/ PollOnce \/ Stop
  BY <1>2, <1>4, IdleStreams, IdleAir, IdleRestores
<1>5. CASE \/ Woken \/ DrainStale \/ LoseLinkServing
           \/ (\E expired \in BOOLEAN : WriteCommand(expired))
           \/ WriteTimesOut \/ AwaitReply \/ WatchdogPreempts \/ ReplyTimesOut
  BY <1>2, <1>5, ServeStreams, ServeWatches, ServeRestores
<1>6. CASE WriteUnkey \/ UnkeyWriteFails \/ UnkeyAttemptFails \/ UnkeyAwait \/ UnkeyGivesUp
  BY <1>2, <1>6, UnkeyStreams, UnkeyWatches, UnkeyRestores
<1>7. CASE SessionStep \/ SessionAwait
  BY <1>2, <1>7, SessionStreams, SessionWatches, SessionRestores
<1>8. CASE Radio \/ Link
  BY <1>2, <1>8, RadioStreams, RadioWatches, RadioRestores
<1>. QED
  BY <1>3, <1>4, <1>5, <1>6, <1>7, <1>8 DEF Next, Actor

\* A rig on the air on an acknowledged command is watched (rig.rs apply_set, observe,
\* watchdog_fire, unkey_fail_closed): its dead-man timer runs, it is being unkeyed,
\* or the failure to unkey it has been reported.  The late replies of abandoned
\* commands never disarm the timer of a rig that is on the air.  Stated for a rig that
\* acknowledges sets, and does not report on its own what an operator does at it.
THEOREM AckedKeyWatched ==
    ASSUME SetReply = "ack", ~Transceive \/ PanelMoves = 0
    PROVE  Spec => []AckedKeyIsWatched
<1>1. RInv => AckedKeyIsWatched
  BY DEF RInv, Airing, Watched, AckedKeyIsWatched, UnkeyUnderWay
<1>2. RInv /\ [Next]_vars => RInv'
  BY RNext
<1>. QED
  BY <1>1, <1>2, RInit, PTL DEF Spec

\* A rig whose port was lost under the actor and came back is unkeyed before the actor
\* serves anything else, or the failure to unkey it has been reported
\* (link_status_changed, unkey_fail_closed): an acknowledgement that ends the unkey was
\* caused by it, and not by a request from before the port was lost.
THEOREM RestoredUnkeyed ==
    ASSUME SetReply = "ack", ~Transceive \/ PanelMoves = 0
    PROVE  Spec => []RestoredMeansUnkeyed
<1>1. RInv => RestoredMeansUnkeyed
  BY DEF RInv, Restored, RestoredMeansUnkeyed
<1>2. RInv /\ [Next]_vars => RInv'
  BY RNext
<1>. QED
  BY <1>1, <1>2, RInit, PTL DEF Spec

\* The end of a fail-closed unkey.
LEMMA UnkeyedOrReported ==
    ASSUME RInv, SetReply = "ack", PanelMoves = 0, pc \in {"unkey", "unkeyAwait"}, [Next]_vars,
           NEW c \in Clients, answer[c] = "none", answer'[c] = "Timeout"
    PROVE  tx' = {} \/ "air" \in alarm'
<1>1. /\ StreamHas /\ TaskTypes /\ Streaming /\ CallTypes
  BY RInvHas DEF RInv, IInv, TypeOK
<1>2. CASE WriteUnkey \/ UnkeyWriteFails \/ UnkeyAttemptFails \/ UnkeyGivesUp
  <2>1. UNCHANGED answer \/ UnkeyDone(FALSE)
    BY <1>2 DEF WriteUnkey, UnkeyWriteFails, UnkeyAttemptFails, UnkeyGivesUp, callVars
  <2>2. UnkeyDone(FALSE)
    BY <2>1
  <2>3. alarm' = Failures
    BY <1>1, <2>2, UnkeyDoneAir
  <2>. QED
    BY <2>3 DEF Failures
<1>3. CASE UnkeyAwait
  <2>. DEFINE outcome == Decides(Head(replies), SetReply)
  <2>1. pc = "unkeyAwait" /\ replies # <<>> /\ Serving = "unkey" /\ UNCHANGED tx
    BY <1>3 DEF UnkeyAwait, UnkeyUnchanged, radioVars, Serving
  <2>2. outcome = "ok" \/ UNCHANGED answer
    BY <1>3 DEF UnkeyAwait, callVars
  <2>3. outcome = "ok" /\ Head(replies) = "ack"
    BY <2>2 DEF Decides
  <2>4. Cleared
    BY <1>1, <2>1, <2>3, UnkeyTold
  <2>. QED
    BY <2>1, <2>4 DEF Cleared
<1>4. CASE \E d \in Clients : Call(d) \/ SubmitStep(d)
  <2>1. PICK d \in Clients : Call(d) \/ SubmitStep(d)
    BY <1>4
  <2>2. \/ UNCHANGED answer
        \/ \E other \in {"none", "TransmitGateClosed", "QueueFull"} :
              answer' = [answer EXCEPT ![d] = other]
    BY <2>1 DEF Call, Submit, SubmitEmergency, SubmitStep, SendEmergency, WakeActor,
                FindEmergencyFull, Ride
  <2>. QED
    BY <1>1, <2>2 DEF CallTypes
<1>5. CASE MoveGate \/ Radio \/ Link \/ UNCHANGED vars
  <2>1. UNCHANGED answer
    BY <1>5 DEF MoveGate, Radio, RigExecutes, CwEnds, FrontPanel, Expire, WatchdogLapses, Link,
       StreamFails, PortLost, PortReopened, SupervisorCloses, Environment, Actors, vars, callVars
  <2>. QED
    BY <2>1
<1>6. CASE \/ TakeEmergency \/ LinkStatusChanged \/ WatchdogFire \/ TakeNormal \/ ServeHeld
           \/ ReadIdle \/ LoseLinkIdle \/ PollOnce \/ Stop
  BY <1>6 DEF TakeEmergency, LinkStatusChanged, WatchdogFire, TakeNormal, ServeHeld, ReadIdle,
              LoseLinkIdle, PollOnce, Stop, Idle
<1>7. CASE \/ Woken \/ DrainStale \/ LoseLinkServing
           \/ (\E expired \in BOOLEAN : WriteCommand(expired))
           \/ WriteTimesOut \/ AwaitReply \/ WatchdogPreempts \/ ReplyTimesOut
           \/ SessionStep \/ SessionAwait
  BY <1>7 DEF Woken, DrainStale, LoseLinkServing, WriteCommand, WriteTimesOut, AwaitReply,
              WatchdogPreempts, ReplyTimesOut, SessionStep, SessionAwait
<1>. QED
  BY <1>2, <1>3, <1>4, <1>5, <1>6, <1>7 DEF Next, Actor

\* A transmit command whose reply never came is reported as timed out only after the
\* rig was unkeyed, or with the failure reported (run_command, unkey_fail_closed).  An
\* operator at the rig may key it again by himself, so he is left out.
THEOREM TimedOutUnkeyed ==
    ASSUME SetReply = "ack", PanelMoves = 0
    PROVE  Spec => TimedOutKeyIsUnkeyed
<1>. DEFINE Unkeyed == \A c \in Clients :
                /\ pc \in {"unkey", "unkeyAwait"}
                /\ answer[c] = "none" /\ answer'[c] = "Timeout" /\ Transmits(request[c])
                => tx' = {} \/ "air" \in alarm'
<1>1. RInv /\ [Next]_vars => [Unkeyed]_vars
  BY UnkeyedOrReported
<1>2. RInv /\ [Next]_vars => RInv'
  BY RNext
<1>. QED
  BY <1>1, <1>2, RInit, PTL DEF Spec, TimedOutKeyIsUnkeyed

\* What the answer to an unkey rests on.
UInv == CInv /\ RInv /\ Requested /\ UnkeyOkMeansQuiet

LEMMA UInit == Init => UInv
<1> SUFFICES ASSUME Init PROVE UInv
  OBVIOUS
<1>1. CInv /\ RInv
  BY CInit, RInit
<1>2. Requested
  BY DEF Init, Requested, AsAsked, NoCommand
<1>3. UnkeyOkMeansQuiet
  BY DEF Init, UnkeyOkMeansQuiet
<1>. QED
  BY <1>1, <1>2, <1>3 DEF UInv

\* A step of the actor: it tells an unkey's caller that it worked when nobody's rig
\* is on the air.
LEMMA ActorTells ==
    ASSUME UInv, Moves, Answers, UNCHANGED quiet
    PROVE  Requested' /\ UnkeyOkMeansQuiet'
<1>1. Requested'
  BY MovesAsked DEF UInv, CInv, IInv, TypeOK, Answers, NobodyRides
<1>2. tx = {} => quiet = Clients
  BY DEF UInv, RInv, Airing, QuietNow
<1>3. UnkeyOkMeansQuiet'
  BY <1>2 DEF UInv, UnkeyOkMeansQuiet, Moves, Answers
<1>. QED
  BY <1>1, <1>3

\* A caller asks, or goes on in submit.
LEMMA CallerTold ==
    ASSUME UInv, CInv', NEW c \in Clients, Call(c) \/ SubmitStep(c)
    PROVE  Requested' /\ UnkeyOkMeansQuiet'
<1>1. CInv /\ IInv /\ CallTypes /\ QueueTypes' /\ Requested
  BY DEF UInv, CInv, IInv, TypeOK
<1>2. Requested'
  BY <1>1, CallAsked, SubmitAsked
<1>3. CASE Call(c)
  <2>1. PICK op \in ClientOps : Submit(c, op) \/ SubmitEmergency(c, op)
    BY <1>3 DEF Call
  <2>2. /\ request' = [request EXCEPT ![c] = op] /\ (quiet' = quiet \union {c} \/ quiet' = quiet \ {c})
        /\ \E other \in {"none", "TransmitGateClosed", "QueueFull"} :
              answer' = [answer EXCEPT ![c] = other]
    BY <2>1 DEF Submit, SubmitEmergency, Submitting
  <2>3. answer'[c] # "ok"
    BY <1>1, <2>2 DEF CallTypes
  <2>4. \A d \in Clients \ {c} :
           /\ answer'[d] = answer[d] /\ request'[d] = request[d]
           /\ d \in quiet => d \in quiet'
    BY <1>1, <2>2 DEF CallTypes
  <2>5. UnkeyOkMeansQuiet'
    <3>1. ASSUME NEW d \in Clients, request'[d] = "unkey", answer'[d] = "ok"
          PROVE  d \in quiet'
      <4>1. d \in Clients \ {c}
        BY <2>3, <3>1
      <4>2. request[d] = "unkey" /\ answer[d] = "ok"
        BY <2>4, <3>1, <4>1
      <4>3. d \in quiet
        BY <4>2 DEF UInv, UnkeyOkMeansQuiet
      <4>. QED
        BY <2>4, <4>1, <4>3
    <3>. QED
      BY <3>1 DEF UnkeyOkMeansQuiet
  <2>. QED
    BY <1>2, <2>5
<1>4. CASE SubmitStep(c)
  <2>1. /\ UNCHANGED <<request, quiet>>
        /\ answer' = answer \/ answer' = [answer EXCEPT ![c] = "QueueFull"]
    BY <1>4 DEF SubmitStep, SendEmergency, WakeActor, FindEmergencyFull, Ride, InSubmit, radioVars
  <2>2. \A d \in Clients : answer'[d] = "ok" => answer[d] = "ok"
    BY <1>1, <2>1 DEF CallTypes
  <2>. QED
    BY <1>2, <2>1, <2>2 DEF UInv, UnkeyOkMeansQuiet
<1>. QED
  BY <1>3, <1>4

LEMMA UNext ==
    ASSUME SetReply = "ack", PanelMoves = 0
    PROVE  UInv /\ [Next]_vars => UInv'
<1> SUFFICES ASSUME UInv, [Next]_vars PROVE UInv'
  OBVIOUS
<1>1. CInv' /\ RInv'
  BY CNext, RNext DEF UInv
<1>. SUFFICES Requested' /\ UnkeyOkMeansQuiet'
  BY <1>1 DEF UInv
<1>2. /\ StreamHas /\ CommandsAreReal /\ QueueTypes /\ Streaming /\ Requested
  BY RInvHas DEF UInv, RInv
<1>3. CASE \E c \in Clients : Call(c) \/ SubmitStep(c)
  BY <1>1, <1>3, CallerTold
<1>4. CASE \/ TakeEmergency \/ LinkStatusChanged \/ WatchdogFire \/ TakeNormal \/ ServeHeld
           \/ ReadIdle \/ LoseLinkIdle \/ PollOnce \/ Stop
  <2>1. UNCHANGED quiet
    BY <1>4 DEF TakeEmergency, LinkStatusChanged, WatchdogFire, TakeNormal, ServeHeld, ReadIdle,
                LoseLinkIdle, PollOnce, Stop, radioVars
  <2>2. Moves /\ Answers
    BY <1>2, <1>4, IdleAnswers
  <2>. QED
    BY <2>1, <2>2, ActorTells
<1>5. CASE \/ Woken \/ DrainStale \/ LoseLinkServing
           \/ (\E expired \in BOOLEAN : WriteCommand(expired))
           \/ WriteTimesOut \/ AwaitReply \/ WatchdogPreempts \/ ReplyTimesOut
  <2>1. UNCHANGED quiet
    <3>1. CASE Woken \/ DrainStale \/ LoseLinkServing \/ WatchdogPreempts
      BY <3>1 DEF Woken, DrainStale, LoseLinkServing, LinkLost, WatchdogPreempts, radioVars
    <3>2. CASE \/ (\E expired \in BOOLEAN : WriteCommand(expired))
               \/ WriteTimesOut \/ AwaitReply \/ ReplyTimesOut
      BY <3>2 DEF WriteCommand, WriteTimesOut, AwaitReply, ReplyTimesOut, radioVars
    <3>. QED
      BY <1>5, <3>1, <3>2
  <2>2. Moves /\ Answers
    BY <1>2, <1>5, ServeAnswers
  <2>. QED
    BY <2>1, <2>2, ActorTells
<1>6. CASE \/ WriteUnkey \/ UnkeyWriteFails \/ UnkeyAttemptFails \/ UnkeyAwait \/ UnkeyGivesUp
           \/ SessionStep \/ SessionAwait
  <2>1. UNCHANGED quiet
    BY <1>6 DEF WriteUnkey, UnkeyWriteFails, UnkeyAttemptFails, UnkeyAwait, UnkeyGivesUp,
                SessionStep, SessionAwait, SessionUnchanged, UnkeyUnchanged, radioVars
  <2>2. Moves /\ Answers
    BY <1>2, <1>6, UnkeyAnswers
  <2>. QED
    BY <2>1, <2>2, ActorTells
<1>7. CASE MoveGate \/ Radio \/ Link \/ UNCHANGED vars
  <2>1. UNCHANGED <<emergency, normal, callVars, cur, held>>
    BY <1>7 DEF MoveGate, Radio, RigExecutes, CwEnds, FrontPanel, Expire, WatchdogLapses, Link,
       StreamFails, PortLost, PortReopened, SupervisorCloses, Environment, Actors, vars, queueVars,
       taskVars
  <2>2. quiet' = quiet \/ quiet' = Clients
    <3>1. CASE RigExecutes \/ CwEnds \/ FrontPanel
      BY <3>1 DEF RigExecutes, CwEnds, FrontPanel, OnAir, radioVars
    <3>2. CASE MoveGate \/ Expire \/ WatchdogLapses \/ Link \/ UNCHANGED vars
      BY <3>2 DEF MoveGate, Expire, WatchdogLapses, Link, StreamFails, PortLost, PortReopened,
                  SupervisorCloses, vars, radioVars
    <3>. QED
      BY <1>7, <3>1, <3>2 DEF Radio
  <2>3. Requested'
    BY <2>1 DEF UInv, Requested, AsAsked, callVars
  <2>4. UnkeyOkMeansQuiet'
    BY <2>1, <2>2 DEF UInv, UnkeyOkMeansQuiet, callVars
  <2>. QED
    BY <2>3, <2>4
<1>. QED
  BY <1>3, <1>4, <1>5, <1>6, <1>7 DEF Next, Actor

\* A caller told that its unkey worked, whether it was queued, retried or rode on the
\* unkey of another, can rely on it (submit, serve, claim_reply): at some moment since
\* it asked, the rig was off the air, whatever late replies were around.
THEOREM UnkeyOkQuiet ==
    ASSUME SetReply = "ack", PanelMoves = 0
    PROVE  Spec => []UnkeyOkMeansQuiet
<1>1. UInv => UnkeyOkMeansQuiet
  BY DEF UInv
<1>2. UInv /\ [Next]_vars => UInv'
  BY UNext
<1>. QED
  BY <1>1, <1>2, UInit, PTL DEF Spec

----------------------------------------------------------------------------
(* The last handle goes.                                                   *)

\* What may put a rig on the air: it is there, or a request to transmit waits in w.
Risk(w) == tx # {} \/ \E i \in DOMAIN w : Transmits(w[i])

\* An unkey is on its way to the actor, or in service.
Coming == emergency # <<>> \/ \E c \in Clients : calls[c] = "counted"

Unkeying == pc \in {"unkey", "unkeyAwait"} \/ cur.op = "unkey"

\* The risk is reported, or the next thing that the actor does ends it.
Handled ==
    \/ "air" \in alarm \/ ~link_up \/ Coming \/ Unkeying
    \/ pc = "select" /\ keyed_since = "due"

\* Otherwise it was acknowledged, the cache says so, and no old unkey will end it behind
\* the back of the actor.
Minded(w) ==
    Risk(w) => \/ Handled
               \/ aired /\ cache_ptt = "on" /\ \A i \in DOMAIN w : w[i] # "unkey"

\* A key is written and not decided.
Keying == pc = "await" /\ cur.op = "key"

\* It was executed: what answers it is no refusal.
KeyExecuted == wire = <<>> /\ \E f : Matching(f, outstanding, replies, <<>>, "key", {"ack"})

\* The risk that there is without the request of a key in service is minded; once that
\* request is executed, it will not be reported as refused.
Mindful ==
    \/ \E w \in Seq(Sends) : Minded(w) /\ (wire = w \/ (Keying /\ wire = Append(w, "key")))
    \/ Keying /\ KeyExecuted

\* No Morse is sent, and of the emergencies there are only unkeys.
VoiceOnly ==
    /\ \A c \in Clients : /\ request[c] \notin {"cw", "stop"}
                          /\ calls[c] = "counted" => request[c] = "unkey"
    /\ \A i \in DOMAIN emergency : emergency[i].op = "unkey"
    /\ "cw" \notin tx /\ \A i \in DOMAIN wire : wire[i] # "cw"

\* The watchdog runs only of a rig that the cache has on the air.
CacheFollows == keyed_since # "off" => cache_ptt = "on"

\* A key is written once.
Once ==
    /\ pc = "drain" /\ cur.op = "key" => \A i \in DOMAIN outstanding : ~outstanding[i].mine
    /\ Keying => \A i \in DOMAIN outstanding : outstanding[i].mine => i = Len(outstanding)

\* The actor stopped on a rig that is off the air, reported, or out of reach.
LeftQuiet == pc = "stopped" => (Risk(wire) => "air" \in alarm \/ ~link_up)

SInv == UInv /\ VoiceOnly /\ CacheFollows /\ Once /\ Mindful /\ LeftQuiet

LEMMA SInvHas ==
    ASSUME SInv
    PROVE  /\ StreamHas /\ CommandsAreReal /\ Streaming /\ Requested /\ Airing /\ AiredIsOn
           /\ QueueTypes /\ CallTypes /\ TaskTypes /\ LinkTypes /\ RadioTypes
           /\ cur.op \notin {"cw", "stop"} /\ held.op \notin {"cw", "stop"}
           /\ pc \notin {"drain", "write", "await", "unkey", "unkeyAwait"} => cur = NoCommand
           /\ pc \in {"drain", "write", "await"} => Serving = cur.op
           /\ pc \in {"unkey", "unkeyAwait"} => Serving = "unkey"
           /\ pc = "write" => cur.op # "key"
<1>1. UInv /\ RInv /\ CInv /\ IInv /\ TypeOK /\ VoiceOnly
  BY DEF SInv, UInv, RInv, CInv, IInv
<1>2. /\ StreamHas /\ CommandsAreReal /\ Streaming /\ Requested /\ Airing /\ AiredIsOn
      /\ QueueTypes /\ CallTypes /\ TaskTypes /\ LinkTypes /\ RadioTypes
  BY <1>1, RInvHas DEF UInv, RInv, TypeOK
<1>3. \A cmd \in Requests \union {Poll, NoCommand} : AsAsked(cmd) => cmd.op \notin {"cw", "stop"}
  BY <1>1, ConstantsAssumption DEF AsAsked, Requests, Poll, NoCommand, VoiceOnly,
                                   ConstantsAssumption
<1>4. cur.op \notin {"cw", "stop"} /\ held.op \notin {"cw", "stop"}
  BY <1>2, <1>3 DEF Requested, TaskTypes
<1>5. pc \notin {"drain", "write", "await", "unkey", "unkeyAwait"} => cur = NoCommand
  BY <1>1 DEF CInv, Placed, CommandInPlace
<1>6. pc = "write" => cur.op # "key"
  BY <1>1 DEF IInv, Straggling, Transmits
<1>. QED
  BY <1>2, <1>4, <1>5, <1>6 DEF Serving

LEMMA SInit == Init => SInv
<1> SUFFICES ASSUME Init PROVE SInv
  OBVIOUS
<1>1. UInv
  BY UInit
<1>2. VoiceOnly /\ CacheFollows /\ Once /\ LeftQuiet
  BY DEF Init, VoiceOnly, CacheFollows, Once, LeftQuiet, Keying
<1>3. Mindful
  <2>1. wire = <<>> /\ wire \in Seq(Sends) /\ tx = {} /\ DOMAIN wire = {}
    BY <1>1, RInvHas DEF Init, UInv, StreamHas
  <2>2. Minded(wire)
    BY <2>1 DEF Minded, Risk
  <2>. QED
    BY <2>1, <2>2 DEF Mindful
<1>. QED
  BY <1>1, <1>2, <1>3 DEF SInv

----------------------------------------------------------------------------
(* How the risk is minded from step to step.                               *)

LEMMA HandledIsMindful ==
    ASSUME wire' \in Seq(Sends), Handled'
    PROVE  Mindful'
<1>1. Minded(wire)'
  BY DEF Minded
<1>. QED
  BY <1>1 DEF Mindful

LEMMA QuietIsMindful ==
    ASSUME wire' \in Seq(Sends), ~Risk(wire)'
    PROVE  Mindful'
<1>1. Minded(wire)'
  BY DEF Minded
<1>. QED
  BY <1>1 DEF Mindful

\* The actor does nothing that makes the risk less of its business.
Tended ==
    /\ UNCHANGED tx
    /\ aired => aired'
    /\ Handled => Handled'
    /\ aired /\ cache_ptt = "on" => cache_ptt' = "on" \/ Handled'

\* What is written is of no consequence: neither a request to transmit nor an unkey.
Harmless(sent) == ~Transmits(sent) /\ sent # "unkey"

LEMMA MindedStays ==
    ASSUME NEW w, Minded(w), Tended
    PROVE  Minded(w)'
<1>1. Risk(w)' => Risk(w)
  BY DEF Risk, Tended
<1>2. CASE ~Risk(w)
  BY <1>1, <1>2 DEF Minded
<1>3. CASE Handled
  BY <1>3 DEF Minded, Tended
<1>4. CASE aired /\ cache_ptt = "on" /\ \A i \in DOMAIN w : w[i] # "unkey"
  BY <1>4 DEF Minded, Tended
<1>. QED
  BY <1>2, <1>3, <1>4 DEF Minded

LEMMA MindfulStays ==
    ASSUME Mindful, Tended, UNCHANGED wireVars, Keying => Keying'
    PROVE  Mindful'
<1>1. CASE Keying /\ KeyExecuted
  BY <1>1 DEF Mindful, KeyExecuted, wireVars
<1>2. CASE \E w \in Seq(Sends) : Minded(w) /\ (wire = w \/ (Keying /\ wire = Append(w, "key")))
  <2>1. PICK w \in Seq(Sends) : Minded(w) /\ (wire = w \/ (Keying /\ wire = Append(w, "key")))
    BY <1>2
  <2>2. Minded(w)'
    BY <2>1, MindedStays
  <2>3. wire' = w \/ (Keying' /\ wire' = Append(w, "key"))
    BY <2>1 DEF wireVars
  <2>. QED
    BY <2>2, <2>3 DEF Mindful
<1>. QED
  BY <1>1, <1>2 DEF Mindful

LEMMA IdleMinded ==
    ASSUME Mindful, ~Keying, NEW w, w = wire
    PROVE  w \in Seq(Sends) /\ Minded(w)
BY DEF Mindful

LEMMA MindfulElsewhere ==
    ASSUME Mindful, Tended, UNCHANGED wire, ~Keying
    PROVE  Mindful'
<1>1. PICK w : w = wire
  OBVIOUS
<1>2. w \in Seq(Sends) /\ Minded(w) /\ wire' = w
  BY <1>1, IdleMinded
<1>3. Minded(w)'
  BY <1>2, MindedStays
<1>. QED
  BY <1>2, <1>3 DEF Mindful

LEMMA MindfulWritten ==
    ASSUME Mindful, Tended, ~Keying, NEW sent \in Sends, Harmless(sent), Written(sent)
    PROVE  Mindful'
<1>1. PICK w : w = wire
  OBVIOUS
<1>2. w \in Seq(Sends) /\ Minded(w)
  BY <1>1, IdleMinded
<1>3. Minded(w)'
  BY <1>2, MindedStays
<1>4. CASE wire' = w
  BY <1>2, <1>3, <1>4 DEF Mindful
<1>5. CASE wire' = Append(w, sent)
  <2>1. /\ Append(w, sent) \in Seq(Sends) /\ DOMAIN w = 1..Len(w) /\ Len(w) \in Nat
        /\ DOMAIN Append(w, sent) = 1..(Len(w) + 1) /\ Append(w, sent)[Len(w) + 1] = sent
        /\ \A i \in 1..Len(w) : Append(w, sent)[i] = w[i]
    BY <1>2, AppendProperties, LenProperties
  <2>2. \A i \in 1..(Len(w) + 1) : i \in 1..Len(w) \/ i = Len(w) + 1
    BY <2>1
  <2>3. \A i \in DOMAIN Append(w, sent) :
           Append(w, sent)[i] = sent \/ (i \in DOMAIN w /\ Append(w, sent)[i] = w[i])
    BY <2>1, <2>2
  <2>4. Minded(Append(w, sent))'
    BY <1>3, <2>3 DEF Minded, Risk, Harmless
  <2>. QED
    BY <1>5, <2>1, <2>4 DEF Mindful
<1>. QED
  BY <1>1, <1>4, <1>5 DEF Written

----------------------------------------------------------------------------
(* The radio executes and answers.                                         *)

LEMMA TailValues ==
    ASSUME NEW S, NEW w \in Seq(S), w # <<>>
    PROVE  /\ Tail(w) \in Seq(S) /\ Head(w) = w[1] /\ 1 \in DOMAIN w
           /\ \A i \in DOMAIN Tail(w) : i + 1 \in DOMAIN w /\ Tail(w)[i] = w[i + 1]
<1>1. /\ Len(w) \in Nat \ {0} /\ DOMAIN w = 1..Len(w) /\ Head(w) = w[1] /\ Tail(w) \in Seq(S)
      /\ DOMAIN Tail(w) = 1..(Len(w) - 1) /\ \A i \in 1..(Len(w) - 1) : Tail(w)[i] = w[i + 1]
  BY EmptySeq, LenProperties, HeadTailProperties
<1>2. \A i \in 1..(Len(w) - 1) : i + 1 \in 1..Len(w)
  BY <1>1
<1>3. 1 \in 1..Len(w)
  BY <1>1
<1>. QED
  BY <1>1, <1>2, <1>3

LEMMA MindedExecutes ==
    ASSUME NEW w \in Seq(Sends), w # <<>>, Minded(w), AiredIsOn, "cw" \notin tx, Head(w) # "cw",
           Handled' = Handled, UNCHANGED cache_ptt,
           OnAir(Effect(Head(w))) \/ UNCHANGED <<tx, aired>>
    PROVE  Minded(Tail(w))'
<1>1. /\ Head(w) = w[1] /\ 1 \in DOMAIN w
      /\ \A i \in DOMAIN Tail(w) : \E j \in DOMAIN w : Tail(w)[i] = w[j]
  BY TailValues
<1>2. CASE Handled
  BY <1>2 DEF Minded
<1>3. CASE ~Risk(w)
  <2>1. tx = {} /\ ~Transmits(Head(w)) /\ \A i \in DOMAIN Tail(w) : ~Transmits(Tail(w)[i])
    BY <1>1, <1>3 DEF Risk
  <2>2. Effect(Head(w)) = {}
    BY <2>1 DEF Effect, Transmits
  <2>3. tx' = {}
    BY <2>1, <2>2 DEF OnAir
  <2>. QED
    BY <2>1, <2>3 DEF Minded, Risk
<1>4. CASE aired /\ cache_ptt = "on" /\ \A i \in DOMAIN w : w[i] # "unkey"
  <2>1. tx # {} /\ Head(w) # "unkey" /\ \A i \in DOMAIN Tail(w) : Tail(w)[i] # "unkey"
    BY <1>1, <1>4 DEF AiredIsOn
  <2>2. Effect(Head(w)) # {}
    BY <2>1 DEF Effect
  <2>3. aired'
    BY <1>4, <2>2 DEF OnAir
  <2>. QED
    BY <1>4, <2>1, <2>3 DEF Minded
<1>. QED
  BY <1>2, <1>3, <1>4 DEF Minded

\* Whatever is ahead of the request of a key in service answers something else.
LEMMA KeyIsExecuted ==
    ASSUME StreamHas, Streaming, Once, Keying, SetReply = "ack", wire = <<"key">>, RigExecutes,
           replies' \in {replies, Append(replies, "ack")}
    PROVE  KeyExecuted'
<1>1. /\ wire' = <<>> /\ outstanding' = outstanding /\ Tail(wire) = <<>>
      /\ Len(wire) = 1 /\ wire[1] = "key" /\ wire # <<>> /\ Serving = "key"
  BY DEF RigExecutes, Keying, Serving
<1>2. /\ Len(replies) \in Nat /\ Len(outstanding) \in Nat
      /\ DOMAIN outstanding = 1..Len(outstanding)
  BY LenProperties DEF StreamHas
<1>3. PICK f : Matching(f, outstanding, replies, wire, "key", Telling)
  BY <1>1 DEF Streaming, Stream
<1>4. \A k \in 1..Len(replies) :
         /\ k \in 1..(Len(replies) + Len(wire)) /\ Len(replies) + 1 \in 1..(Len(replies) + Len(wire))
         /\ k < Len(replies) + 1
  BY <1>1, <1>2
<1>5. \A k \in 1..Len(replies) :
         f[k] \in DOMAIN outstanding /\ f[Len(replies) + 1] \in DOMAIN outstanding
         /\ f[k] < f[Len(replies) + 1]
  BY <1>2, <1>3, <1>4 DEF Matching
<1>6. \A k \in 1..Len(replies) : f[k] \in DOMAIN outstanding /\ f[k] # Len(outstanding)
  <2>. TAKE k \in 1..Len(replies)
  <2>1. f[k] \in 1..Len(outstanding) /\ f[Len(replies) + 1] \in 1..Len(outstanding)
        /\ f[k] < f[Len(replies) + 1]
    BY <1>2, <1>5
  <2>. QED
    BY <1>2, <2>1
<1>7. \A k \in 1..Len(replies) : ~outstanding[f[k]].mine
  BY <1>6 DEF Once
<1>8. Matching(f, outstanding, replies, wire, "key", {"ack"})
  BY <1>3, <1>7 DEF Matching
<1>9. CASE replies' = replies
  <2>1. PICK g : Matching(g, outstanding, replies, <<>>, "key", {"ack"})
    BY <1>1, <1>8, MatchSilent DEF StreamHas
  <2>. QED
    BY <1>1, <1>9, <2>1 DEF KeyExecuted
<1>10. CASE replies' = Append(replies, "ack")
  <2>1. outstanding[f[Len(replies) + 1]].kind = "ack"
    <3>1. 1 \in 1..Len(wire)
      BY <1>1
    <3>. QED
      BY <1>1, <1>3, <3>1 DEF Matching, ReplyKind
  <2>2. "ack" \in Frames /\ Fits("ack", outstanding[f[Len(replies) + 1]]) /\ "ack" \in {"ack"}
    BY <2>1 DEF Fits, Frames
  <2>3. Matching(f, outstanding, Append(replies, "ack"), Tail(wire), "key", {"ack"})
    BY <1>1, <1>8, <2>2, MatchReplied DEF StreamHas
  <2>. QED
    BY <1>1, <1>10, <2>3 DEF KeyExecuted
<1>. QED
  BY <1>9, <1>10

LEMMA MindfulExecutes ==
    ASSUME SInv, SetReply = "ack", RigExecutes
    PROVE  Mindful'
<1>1. /\ wire # <<>> /\ wire' = Tail(wire) /\ wire' \in Seq(Sends)
      /\ UNCHANGED <<pc, cur, cache_ptt, outstanding>>
      /\ Handled' = Handled /\ Keying' = Keying
      /\ OnAir(Effect(Head(wire))) \/ UNCHANGED <<tx, aired>>
  <2>1. /\ wire # <<>> /\ wire' = Tail(wire)
        /\ UNCHANGED <<pc, cur, cache_ptt, outstanding, alarm, link_up, emergency, calls,
                       keyed_since>>
        /\ OnAir(Effect(Head(wire))) \/ UNCHANGED <<tx, aired>>
    BY DEF RigExecutes, Environment, Actors, taskVars, stateVars, radioVars, queueVars, callVars
  <2>2. wire' \in Seq(Sends)
    BY <2>1, SInvHas, TailValues DEF StreamHas
  <2>. QED
    BY <2>1, <2>2 DEF Handled, Coming, Unkeying, Keying
<1>2. StreamHas /\ Streaming /\ AiredIsOn /\ Once /\ Mindful /\ "cw" \notin tx
      /\ \A i \in DOMAIN wire : wire[i] # "cw"
  BY SInvHas DEF SInv, VoiceOnly
<1>3. Head(wire) # "cw" /\ ~KeyExecuted
  BY <1>1, <1>2, TailValues DEF StreamHas, KeyExecuted
<1>4. PICK w \in Seq(Sends) : Minded(w) /\ (wire = w \/ (Keying /\ wire = Append(w, "key")))
  BY <1>2, <1>3 DEF Mindful
<1>5. CASE wire = w
  <2>1. Minded(Tail(w))'
    BY <1>1, <1>2, <1>3, <1>4, <1>5, MindedExecutes
  <2>. QED
    BY <1>1, <1>5, <2>1 DEF Mindful
<1>6. CASE Keying /\ wire = Append(w, "key") /\ w # <<>>
  <2>1. /\ Tail(w) \in Seq(Sends) /\ Head(wire) = Head(w) /\ Tail(wire) = Append(Tail(w), "key")
    BY <1>6
  <2>2. Minded(Tail(w))'
    BY <1>1, <1>2, <1>3, <1>4, <1>6, <2>1, MindedExecutes
  <2>. QED
    BY <1>1, <1>6, <2>1, <2>2 DEF Mindful
<1>7. CASE Keying /\ wire = Append(w, "key") /\ w = <<>>
  <2>1. wire = <<"key">> /\ Head(wire) = "key" /\ wire' = w
    BY <1>1, <1>7
  <2>2. \/ replies' \in {replies, Append(replies, "ack")}
        \/ UNCHANGED <<tx, aired>>
    BY <2>1 DEF RigExecutes, ReplyKind, Answer, radioVars
  <2>3. CASE replies' \in {replies, Append(replies, "ack")}
    <3>1. KeyExecuted'
      BY <1>2, <1>7, <2>1, <2>3, KeyIsExecuted
    <3>. QED
      BY <1>1, <1>7, <3>1 DEF Mindful
  <2>4. CASE UNCHANGED <<tx, aired>>
    <3>1. Tended
      BY <1>1, <2>4 DEF Tended
    <3>2. Minded(w)'
      BY <1>4, <3>1, MindedStays
    <3>. QED
      BY <2>1, <3>2 DEF Mindful
  <2>. QED
    BY <2>2, <2>3, <2>4
<1>. QED
  BY <1>4, <1>5, <1>6, <1>7

----------------------------------------------------------------------------
(* The reply that decides a command.                                       *)

\* The reply that decides a key is the last thing in flight; it is no refusal of a
\* key that was executed.
LEMMA KeyDecided ==
    ASSUME StreamHas, Streaming, Once, Keying, replies # <<>>, ~Stale(Head(replies))
    PROVE  wire = <<>> /\ (KeyExecuted => Head(replies) = "ack")
<1>. DEFINE i == Claim(Head(replies))
<1>1. PICK f : Matching(f, outstanding, replies, wire, Serving, Telling)
  BY DEF Streaming, Stream
<1>2. /\ i \in 1..Len(outstanding) /\ i \in DOMAIN outstanding /\ i <= f[1]
      /\ Head(replies) = replies[1] /\ 1 \in 1..Len(replies)
      /\ Fits(Head(replies), outstanding[i])
  BY <1>1, FirstReply DEF Streaming
<1>3. /\ Len(replies) \in Nat \ {0} /\ Len(wire) \in Nat /\ Len(outstanding) \in Nat
      /\ DOMAIN outstanding = 1..Len(outstanding)
  BY LenProperties, EmptySeq DEF StreamHas
<1>4. i = Len(outstanding)
  <2>1. i # 0
    BY <1>2, <1>3
  <2>2. outstanding[i].mine
    BY <2>1 DEF Stale
  <2>. HIDE DEF i
  <2>. QED
    BY <1>2, <2>2 DEF Once
<1>. HIDE DEF i
<1>5. wire = <<>>
  <2>1. SUFFICES ASSUME Len(wire) # 0
                 PROVE  FALSE
    BY EmptySeq DEF StreamHas
  <2>2. /\ 1 \in 1..(Len(replies) + Len(wire)) /\ Len(replies) + 1 \in 1..(Len(replies) + Len(wire))
        /\ 1 < Len(replies) + 1
    BY <1>3, <2>1
  <2>3. f[1] < f[Len(replies) + 1] /\ f[Len(replies) + 1] \in 1..Len(outstanding)
        /\ f[1] \in 1..Len(outstanding)
    BY <1>1, <2>2 DEF Matching
  <2>. QED
    BY <1>2, <1>3, <1>4, <2>3
<1>6. ASSUME KeyExecuted
      PROVE  Head(replies) = "ack"
  <2>1. PICK g : Matching(g, outstanding, replies, <<>>, "key", {"ack"})
    BY <1>6 DEF KeyExecuted
  <2>2. 1 \in 1..(Len(replies) + Len(<<>>))
    BY <1>3
  <2>3. g[1] \in 1..Len(outstanding) /\ g[1] \in DOMAIN outstanding
    BY <1>3, <2>1, <2>2 DEF Matching
  <2>4. Fits(Head(replies), outstanding[g[1]]) /\ (outstanding[g[1]].mine => Head(replies) \in {"ack"})
    BY <1>2, <2>1 DEF Matching
  <2>5. i <= g[1]
    BY <2>3, <2>4, ClaimIsOldest DEF i
  <2>6. g[1] = i
    BY <1>3, <1>4, <2>3, <2>5
  <2>7. outstanding[i].mine
    <3>1. i # 0
      BY <1>2, <1>3
    <3>. QED
      BY <3>1 DEF Stale, i
  <2>. QED
    BY <2>4, <2>6, <2>7
<1>. QED
  BY <1>5, <1>6

\* Behind the reply that decides an unkey there are only attempts of it.
LEMMA UnkeyDecided ==
    ASSUME StreamHas, Streaming, replies # <<>>, Serving = "unkey", PanelMoves = 0,
           NEW kind, Decides(Head(replies), kind) = "ok", Head(replies) = "ack"
    PROVE  ~Risk(wire)
<1>. DEFINE i == Claim(Head(replies))
<1>1. PICK f : Matching(f, outstanding, replies, wire, Serving, Telling)
  BY DEF Streaming, Stream
<1>2. /\ i \in 1..Len(outstanding) /\ i \in DOMAIN outstanding /\ i <= f[1]
      /\ Head(replies) = replies[1] /\ 1 \in 1..Len(replies)
  BY <1>1, FirstReply DEF Streaming
<1>3. /\ Len(replies) \in Nat \ {0} /\ Len(wire) \in Nat /\ Len(outstanding) \in Nat
      /\ DOMAIN outstanding = 1..Len(outstanding) /\ DOMAIN wire = 1..Len(wire)
  BY LenProperties, EmptySeq DEF StreamHas
<1>4. outstanding[i].mine
  <2>1. ~Stale(Head(replies))
    BY DEF Decides
  <2>2. i # 0
    BY <1>2, <1>3
  <2>. QED
    BY <2>1, <2>2 DEF Stale
<1>. HIDE DEF i
<1>5. ASSUME NEW k \in 1..Len(wire)
      PROVE  wire[k] = "unkey"
  <2>1. /\ 1 \in 1..(Len(replies) + Len(wire)) /\ Len(replies) + k \in 1..(Len(replies) + Len(wire))
        /\ 1 < Len(replies) + k
    BY <1>3
  <2>2. f[1] < f[Len(replies) + k] /\ f[Len(replies) + k] \in 1..Len(outstanding)
        /\ f[1] \in 1..Len(outstanding)
    BY <1>1, <2>1 DEF Matching
  <2>3. i < f[Len(replies) + k] /\ f[Len(replies) + k] \in DOMAIN outstanding
    BY <1>2, <1>3, <2>2
  <2>4. outstanding[f[Len(replies) + k]].mine
    BY <1>2, <1>4, <2>3 DEF Streaming, Ours
  <2>. QED
    BY <1>1, <2>4 DEF Matching
<1>6. tx = {}
  BY UnkeyTold DEF Cleared
<1>. QED
  BY <1>3, <1>5, <1>6 DEF Risk, Transmits

----------------------------------------------------------------------------
(* The actor minds the risk.                                               *)

LEMMA CountedStay ==
    ASSUME NEW cmd, NEW result, NEW failed, Complete(cmd, result, failed)
    PROVE  \A c \in Clients : calls[c] = "counted" <=> calls'[c] = "counted"
BY DEF Complete

LEMMA ComingStays ==
    ASSUME UNCHANGED emergency, \A c \in Clients : calls[c] = "counted" => calls'[c] = "counted"
    PROVE  Coming => Coming'
BY DEF Coming

\* A step of the actor that reports, ends and hides nothing.
LEMMA TendsOn ==
    ASSUME UNCHANGED <<tx, link_up, emergency>>,
           "air" \in alarm => "air" \in alarm', aired => aired',
           \A c \in Clients : calls[c] = "counted" => calls'[c] = "counted",
           Unkeying \/ (pc = "select" /\ keyed_since = "due") => Handled',
           aired /\ cache_ptt = "on" => cache_ptt' = "on"
    PROVE  Tended
<1>1. Coming => Coming'
  BY ComingStays
<1>. QED
  BY <1>1 DEF Tended, Handled

LEMMA CompleteTends ==
    ASSUME SetReply = "ack", NEW cmd, NEW result, Complete(cmd, result, FALSE),
           result # "ok" \/ ~Transmits(cmd.op),
           UNCHANGED <<tx, link_up, emergency>>,
           Unkeying \/ (pc = "select" /\ keyed_since = "due") => Handled',
           aired /\ cache_ptt = "on" => cache_ptt' = "on"
    PROVE  Tended
<1>1. "air" \in alarm => "air" \in alarm'
  BY EndedAir DEF NoNews
<1>2. aired => aired'
  BY DEF Complete
<1>. QED
  BY <1>1, <1>2, CountedStay, TendsOn

LEMMA BeginTends ==
    ASSUME SetReply = "ack", NEW cmd, Begin(cmd), UNCHANGED <<tx, link_up, emergency, cache_ptt>>,
           ~Unkeying, ~(pc = "select" /\ keyed_since = "due")
    PROVE  Tended
<1>1. CASE \E reason \in Refusals(cmd) : Complete(cmd, reason, FALSE)
  <2>1. "ok" \notin Refusals(cmd)
    BY DEF Refusals
  <2>. QED
    BY <1>1, <2>1, CompleteTends
<1>2. CASE UNCHANGED <<callVars, aired, alarm>>
  BY <1>2, TendsOn DEF callVars
<1>. QED
  BY <1>1, <1>2 DEF Begin

\* An unkey begins, or its refusal is reported.
LEMMA UnkeyBegins ==
    ASSUME NEW cmd, cmd.op = "unkey", Begin(cmd)
    PROVE  Handled'
<1>1. CASE \E reason \in Refusals(cmd) : Complete(cmd, reason, FALSE)
  <2>1. "ok" \notin Refusals(cmd)
    BY DEF Refusals
  <2>2. alarm' = Failures
    BY <1>1, <2>1 DEF Complete, IsUnkey
  <2>. QED
    BY <2>2 DEF Handled, Failures
<1>2. CASE cur' = cmd
  BY <1>2 DEF Handled, Unkeying
<1>. QED
  BY <1>1, <1>2 DEF Begin

LEMMA FailClosedHandles ==
    ASSUME NEW next, FailClosed(next)
    PROVE  Handled'
BY DEF FailClosed, Handled, Unkeying

LEMMA LinkDownHandles == ASSUME ~link_up' PROVE Handled'
BY DEF Handled

\* A report of a rig on the air leaves it so in the cache.
LEMMA ObservedCache ==
    ASSUME StreamHas, OffIsOld, replies # <<>>, ObserveFrame(Head(replies)), aired, cache_ptt = "on"
    PROVE  cache_ptt' = "on"
<1>1. 1 \in DOMAIN replies /\ Head(replies) = replies[1]
  BY LenProperties, EmptySeq DEF StreamHas
<1>2. Head(replies) # "off"
  BY <1>1 DEF OffIsOld
<1>. QED
  BY <1>2 DEF ObserveFrame, Observe, Report, stateVars

\* Between commands.
LEMMA IdleMinds ==
    ASSUME SInv, SetReply = "ack",
           \/ TakeEmergency \/ LinkStatusChanged \/ WatchdogFire \/ TakeNormal \/ ServeHeld
           \/ ReadIdle \/ LoseLinkIdle \/ PollOnce \/ Stop
    PROVE  Mindful'
<1>1. /\ StreamHas /\ Mindful /\ OffIsOld /\ CacheFollows
      /\ pc \notin {"drain", "write", "await", "unkey", "unkeyAwait"} => cur = NoCommand
  BY SInvHas DEF SInv, Airing
<1>2. /\ pc \in {"start", "select", "held"} /\ UNCHANGED <<wire, tx>>
  <2>1. CASE ReadIdle
    BY <2>1 DEF ReadIdle, Idle, radioVars
  <2>2. CASE TakeEmergency \/ LinkStatusChanged \/ WatchdogFire \/ TakeNormal
    BY <2>2 DEF TakeEmergency, LinkStatusChanged, WatchdogFire, TakeNormal, Idle, radioVars
  <2>3. CASE ServeHeld \/ LoseLinkIdle \/ PollOnce \/ Stop
    BY <2>3 DEF ServeHeld, LoseLinkIdle, PollOnce, Stop, Idle, radioVars, wireVars
  <2>. QED
    BY <2>1, <2>2, <2>3
<1>3. ~Keying /\ ~Unkeying /\ wire' \in Seq(Sends)
  BY <1>1, <1>2 DEF Keying, Unkeying, NoCommand, StreamHas
<1>4. Tended => Mindful'
  BY <1>1, <1>2, <1>3, MindfulElsewhere
<1>5. Handled' => Mindful'
  BY <1>3, HandledIsMindful
<1>6. CASE TakeEmergency
  <2>1. Begin(Head(emergency)) /\ emergency # <<>> /\ emergency \in Seq(Requests)
    BY <1>6, SInvHas DEF TakeEmergency, QueueTypes
  <2>2. Head(emergency).op = "unkey"
    BY <2>1, TailValues DEF SInv, VoiceOnly
  <2>. QED
    BY <1>5, <2>1, <2>2, UnkeyBegins
<1>7. CASE LinkStatusChanged
  <2>1. UNCHANGED <<tx, emergency, calls, alarm, aired, cache_ptt, keyed_since, cur>>
    BY <1>7, <1>2 DEF LinkStatusChanged, queueVars, callVars, stateVars
  <2>2. \/ ~link_up' \/ FailClosed("restored")
        \/ UNCHANGED link_up /\ (pc = "select" => pc' = "select")
    <3>1. CASE status # "Connected"
      BY <3>1, <1>7 DEF LinkStatusChanged
    <3>2. CASE status = "Connected" /\ generation = link_generation
      BY <3>2, <1>7 DEF LinkStatusChanged
    <3>3. CASE status = "Connected" /\ generation # link_generation
      BY <3>3, <1>7 DEF LinkStatusChanged, NothingToUnkey
    <3>. QED
      BY <3>1, <3>2, <3>3
  <2>3. CASE UNCHANGED link_up /\ (pc = "select" => pc' = "select")
    <3>1. pc = "select" /\ keyed_since = "due" => Handled'
      BY <2>1, <2>3 DEF Handled
    <3>. QED
      BY <1>3, <1>4, <2>1, <2>3, <3>1, TendsOn
  <2>. QED
    BY <1>5, <2>2, <2>3, FailClosedHandles, LinkDownHandles
<1>8. CASE WatchdogFire
  BY <1>5, <1>8, FailClosedHandles DEF WatchdogFire
<1>9. CASE TakeNormal
  <2>1. /\ UNCHANGED <<link_up, emergency, cache_ptt>> /\ keyed_since # "due"
        /\ Begin(Head(normal)) \/ UNCHANGED <<callVars, aired, alarm>>
    BY <1>9 DEF TakeNormal, NothingUrgent, linkVars, stateVars
  <2>. QED
    BY <1>2, <1>3, <1>4, <2>1, BeginTends, TendsOn DEF callVars
<1>10. CASE ServeHeld
  <2>1. UNCHANGED <<link_up, emergency, cache_ptt>> /\ pc = "held" /\ Begin(held)
    BY <1>10 DEF ServeHeld, linkVars, stateVars, queueVars
  <2>. QED
    BY <1>2, <1>3, <1>4, <2>1, BeginTends
<1>11. CASE ReadIdle
  <2>1. /\ UNCHANGED <<link_up, emergency, calls, alarm, aired>> /\ keyed_since # "due"
        /\ replies # <<>> /\ ObserveFrame(Head(replies))
    BY <1>11 DEF ReadIdle, NothingUrgent, linkVars, queueVars, callVars
  <2>2. aired /\ cache_ptt = "on" => cache_ptt' = "on"
    BY <1>1, <2>1, ObservedCache
  <2>. QED
    BY <1>2, <1>3, <1>4, <2>1, <2>2, TendsOn
<1>12. CASE LoseLinkIdle
  BY <1>5, <1>12, LinkDownHandles DEF LoseLinkIdle
<1>13. CASE PollOnce
  <2>1. /\ UNCHANGED <<link_up, emergency, cache_ptt>> /\ keyed_since # "due" /\ Begin(Poll)
    BY <1>13 DEF PollOnce, NothingUrgent, linkVars, stateVars, queueVars
  <2>. QED
    BY <1>2, <1>3, <1>4, <2>1, BeginTends
<1>14. CASE Stop
  <2>1. CASE MayTransmit
    BY <1>5, <1>14, <2>1, FailClosedHandles DEF Stop
  <2>2. CASE ~MayTransmit
    <3>1. /\ UNCHANGED <<link_up, emergency, calls, alarm, aired, cache_ptt>>
          /\ cache_ptt # "on"
      BY <1>14, <2>2 DEF Stop, MayTransmit, linkVars, stateVars, queueVars
    <3>2. keyed_since # "due"
      BY <1>1, <3>1 DEF CacheFollows
    <3>. QED
      BY <1>2, <1>3, <1>4, <3>1, <3>2, TendsOn
  <2>. QED
    BY <2>1, <2>2
<1>. QED
  BY <1>6, <1>7, <1>8, <1>9, <1>10, <1>11, <1>12, <1>13, <1>14

----------------------------------------------------------------------------
(* A command is served.                                                    *)

LEMMA CountedIsComing ==
    ASSUME SInv, emergency_pending > 0
    PROVE  Coming
<1>. DEFINE counted == {c \in Clients : calls[c] = "counted"}
<1>1. SUFFICES ASSUME ~Coming
               PROVE  FALSE
  OBVIOUS
<1>2. Len(emergency) = 0
  BY <1>1, EmptySeq DEF Coming
<1>3. Cardinality(counted) = 0
  <2>1. counted = {}
    BY <1>1 DEF Coming
  <2>. QED
    BY <2>1, FS_EmptySet
<1>4. emergency_pending = Len(emergency) + Cardinality(counted)
  BY DEF SInv, UInv, CInv, IInv, PendingIsExact
<1>. HIDE DEF counted
<1>. QED
  BY <1>2, <1>3, <1>4

\* A key that was executed stays so while older replies are read.
LEMMA KeyStaysExecuted ==
    ASSUME StreamHas, KeyExecuted, replies # <<>>, Absorb(Head(replies)), UNCHANGED wire
    PROVE  KeyExecuted'
<1>1. PICK g : Matching(g, outstanding, replies, <<>>, "key", {"ack"})
  BY DEF KeyExecuted
<1>2. /\ Len(replies) \in Nat \ {0} /\ Len(<<>>) = 0 /\ Head(replies) = replies[1]
      /\ DOMAIN outstanding = 1..Len(outstanding)
  BY LenProperties, EmptySeq, HeadTailProperties DEF StreamHas
<1>3. 1 \in 1..Len(replies) /\ 1 \in 1..(Len(replies) + Len(<<>>))
  BY <1>2
<1>4. g[1] \in DOMAIN outstanding /\ Fits(Head(replies), outstanding[g[1]])
  BY <1>1, <1>2, <1>3 DEF Matching
<1>5. Claim(Head(replies)) \in 1..Len(outstanding) /\ Claim(Head(replies)) <= g[1]
  BY <1>4, ClaimIsOldest
<1>6. <<>> \in Seq(Sends)
  BY EmptySeq
<1>7. \E h : Matching(h, Without(outstanding, Claim(Head(replies))), Tail(replies), <<>>, "key",
                      {"ack"})
  BY <1>1, <1>5, <1>6, MatchAbsorbed DEF StreamHas
<1>. QED
  BY <1>7 DEF KeyExecuted, Absorb

LEMMA MindfulReads ==
    ASSUME StreamHas, Mindful, Tended, replies # <<>>, Absorb(Head(replies)), UNCHANGED wire,
           Keying => Keying'
    PROVE  Mindful'
<1>1. CASE Keying /\ KeyExecuted
  BY <1>1, KeyStaysExecuted DEF Mindful
<1>2. CASE \E w \in Seq(Sends) : Minded(w) /\ (wire = w \/ (Keying /\ wire = Append(w, "key")))
  <2>1. PICK w \in Seq(Sends) : Minded(w) /\ (wire = w \/ (Keying /\ wire = Append(w, "key")))
    BY <1>2
  <2>2. Minded(w)'
    BY <2>1, MindedStays
  <2>. QED
    BY <2>1, <2>2 DEF Mindful
<1>. QED
  BY <1>1, <1>2 DEF Mindful

\* A command other than a key ends: an unkey reports its failure.
LEMMA EndMinds ==
    ASSUME SInv, SetReply = "ack", NEW result, result # "ok" \/ cur.op # "unkey",
           Complete(cur, result, FALSE), pc \in {"drain", "write", "await"}, ~Transmits(cur.op),
           UNCHANGED <<wire, tx, link_up, emergency>>,
           aired /\ cache_ptt = "on" => cache_ptt' = "on"
    PROVE  Mindful'
<1>1. StreamHas /\ Mindful /\ ~Keying
  BY SInvHas DEF SInv, Keying, Transmits
<1>2. CASE cur.op = "unkey"
  <2>1. alarm' = Failures
    BY <1>2 DEF Complete, IsUnkey
  <2>. QED
    BY <1>1, <2>1, HandledIsMindful DEF Handled, Failures, StreamHas
<1>3. CASE cur.op # "unkey"
  <2>1. ~Unkeying /\ pc # "select"
    BY <1>3 DEF Unkeying
  <2>2. Tended
    BY <2>1, CompleteTends
  <2>. QED
    BY <1>1, <2>2, MindfulElsewhere
<1>. QED
  BY <1>2, <1>3

LEMMA WriteMinds ==
    ASSUME SInv, SetReply = "ack", NEW expired \in BOOLEAN, WriteCommand(expired)
    PROVE  Mindful'
<1>1. StreamHas /\ Mindful /\ CommandsAreReal /\ pc \in {"drain", "write"}
      /\ (pc = "write" => cur.op # "key") /\ cur.op \notin {"cw", "stop"}
  BY SInvHas DEF SInv, WriteCommand
<1>2. ReplyKind(cur.op) # "none" /\ cur.op \in Operations /\ cur.op \in Sends
  BY <1>1, ServingCommand
<1>3. /\ Written(cur.op) /\ pc' = "await" /\ ~Keying
      /\ UNCHANGED <<alarm, aired, calls, cur, cache_ptt, tx, link_up, emergency>>
  BY <1>1, <1>2 DEF WriteCommand, callVars, stateVars, radioVars, linkVars, queueVars, Keying
<1>4. Tended
  BY <1>1, <1>3, TendsOn DEF Unkeying, Handled
<1>5. CASE cur.op = "key"
  <2>1. PICK w : w = wire
    OBVIOUS
  <2>2. w \in Seq(Sends) /\ Minded(w)
    BY <1>1, <1>3, <2>1, IdleMinded
  <2>3. Minded(w)' /\ Keying' /\ (wire' = w \/ wire' = Append(w, "key"))
    BY <1>3, <1>4, <1>5, <2>1, <2>2, MindedStays DEF Written, Keying
  <2>. QED
    BY <2>2, <2>3 DEF Mindful
<1>6. CASE cur.op = "unkey"
  <2>1. wire' \in Seq(Sends)
    BY <1>1, <1>2, <1>3 DEF Written, StreamHas
  <2>. QED
    BY <1>3, <1>6, <2>1, HandledIsMindful DEF Handled, Unkeying
<1>7. CASE cur.op \notin {"key", "unkey"}
  <2>1. Harmless(cur.op)
    BY <1>1, <1>7 DEF Harmless, Transmits
  <2>. QED
    BY <1>1, <1>2, <1>3, <1>4, <2>1, MindfulWritten
<1>. QED
  BY <1>5, <1>6, <1>7

LEMMA TimeoutMinds ==
    ASSUME SInv, SetReply = "ack", WriteTimesOut \/ ReplyTimesOut
    PROVE  Mindful'
<1>1. /\ StreamHas /\ Mindful /\ TaskTypes /\ pc \in {"drain", "write", "await"}
      /\ UNCHANGED <<wire, tx, link_up, emergency, cache_ptt, keyed_since>>
  BY SInvHas DEF SInv, WriteTimesOut, ReplyTimesOut, radioVars, linkVars, queueVars, stateVars
<1>2. CASE FailClosed("timeout")
  BY <1>1, <1>2, FailClosedHandles, HandledIsMindful DEF StreamHas
<1>3. CASE ~Transmits(cur.op) /\ Complete(cur, "Timeout", FALSE)
  BY <1>1, <1>3, EndMinds
<1>4. CASE /\ ReplyTimesOut /\ ~late /\ NextAttempt < AttemptsFor(cur.op)
           /\ UNCHANGED <<callVars, aired, alarm, cur>>
  <2>1. ~Transmits(cur.op)
    <3>1. tries \in Nat
      BY <1>1 DEF TaskTypes
    <3>2. ~(tries + 1 < 1)
      BY <3>1
    <3>. QED
      BY <1>4, <3>2 DEF AttemptsFor, NextAttempt
  <2>2. ~Keying /\ (Unkeying => Unkeying') /\ UNCHANGED calls
    BY <1>1, <1>4, <2>1 DEF Keying, Transmits, Unkeying, callVars
  <2>3. Tended
    BY <1>1, <1>4, <2>2, TendsOn DEF Handled
  <2>. QED
    BY <1>1, <2>2, <2>3, MindfulElsewhere
<1>5. CASE WriteTimesOut
  BY <1>2, <1>3, <1>5 DEF WriteTimesOut
<1>6. CASE ReplyTimesOut
  BY <1>2, <1>3, <1>4, <1>6 DEF ReplyTimesOut
<1>. QED
  BY <1>5, <1>6

LEMMA AwaitMinds ==
    ASSUME SInv, SetReply = "ack", PanelMoves = 0, AwaitReply
    PROVE  Mindful'
<1>. DEFINE frame   == Head(replies)
            outcome == Decides(frame, ReplyKind(cur.op))
<1>1. /\ StreamHas /\ Mindful /\ CommandsAreReal /\ Streaming /\ OffIsOld /\ Once
      /\ pc = "await" /\ Serving = cur.op /\ cur.op \notin {"cw", "stop"}
  BY SInvHas DEF SInv, Airing, AwaitReply
<1>2. /\ replies # <<>> /\ Absorb(frame)
      /\ IF outcome = "ok" /\ frame = "ack" THEN ApplySet(cur.op) ELSE ObserveFrame(frame)
      /\ \/ outcome = "none" /\ UNCHANGED <<callVars, aired, alarm, pc, cur>>
         \/ outcome # "none" /\ Complete(cur, outcome, FALSE)
      /\ UNCHANGED <<wire, tx, link_up, emergency>>
  BY DEF AwaitReply, radioVars, linkVars, queueVars
<1>3. ReplyKind(cur.op) = IF cur.op = "get" THEN "ptt" ELSE "ack"
  BY DEF ReplyKind
<1>4. outcome \in {"none", "ok", "Rejected"}
      /\ (outcome = "ok" => frame = "ack" \/ cur.op = "get") /\ (outcome = "Rejected" => frame = "nak")
      /\ (outcome = "ok" /\ frame = "ack" => cur.op # "get")
      /\ (outcome # "none" => ~Stale(frame))
  BY <1>3 DEF Decides
<1>. HIDE DEF outcome
<1>5. ObserveFrame(frame) => (aired /\ cache_ptt = "on" => cache_ptt' = "on")
  BY <1>1, <1>2, ObservedCache
<1>6. wire' \in Seq(Sends)
  BY <1>1, <1>2 DEF StreamHas
<1>7. CASE outcome = "none"
  <2>1. ObserveFrame(frame) /\ UNCHANGED <<callVars, aired, alarm, pc, cur>>
    BY <1>2, <1>7
  <2>2. (Unkeying => Unkeying') /\ UNCHANGED calls
    BY <2>1 DEF Unkeying, callVars
  <2>3. Tended
    BY <1>1, <1>2, <1>5, <2>1, <2>2, TendsOn DEF Handled
  <2>4. Keying => Keying'
    BY <2>1 DEF Keying
  <2>. QED
    BY <1>1, <1>2, <2>3, <2>4, MindfulReads
<1>8. CASE outcome # "none" /\ cur.op = "key"
  <2>1. Keying /\ wire = <<>> /\ (KeyExecuted => frame = "ack")
    BY <1>1, <1>2, <1>4, <1>8, KeyDecided DEF Keying
  <2>2. CASE outcome = "ok"
    <3>1. ApplySet("key") /\ frame = "ack"
      BY <1>2, <1>4, <1>8, <2>2
    <3>2. cache_ptt' = "on"
      BY <3>1 DEF ApplySet, Observe, Report
    <3>3. tx' # {} => aired'
      BY <1>2, <1>8, <2>2 DEF Complete, Transmits
    <3>4. wire' = <<>> /\ DOMAIN wire' = {}
      BY <1>2, <2>1
    <3>5. Minded(wire)'
      BY <3>2, <3>3, <3>4 DEF Minded, Risk
    <3>. QED
      BY <1>6, <3>5 DEF Mindful
  <2>3. CASE outcome = "Rejected"
    <3>1. frame = "nak" /\ ~KeyExecuted /\ ObserveFrame(frame)
      BY <1>2, <1>4, <2>1, <2>3
    <3>2. PICK w \in Seq(Sends) : Minded(w) /\ (wire = w \/ wire = Append(w, "key"))
      BY <1>1, <3>1 DEF Mindful
    <3>3. Append(w, "key") # <<>>
      BY <3>2, AppendProperties, EmptySeq DEF Sends, Operations
    <3>4. ~Unkeying /\ pc # "select"
      BY <1>1, <1>8 DEF Unkeying
    <3>5. Tended
      BY <1>2, <1>5, <2>3, <3>1, <3>4, CompleteTends
    <3>6. Minded(w)' /\ wire' = w
      BY <1>2, <2>1, <3>2, <3>3, <3>5, MindedStays
    <3>. QED
      BY <3>2, <3>6 DEF Mindful
  <2>. QED
    BY <1>4, <1>8, <2>2, <2>3
<1>9. CASE outcome = "ok" /\ cur.op = "unkey"
  <2>1. ~Risk(wire)
    BY <1>1, <1>2, <1>4, <1>9, UnkeyDecided DEF outcome
  <2>2. ~Risk(wire)'
    BY <1>2, <2>1 DEF Risk
  <2>. QED
    BY <1>6, <2>2, QuietIsMindful
<1>10. CASE outcome # "none" /\ cur.op # "key" /\ ~(outcome = "ok" /\ cur.op = "unkey")
  <2>1. ~Transmits(cur.op) /\ Complete(cur, outcome, FALSE)
    BY <1>1, <1>2, <1>10 DEF Transmits
  <2>2. CASE ObserveFrame(frame)
    BY <1>1, <1>2, <1>5, <1>10, <2>1, <2>2, EndMinds
  <2>3. CASE outcome = "ok" /\ frame = "ack"
    <3>1. UNCHANGED cache_ptt
      BY <1>1, <1>2, <1>10, <2>3 DEF ApplySet, stateVars
    <3>. QED
      BY <1>1, <1>2, <1>10, <2>1, <3>1, EndMinds
  <2>. QED
    BY <1>2, <2>2, <2>3
<1>. QED
  BY <1>7, <1>8, <1>9, <1>10

LEMMA ServeMinds ==
    ASSUME SInv, SetReply = "ack", PanelMoves = 0,
           \/ Woken \/ DrainStale \/ LoseLinkServing
           \/ (\E expired \in BOOLEAN : WriteCommand(expired))
           \/ WriteTimesOut \/ AwaitReply \/ WatchdogPreempts \/ ReplyTimesOut
    PROVE  Mindful'
<1>1. StreamHas /\ Mindful /\ OffIsOld
  BY SInvHas DEF SInv, Airing
<1>2. CASE Woken
  <2>1. UNCHANGED <<wire, outstanding, replies, tx, link_up, emergency, keyed_since, cache_ptt>>
    BY <1>2 DEF Woken, wireVars, radioVars, linkVars, stateVars
  <2>2. CASE emergency_pending > 0
    <3>1. Coming
      BY <2>2, CountedIsComing
    <3>2. \A c \in Clients : calls[c] = "counted" => calls'[c] = "counted"
      BY <1>2, <2>2, CountedStay DEF Woken
    <3>3. Handled'
      BY <2>1, <3>1, <3>2, ComingStays DEF Handled
    <3>. QED
      BY <1>1, <2>1, <3>3, HandledIsMindful DEF StreamHas
  <2>3. CASE ~(emergency_pending > 0)
    <3>1. UNCHANGED <<calls, aired, alarm, pc, cur>>
      BY <1>2, <2>3 DEF Woken, callVars
    <3>2. Tended
      BY <2>1, <3>1, TendsOn DEF Unkeying, Handled
    <3>. QED
      BY <1>1, <2>1, <3>1, <3>2, MindfulStays DEF Keying, wireVars
  <2>. QED
    BY <2>2, <2>3
<1>3. CASE DrainStale
  <2>1. /\ UNCHANGED <<wire, tx, link_up, emergency, calls, aired, alarm, pc, cur>>
        /\ pc = "drain" /\ replies # <<>> /\ ObserveFrame(Head(replies))
    BY <1>3 DEF DrainStale, radioVars, linkVars, queueVars, callVars, taskVars
  <2>2. aired /\ cache_ptt = "on" => cache_ptt' = "on"
    BY <1>1, <2>1, ObservedCache
  <2>3. Tended
    BY <2>1, <2>2, TendsOn DEF Unkeying, Handled
  <2>. QED
    BY <1>1, <2>1, <2>3, MindfulElsewhere DEF Keying
<1>4. CASE LoseLinkServing
  <2>1. ~link_up' /\ UNCHANGED wire
    BY <1>4 DEF LoseLinkServing, LinkLost, wireVars
  <2>. QED
    BY <1>1, <2>1, LinkDownHandles, HandledIsMindful DEF StreamHas
<1>5. CASE WatchdogPreempts
  <2>1. /\ UNCHANGED <<wire, tx, link_up, emergency, cache_ptt, keyed_since>>
        /\ pc = "await" /\ keyed_since = "due" /\ Complete(cur, "Cancelled", FALSE)
    BY <1>5 DEF WatchdogPreempts, wireVars, radioVars, linkVars, queueVars, stateVars
  <2>2. CASE pc' = "select"
    BY <1>1, <2>1, <2>2, HandledIsMindful DEF Handled, StreamHas
  <2>3. CASE pc' # "select"
    <3>1. cur = Poll
      BY <2>1, <2>3 DEF Complete
    <3>2. ~Transmits(cur.op)
      BY <3>1 DEF Poll, Transmits
    <3>. QED
      BY <2>1, <3>2, EndMinds
  <2>. QED
    BY <2>2, <2>3
<1>. QED
  BY <1>2, <1>3, <1>4, <1>5, WriteMinds, TimeoutMinds, AwaitMinds

----------------------------------------------------------------------------
(* The unkey, the session, the radio and the callers.                      *)

LEMMA UnkeyMinds ==
    ASSUME SInv, SetReply = "ack", PanelMoves = 0,
           WriteUnkey \/ UnkeyWriteFails \/ UnkeyAttemptFails \/ UnkeyAwait \/ UnkeyGivesUp
    PROVE  Mindful'
<1>1. StreamHas /\ Streaming /\ TaskTypes
  BY SInvHas
<1>2. wire' \in Seq(Sends)
  <2>1. wire' = wire \/ wire' = Append(wire, "unkey")
    BY DEF WriteUnkey, UnkeyWriteFails, UnkeyAttemptFails, UnkeyAwait, UnkeyGivesUp, Written, wireVars
  <2>2. "unkey" \in Sends
    BY DEF Sends, Operations
  <2>. QED
    BY <1>1, <2>1, <2>2 DEF StreamHas
<1>3. CASE UnkeyDone(FALSE)
  <2>1. alarm' = Failures
    BY <1>1, <1>3, UnkeyDoneAir
  <2>. QED
    BY <1>2, <2>1, HandledIsMindful DEF Handled, Failures
<1>4. CASE pc' \in {"unkey", "unkeyAwait"}
  BY <1>2, <1>4, HandledIsMindful DEF Handled, Unkeying
<1>5. CASE UnkeyAwait /\ Decides(Head(replies), SetReply) = "ok"
  <2>1. /\ replies # <<>> /\ Serving = "unkey" /\ Head(replies) = "ack"
        /\ UNCHANGED <<wire, tx>>
    BY <1>5, SInvHas DEF UnkeyAwait, Decides, UnkeyUnchanged, radioVars
  <2>2. ~Risk(wire)
    BY <1>1, <1>5, <2>1, UnkeyDecided
  <2>3. ~Risk(wire)'
    BY <2>1, <2>2 DEF Risk
  <2>. QED
    BY <1>2, <2>3, QuietIsMindful
<1>6. CASE UnkeyAwait /\ Decides(Head(replies), SetReply) # "ok"
  <2>1. pc' \in {"unkey", "unkeyAwait"}
    BY <1>6 DEF UnkeyAwait, NextUnkeyAttempt
  <2>. QED
    BY <1>4, <2>1
<1>7. CASE WriteUnkey \/ UnkeyAttemptFails
  BY <1>4, <1>7 DEF WriteUnkey, UnkeyAttemptFails, NextUnkeyAttempt
<1>8. CASE UnkeyWriteFails \/ UnkeyGivesUp
  BY <1>3, <1>8 DEF UnkeyWriteFails, UnkeyGivesUp
<1>. QED
  BY <1>5, <1>6, <1>7, <1>8

LEMMA SessionMinds ==
    ASSUME SInv, SessionStep \/ SessionAwait
    PROVE  Mindful'
<1>1. StreamHas /\ Mindful /\ OffIsOld /\ pc \in {"session", "sessionAwait"} /\ cur = NoCommand
  BY SInvHas DEF SInv, Airing, SessionStep, SessionAwait
<1>2. ~Keying /\ ~Unkeying /\ UNCHANGED <<tx, emergency, calls, aired, alarm>>
  BY <1>1 DEF Keying, Unkeying, NoCommand, SessionStep, SessionAwait, SessionUnchanged,
              UnkeyUnchanged, radioVars, queueVars, callVars
<1>3. /\ \/ ~link_up' /\ UNCHANGED wire
         \/ UNCHANGED link_up /\ (UNCHANGED wire \/ Written("session"))
      /\ UNCHANGED stateVars \/ (replies # <<>> /\ ObserveFrame(Head(replies)))
  BY DEF SessionStep, SessionAwait, SessionUnchanged, linkVars
<1>4. aired /\ cache_ptt = "on" => cache_ptt' = "on"
  BY <1>1, <1>3, ObservedCache DEF stateVars
<1>5. CASE ~link_up' /\ UNCHANGED wire
  BY <1>1, <1>5, LinkDownHandles, HandledIsMindful DEF StreamHas
<1>6. CASE UNCHANGED link_up /\ (UNCHANGED wire \/ Written("session"))
  <2>1. Tended
    BY <1>1, <1>2, <1>4, <1>6, TendsOn
  <2>2. Harmless("session") /\ "session" \in Sends
    BY DEF Harmless, Transmits, Sends
  <2>. QED
    BY <1>1, <1>2, <1>6, <2>1, <2>2, MindfulElsewhere, MindfulWritten
<1>. QED
  BY <1>3, <1>5, <1>6

LEMMA EnvironmentTends ==
    ASSUME UNCHANGED <<tx, aired, alarm, link_up, emergency, pc, cur, cache_ptt>>,
           \A c \in Clients : calls[c] = "counted" => calls'[c] = "counted",
           keyed_since = "due" => keyed_since' = "due"
    PROVE  Tended /\ (Keying => Keying')
<1>1. Unkeying \/ (pc = "select" /\ keyed_since = "due") => Handled'
  BY DEF Unkeying, Handled
<1>2. Tended
  BY <1>1, TendsOn
<1>. QED
  BY <1>2 DEF Keying

\* Nothing in flight.
LEMMA MindfulCut ==
    ASSUME SInv, Tended, Keying => Keying', wire' = <<>>, UNCHANGED <<replies, outstanding>>
    PROVE  Mindful'
<1>1. CASE Keying /\ KeyExecuted
  BY <1>1 DEF KeyExecuted, Mindful
<1>2. CASE \E w \in Seq(Sends) : Minded(w) /\ (wire = w \/ (Keying /\ wire = Append(w, "key")))
  <2>1. PICK w \in Seq(Sends) : Minded(w)
    BY <1>2
  <2>2. Minded(w)'
    BY <2>1, MindedStays
  <2>3. DOMAIN <<>> = {} /\ <<>> \in Seq(Sends)
    BY EmptySeq
  <2>4. Minded(<<>>)'
    BY <2>2, <2>3 DEF Minded, Risk
  <2>. QED
    BY <2>3, <2>4 DEF Mindful
<1>. QED
  BY <1>1, <1>2 DEF SInv, Mindful

LEMMA ExpireMinds ==
    ASSUME SInv, Expire
    PROVE  Mindful'
<1>1. /\ wire = <<>> /\ replies = <<>> /\ UNCHANGED <<wire, replies>> /\ Mindful
      /\ UNCHANGED <<tx, aired, alarm, link_up, emergency, pc, cur, cache_ptt, calls, keyed_since>>
  BY DEF Expire, Environment, Actors, stateVars, radioVars, queueVars, taskVars, callVars, SInv
<1>2. Tended /\ (Keying => Keying')
  BY <1>1, EnvironmentTends
<1>3. CASE Keying /\ KeyExecuted
  <2>1. KeyExecuted'
    BY <1>1, MatchNothing DEF KeyExecuted
  <2>. QED
    BY <1>2, <1>3, <2>1 DEF Mindful
<1>4. CASE \E w \in Seq(Sends) : Minded(w) /\ (wire = w \/ (Keying /\ wire = Append(w, "key")))
  <2>1. PICK w \in Seq(Sends) : Minded(w) /\ (wire = w \/ (Keying /\ wire = Append(w, "key")))
    BY <1>4
  <2>2. Minded(w)'
    BY <1>2, <2>1, MindedStays
  <2>. QED
    BY <1>1, <1>2, <2>1, <2>2 DEF Mindful
<1>. QED
  BY <1>1, <1>3, <1>4 DEF Mindful

LEMMA RadioMinds ==
    ASSUME SInv, SetReply = "ack", PanelMoves = 0, Radio \/ Link
    PROVE  Mindful'
<1>1. StreamHas /\ Mindful /\ LinkTypes /\ "cw" \notin tx
  BY SInvHas DEF SInv, VoiceOnly
<1>2. CASE RigExecutes
  BY <1>2, MindfulExecutes
<1>3. CASE CwEnds \/ FrontPanel
  BY <1>1, <1>3 DEF CwEnds, FrontPanel, LinkTypes
<1>4. CASE Expire
  BY <1>4, ExpireMinds
<1>5. CASE WatchdogLapses
  <2>1. /\ UNCHANGED <<tx, aired, alarm, link_up, emergency, pc, cur, cache_ptt, calls>>
        /\ keyed_since # "due" /\ UNCHANGED wireVars
    BY <1>5 DEF WatchdogLapses, Environment, Actors, radioVars, queueVars, taskVars, callVars
  <2>2. Tended /\ (Keying => Keying')
    BY <2>1, EnvironmentTends
  <2>. QED
    BY <1>1, <2>1, <2>2, MindfulStays
<1>6. CASE Link
  <2>1. UNCHANGED <<tx, aired, link_up, emergency, pc, cur, cache_ptt, calls, keyed_since,
                    replies, outstanding>>
    BY <1>6 DEF Link, StreamFails, PortLost, PortReopened, SupervisorCloses, Environment, Actors,
                stateVars, radioVars, queueVars, taskVars, callVars, wireVars
  <2>2. "air" \in alarm => "air" \in alarm'
    BY <1>6 DEF Link, StreamFails, PortLost, PortReopened, SupervisorCloses, Environment
  <2>3. Unkeying \/ (pc = "select" /\ keyed_since = "due") => Handled'
    BY <2>1 DEF Unkeying, Handled
  <2>4. Tended /\ (Keying => Keying')
    BY <2>1, <2>2, <2>3, TendsOn DEF Keying
  <2>5. wire' = <<>> \/ UNCHANGED wireVars
    BY <1>6 DEF Link, StreamFails, PortLost, PortReopened, SupervisorCloses
  <2>. QED
    BY <1>1, <2>1, <2>4, <2>5, MindfulCut, MindfulStays
<1>. QED
  BY <1>2, <1>3, <1>4, <1>5, <1>6 DEF Radio, Link

LEMMA CallersMind ==
    ASSUME SInv, (\E c \in Clients : Call(c) \/ SubmitStep(c)) \/ MoveGate \/ UNCHANGED vars
    PROVE  Mindful'
<1>1. Mindful /\ QueueTypes /\ CallTypes
  BY SInvHas DEF SInv
<1>2. UNCHANGED <<tx, aired, alarm, link_up, pc, cur, cache_ptt, keyed_since>> /\ UNCHANGED wireVars
  BY DEF Call, Submit, SubmitEmergency, Submitting, SubmitStep, SendEmergency, WakeActor,
         FindEmergencyFull, Ride, InSubmit, MoveGate, vars, taskVars, linkVars, stateVars, radioVars
<1>3. Coming => Coming'
  <2>1. CASE \E c \in Clients : Call(c)
    <3>1. UNCHANGED emergency /\ \A c \in Clients : calls[c] = "counted" => calls'[c] = "counted"
      BY <1>1, <2>1 DEF Call, Submit, SubmitEmergency, Submitting, CallTypes
    <3>. QED
      BY <3>1, ComingStays
  <2>2. CASE \E c \in Clients : SendEmergency(c) \/ FindEmergencyFull(c)
    <3>1. emergency' # <<>>
      BY <1>1, <2>2, ConstantsAssumption, EmptySeq DEF SendEmergency, FindEmergencyFull, QueueTypes,
             ConstantsAssumption
    <3>. QED
      BY <3>1 DEF Coming
  <2>3. CASE \E c \in Clients : WakeActor(c) \/ Ride(c)
    <3>1. UNCHANGED emergency /\ \A c \in Clients : calls[c] = "counted" => calls'[c] = "counted"
      BY <1>1, <2>3 DEF WakeActor, Ride, InSubmit, CallTypes
    <3>. QED
      BY <3>1, ComingStays
  <2>4. CASE MoveGate \/ UNCHANGED vars
    <3>1. UNCHANGED <<emergency, calls>>
      BY <2>4 DEF MoveGate, vars, queueVars, callVars
    <3>. QED
      BY <3>1, ComingStays
  <2>. QED
    BY <2>1, <2>2, <2>3, <2>4 DEF SubmitStep
<1>4. Tended /\ (Keying => Keying')
  BY <1>2, <1>3 DEF Tended, Handled, Unkeying, Keying
<1>. QED
  BY <1>1, <1>2, <1>4, MindfulStays

----------------------------------------------------------------------------
(* Only voice; the cache follows the watchdog; a key is written once.      *)

LEMMA ActorCounts ==
    ASSUME Actor \/ Stop
    PROVE  \A c \in Clients : calls'[c] = "counted" => calls[c] = "counted"
<1>1. ASSUME \E cmd, result, failed : Complete(cmd, result, failed)
      PROVE  \A c \in Clients : calls'[c] = "counted" => calls[c] = "counted"
  BY <1>1 DEF Complete
<1>2. ASSUME \E cmd : Begin(cmd)
      PROVE  \A c \in Clients : calls'[c] = "counted" => calls[c] = "counted"
  BY <1>1, <1>2 DEF Begin, callVars
<1>3. ASSUME \E ok : UnkeyDone(ok)
      PROVE  \A c \in Clients : calls'[c] = "counted" => calls[c] = "counted"
  BY <1>1, <1>3 DEF UnkeyDone, callVars
<1>4. CASE \/ TakeEmergency \/ LinkStatusChanged \/ WatchdogFire \/ TakeNormal \/ ServeHeld
           \/ ReadIdle \/ LoseLinkIdle \/ PollOnce \/ Stop
  BY <1>2, <1>4 DEF TakeEmergency, LinkStatusChanged, WatchdogFire, TakeNormal, ServeHeld, ReadIdle,
                    LoseLinkIdle, PollOnce, Stop, callVars
<1>5. CASE \/ Woken \/ DrainStale \/ LoseLinkServing
           \/ (\E expired \in BOOLEAN : WriteCommand(expired))
           \/ WriteTimesOut \/ AwaitReply \/ WatchdogPreempts \/ ReplyTimesOut
  BY <1>1, <1>5 DEF Woken, DrainStale, LoseLinkServing, LinkLost, WriteCommand, WriteTimesOut,
                    AwaitReply, WatchdogPreempts, ReplyTimesOut, callVars
<1>6. CASE \/ WriteUnkey \/ UnkeyWriteFails \/ UnkeyAttemptFails \/ UnkeyAwait \/ UnkeyGivesUp
           \/ SessionStep \/ SessionAwait
  BY <1>3, <1>6 DEF WriteUnkey, UnkeyWriteFails, UnkeyAttemptFails, UnkeyAwait, UnkeyGivesUp,
                    SessionStep, SessionAwait, SessionUnchanged, callVars
<1>. QED
  BY <1>4, <1>5, <1>6 DEF Actor

LEMMA ActorWrites ==
    ASSUME SInv, SetReply = "ack", Actor \/ Stop
    PROVE  /\ UNCHANGED tx
           /\ wire' = wire \/ \E sent \in Sends \ {"cw"} : wire' = Append(wire, sent)
<1>1. CASE \/ TakeEmergency \/ LinkStatusChanged \/ WatchdogFire \/ TakeNormal \/ ServeHeld
           \/ ReadIdle \/ LoseLinkIdle \/ PollOnce \/ Stop
  BY <1>1 DEF TakeEmergency, LinkStatusChanged, WatchdogFire, TakeNormal, ServeHeld, ReadIdle,
              LoseLinkIdle, PollOnce, Stop, radioVars, wireVars
<1>2. CASE \/ Woken \/ DrainStale \/ LoseLinkServing
           \/ WriteTimesOut \/ AwaitReply \/ WatchdogPreempts \/ ReplyTimesOut
  BY <1>2 DEF Woken, DrainStale, LoseLinkServing, LinkLost, WriteTimesOut,
              AwaitReply, WatchdogPreempts, ReplyTimesOut, radioVars, wireVars
<1>3. CASE \E expired \in BOOLEAN : WriteCommand(expired)
  <2>1. Written(cur.op) /\ UNCHANGED tx /\ pc \in {"drain", "write"}
    BY <1>3 DEF WriteCommand, radioVars
  <2>2. cur.op \in Sends \ {"cw"}
    BY <2>1, ServingCommand, SInvHas
  <2>. QED
    BY <2>1, <2>2 DEF Written
<1>4. CASE \/ WriteUnkey \/ UnkeyWriteFails \/ UnkeyAttemptFails \/ UnkeyAwait \/ UnkeyGivesUp
           \/ SessionStep \/ SessionAwait
  BY <1>4 DEF WriteUnkey, UnkeyWriteFails, UnkeyAttemptFails, UnkeyAwait, UnkeyGivesUp,
              SessionStep, SessionAwait, SessionUnchanged, UnkeyUnchanged, Written, Sends, Operations,
              radioVars, wireVars
<1>. QED
  BY <1>1, <1>2, <1>3, <1>4 DEF Actor

LEMMA VoiceWritten ==
    ASSUME NEW w \in Seq(Sends), \A i \in DOMAIN w : w[i] # "cw", NEW sent \in Sends \ {"cw"}
    PROVE  \A i \in DOMAIN Append(w, sent) : Append(w, sent)[i] # "cw"
<1>1. /\ DOMAIN w = 1..Len(w) /\ Len(w) \in Nat /\ DOMAIN Append(w, sent) = 1..(Len(w) + 1)
      /\ Append(w, sent)[Len(w) + 1] = sent /\ \A i \in 1..Len(w) : Append(w, sent)[i] = w[i]
  BY AppendProperties, LenProperties
<1>2. \A i \in 1..(Len(w) + 1) : i \in 1..Len(w) \/ i = Len(w) + 1
  BY <1>1
<1>. QED
  BY <1>1, <1>2

LEMMA ActorVoice ==
    ASSUME SInv, SetReply = "ack", Actor \/ Stop, Moves
    PROVE  VoiceOnly'
<1>1. StreamHas /\ QueueTypes /\ VoiceOnly
  BY SInvHas DEF SInv
<1>2. UNCHANGED tx /\ \A i \in DOMAIN wire' : wire'[i] # "cw"
  <2>1. UNCHANGED tx /\ (wire' = wire \/ \E sent \in Sends \ {"cw"} : wire' = Append(wire, sent))
    BY ActorWrites
  <2>. QED
    BY <1>1, <2>1, VoiceWritten DEF StreamHas, VoiceOnly
<1>3. \A i \in DOMAIN emergency' : emergency'[i].op = "unkey"
  <2>1. emergency \in Seq(Requests) /\ (emergency' = emergency \/ (emergency # <<>> /\ emergency' = Tail(emergency)))
    BY <1>1 DEF QueueTypes, Moves, Taken
  <2>. QED
    BY <1>1, <2>1, TailValues DEF VoiceOnly
<1>4. UNCHANGED request /\ \A c \in Clients : calls'[c] = "counted" => calls[c] = "counted"
  BY ActorCounts DEF Moves
<1>. QED
  BY <1>1, <1>2, <1>3, <1>4 DEF VoiceOnly

LEMMA CallersVoice ==
    ASSUME SInv, ClientOps \intersect {"cw", "stop"} = {}, NEW c \in Clients, Call(c) \/ SubmitStep(c)
    PROVE  VoiceOnly'
<1>1. VoiceOnly /\ QueueTypes /\ CallTypes
  BY SInvHas DEF SInv
<1>2. UNCHANGED <<tx, wire>>
  BY DEF Call, Submit, SubmitEmergency, Submitting, SubmitStep, SendEmergency, WakeActor,
         FindEmergencyFull, Ride, InSubmit, wireVars, radioVars
<1>3. CASE Call(c)
  <2>1. PICK op \in ClientOps : Submit(c, op) \/ SubmitEmergency(c, op)
    BY <1>3 DEF Call
  <2>2. /\ op \notin {"cw", "stop"} /\ request' = [request EXCEPT ![c] = op] /\ UNCHANGED emergency
        /\ \/ calls' = calls /\ calls[c] = "idle"
           \/ calls' = [calls EXCEPT ![c] = "waiting"]
           \/ calls' = [calls EXCEPT ![c] = "counted"] /\ op = "unkey"
    BY <2>1 DEF Submit, SubmitEmergency, Submitting, IsEmergency
  <2>3. ASSUME NEW d \in Clients
        PROVE  /\ request'[d] \notin {"cw", "stop"}
               /\ calls'[d] = "counted" => request'[d] = "unkey"
    BY <1>1, <2>2 DEF CallTypes, VoiceOnly
  <2>. QED
    BY <1>1, <1>2, <2>2, <2>3 DEF VoiceOnly
<1>4. CASE SubmitStep(c)
  <2>1. /\ UNCHANGED request
        /\ \/ UNCHANGED emergency
           \/ calls[c] = "counted" /\ emergency' = Append(emergency, [client |-> c, op |-> request[c]])
    BY <1>4 DEF SubmitStep, SendEmergency, WakeActor, FindEmergencyFull, Ride, InSubmit
  <2>2. \A d \in Clients : calls'[d] = "counted" => calls[d] = "counted"
    BY <1>1, <1>4 DEF SubmitStep, SendEmergency, WakeActor, FindEmergencyFull, Ride, CallTypes
  <2>3. \A i \in DOMAIN emergency' : emergency'[i].op = "unkey"
    <3>1. CASE calls[c] = "counted" /\ emergency' = Append(emergency, [client |-> c, op |-> request[c]])
      <4>1. request[c] = "unkey"
        BY <1>1, <3>1 DEF VoiceOnly
      <4>2. emergency \in Seq(Requests) /\ [client |-> c, op |-> "unkey"] \in Requests
        BY <1>1 DEF QueueTypes, Requests, Operations
      <4>3. PICK r : r = [client |-> c, op |-> "unkey"]
        OBVIOUS
      <4>4. emergency' = Append(emergency, r) /\ r \in Requests /\ r.op = "unkey"
        BY <3>1, <4>1, <4>2, <4>3
      <4>5. /\ DOMAIN emergency = 1..Len(emergency) /\ Len(emergency) \in Nat
            /\ DOMAIN emergency' = 1..(Len(emergency) + 1) /\ emergency'[Len(emergency) + 1] = r
            /\ \A i \in 1..Len(emergency) : emergency'[i] = emergency[i]
        BY <4>2, <4>4, AppendProperties, LenProperties
      <4>6. \A i \in 1..(Len(emergency) + 1) : i \in 1..Len(emergency) \/ i = Len(emergency) + 1
        BY <4>5
      <4>. QED
        BY <1>1, <4>4, <4>5, <4>6 DEF VoiceOnly
    <3>. QED
      BY <1>1, <2>1, <3>1 DEF VoiceOnly
  <2>. QED
    BY <1>1, <1>2, <2>1, <2>2, <2>3 DEF VoiceOnly
<1>. QED
  BY <1>3, <1>4

LEMMA RadioVoice ==
    ASSUME SInv, Radio \/ Link \/ MoveGate \/ UNCHANGED vars
    PROVE  VoiceOnly'
<1>1. VoiceOnly /\ StreamHas
  BY SInvHas DEF SInv
<1>2. UNCHANGED <<request, calls, emergency>>
  BY DEF Radio, Link, RigExecutes, CwEnds, FrontPanel, Expire, WatchdogLapses, StreamFails, PortLost,
         PortReopened, SupervisorCloses, MoveGate, Environment, Actors, vars, queueVars, callVars
<1>3. CASE RigExecutes
  <2>1. wire # <<>> /\ wire' = Tail(wire) /\ (tx' = Effect(Head(wire)) \/ UNCHANGED tx)
    BY <1>3 DEF RigExecutes, OnAir, radioVars
  <2>2. Head(wire) # "cw" /\ \A i \in DOMAIN wire' : wire'[i] # "cw"
    BY <1>1, <2>1, TailValues DEF StreamHas, VoiceOnly
  <2>3. "cw" \notin tx'
    BY <1>1, <2>1, <2>2 DEF Effect, VoiceOnly
  <2>. QED
    BY <1>1, <1>2, <2>2, <2>3 DEF VoiceOnly
<1>4. CASE CwEnds \/ FrontPanel
  <2>1. "cw" \notin tx' /\ UNCHANGED wire
    BY <1>1, <1>4 DEF CwEnds, FrontPanel, OnAir, VoiceOnly, wireVars
  <2>. QED
    BY <1>1, <1>2, <2>1 DEF VoiceOnly
<1>5. CASE Expire \/ WatchdogLapses \/ Link \/ MoveGate \/ UNCHANGED vars
  <2>1. UNCHANGED tx /\ (UNCHANGED wire \/ wire' = <<>>)
    BY <1>5 DEF Expire, WatchdogLapses, Link, StreamFails, PortLost, PortReopened, SupervisorCloses,
                MoveGate, vars, radioVars, wireVars
  <2>2. \A i \in DOMAIN wire' : wire'[i] # "cw"
    BY <1>1, <2>1 DEF VoiceOnly
  <2>. QED
    BY <1>1, <1>2, <2>1, <2>2 DEF VoiceOnly
<1>. QED
  BY <1>3, <1>4, <1>5 DEF Radio

LEMMA CacheKept ==
    ASSUME CacheFollows,
           \/ UNCHANGED stateVars
           \/ \E frame : ObserveFrame(frame)
           \/ \E op : op # "cw" /\ ApplySet(op)
           \/ \E ok \in BOOLEAN : UnkeyDone(ok)
           \/ keyed_since' = "off"
           \/ keyed_since = "armed" /\ UNCHANGED cache_ptt
    PROVE  CacheFollows'
<1>1. ASSUME \E on \in BOOLEAN : Observe(on)
      PROVE  CacheFollows'
  BY <1>1 DEF Observe, CacheFollows, Report
<1>2. ASSUME UNCHANGED stateVars PROVE CacheFollows'
  BY <1>2 DEF CacheFollows, stateVars
<1>3. CASE \E frame : ObserveFrame(frame)
  BY <1>1, <1>2, <1>3 DEF ObserveFrame
<1>4. CASE \E op : op # "cw" /\ ApplySet(op)
  BY <1>1, <1>2, <1>4 DEF ApplySet
<1>5. CASE \E ok \in BOOLEAN : UnkeyDone(ok)
  BY <1>1, <1>2, <1>5 DEF UnkeyDone
<1>6. CASE keyed_since' = "off" \/ (keyed_since = "armed" /\ UNCHANGED cache_ptt)
  BY <1>6 DEF CacheFollows
<1>. QED
  BY <1>2, <1>3, <1>4, <1>5, <1>6

LEMMA CacheFollowsOn ==
    ASSUME SInv, SetReply = "ack", [Next]_vars
    PROVE  CacheFollows'
<1>1. CacheFollows /\ cur.op # "cw"
  BY SInvHas DEF SInv
<1>2. CASE \/ TakeEmergency \/ LinkStatusChanged \/ WatchdogFire \/ TakeNormal \/ ServeHeld
           \/ ReadIdle \/ LoseLinkIdle \/ PollOnce \/ Stop
  BY <1>1, <1>2, CacheKept DEF TakeEmergency, LinkStatusChanged, WatchdogFire, TakeNormal, ServeHeld,
     ReadIdle, LoseLinkIdle, PollOnce, Stop
<1>3. CASE \/ Woken \/ DrainStale \/ LoseLinkServing
           \/ (\E expired \in BOOLEAN : WriteCommand(expired))
           \/ WriteTimesOut \/ AwaitReply \/ WatchdogPreempts \/ ReplyTimesOut
  BY <1>1, <1>3, CacheKept DEF Woken, DrainStale, LoseLinkServing, LinkLost, WriteCommand,
     WriteTimesOut, AwaitReply, WatchdogPreempts, ReplyTimesOut
<1>4. CASE \/ WriteUnkey \/ UnkeyWriteFails \/ UnkeyAttemptFails \/ UnkeyAwait \/ UnkeyGivesUp
           \/ SessionStep \/ SessionAwait
  BY <1>1, <1>4, CacheKept DEF WriteUnkey, UnkeyWriteFails, UnkeyAttemptFails, UnkeyAwait,
     UnkeyGivesUp, SessionStep, SessionAwait
<1>5. CASE (\E c \in Clients : Call(c) \/ SubmitStep(c)) \/ MoveGate \/ UNCHANGED vars
  BY <1>1, <1>5, CacheKept DEF Call, Submit, SubmitEmergency, Submitting, SubmitStep, SendEmergency,
     WakeActor, FindEmergencyFull, Ride, InSubmit, MoveGate, vars
<1>6. CASE Radio \/ Link
  BY <1>1, <1>6, CacheKept DEF Radio, Link, RigExecutes, CwEnds, FrontPanel, Expire, WatchdogLapses,
     StreamFails, PortLost, PortReopened, SupervisorCloses
<1>. QED
  BY <1>2, <1>3, <1>4, <1>5, <1>6 DEF Next, Actor

\* No request of the command is outstanding, or it is not a key that waits for one.
LEMMA OnceElsewhere ==
    ASSUME \/ pc' \notin {"drain", "await"}
           \/ cur'.op # "key"
           \/ outstanding \in Seq(Entries) /\ outstanding' = Disowned
    PROVE  Once'
<1>1. CASE pc' \notin {"drain", "await"} \/ cur'.op # "key"
  BY <1>1 DEF Once, Keying
<1>2. CASE outstanding \in Seq(Entries) /\ outstanding' = Disowned
  <2>1. \A i \in DOMAIN outstanding : outstanding[i] \in Entries
    BY <1>2
  <2>2. \A i \in DOMAIN outstanding : ~[outstanding[i] EXCEPT !.mine = FALSE].mine
    BY <2>1 DEF Entries
  <2>3. \A i \in DOMAIN outstanding' : ~outstanding'[i].mine
    BY <1>2, <2>2 DEF Disowned
  <2>. QED
    BY <2>3 DEF Once
<1>. QED
  BY <1>1, <1>2

\* A late reply is matched, or its window closes.
LEMMA OnceKept ==
    ASSUME StreamHas, Once, UNCHANGED <<pc, cur>>,
           \/ UNCHANGED outstanding
           \/ \E i : outstanding' = Without(outstanding, i)
           \/ outstanding # <<>> /\ outstanding' = Tail(outstanding)
    PROVE  Once'
<1>. DEFINE n == Len(outstanding)
<1>1. n \in Nat /\ DOMAIN outstanding = 1..n
  BY LenProperties DEF StreamHas
<1>2. CASE UNCHANGED outstanding
  BY <1>2 DEF Once, Keying
<1>3. CASE /\ n \in Nat \ {0} /\ Len(outstanding') = n - 1 /\ DOMAIN outstanding' = 1..(n - 1)
           /\ \E i \in 1..n : \A j \in 1..(n - 1) :
                 outstanding'[j] = IF j < i THEN outstanding[j] ELSE outstanding[j + 1]
  <2>. HIDE DEF n
  <2>1. PICK i \in 1..n : \A j \in 1..(n - 1) :
           outstanding'[j] = IF j < i THEN outstanding[j] ELSE outstanding[j + 1]
    BY <1>3
  <2>2. \A j \in 1..(n - 1) :
           /\ j \in 1..n /\ j + 1 \in 1..n /\ j # n
           /\ j + 1 = n => j = n - 1
    BY <1>3
  <2>3. \A j \in 1..(n - 1) : outstanding'[j] = outstanding[j] \/ outstanding'[j] = outstanding[j + 1]
    BY <2>1
  <2>4. ASSUME \A j \in 1..n : ~outstanding[j].mine
        PROVE  \A j \in 1..(n - 1) : ~outstanding'[j].mine
    BY <2>2, <2>3, <2>4
  <2>5. ASSUME \A j \in 1..n : outstanding[j].mine => j = n
        PROVE  \A j \in 1..(n - 1) : outstanding'[j].mine => j = n - 1
    BY <2>2, <2>3, <2>5
  <2>6. Len(outstanding) = n
    BY DEF n
  <2>. QED
    BY <1>1, <1>3, <2>4, <2>5, <2>6 DEF Once, Keying
<1>4. CASE \E i : outstanding' = Without(outstanding, i)
  <2>1. PICK i : outstanding' = Without(outstanding, i)
    BY <1>4
  <2>2. CASE i \in 1..n
    <3>1. /\ outstanding' \in Seq(Entries) /\ Len(outstanding') = n - 1 /\ n \in Nat \ {0}
          /\ \A j \in 1..(n - 1) :
                outstanding'[j] = IF j < i THEN outstanding[j] ELSE outstanding[j + 1]
      <4>1. n \in Nat \ {0}
        BY <1>1, <2>2
      <4>. QED
        BY <2>1, <2>2, <4>1, WithoutValues DEF StreamHas
    <3>2. DOMAIN outstanding' = 1..(n - 1)
      BY <3>1, LenProperties
    <3>. QED
      BY <1>3, <2>2, <3>1, <3>2
  <2>3. CASE i \notin 1..n
    <3>1. UNCHANGED outstanding
      BY <1>1, <2>1, <2>3 DEF Without
    <3>. QED
      BY <1>2, <3>1
  <2>. QED
    BY <2>2, <2>3
<1>5. CASE outstanding # <<>> /\ outstanding' = Tail(outstanding)
  <2>1. /\ n \in Nat \ {0} /\ Len(outstanding') = n - 1 /\ DOMAIN outstanding' = 1..(n - 1)
        /\ \A j \in 1..(n - 1) : outstanding'[j] = outstanding[j + 1]
    BY <1>5, EmptySeq, LenProperties, HeadTailProperties DEF StreamHas
  <2>2. 1 \in 1..n /\ \A j \in 1..(n - 1) : ~(j < 1)
    BY <2>1
  <2>. HIDE DEF n
  <2>3. \A j \in 1..(n - 1) : outstanding'[j] = IF j < 1 THEN outstanding[j] ELSE outstanding[j + 1]
    BY <2>1, <2>2
  <2>. QED
    BY <1>3, <2>1, <2>2, <2>3
<1>. QED
  BY <1>2, <1>4, <1>5

LEMMA OnceCompletes ==
    ASSUME \/ \E cmd, result, failed : Complete(cmd, result, failed)
           \/ TaskTypes /\ \E ok \in BOOLEAN : UnkeyDone(ok)
    PROVE  Once'
<1>1. ASSUME \E cmd, result, failed : Complete(cmd, result, failed)
      PROVE  Once'
  BY <1>1, OnceElsewhere DEF Complete
<1>2. CASE TaskTypes /\ \E ok \in BOOLEAN : UnkeyDone(ok)
  <2>1. (\E cmd, result, failed : Complete(cmd, result, failed)) \/ pc' \in {"session", "select", "stopped"}
    BY <1>2 DEF UnkeyDone, TaskTypes
  <2>. QED
    BY <1>1, <2>1, OnceElsewhere
<1>. QED
  BY <1>1, <1>2

LEMMA OnceBegins ==
    ASSUME StreamHas, (\E cmd : Begin(cmd)) \/ \E next : FailClosed(next)
    PROVE  Once'
<1>1. \/ outstanding' = Disowned
      \/ \E cmd, result, failed : Complete(cmd, result, failed)
  BY DEF Begin, FailClosed
<1>. QED
  BY <1>1, OnceElsewhere, OnceCompletes DEF StreamHas

LEMMA WriteOnce ==
    ASSUME SInv, SetReply = "ack", NEW expired \in BOOLEAN, WriteCommand(expired)
    PROVE  Once'
<1>1. StreamHas /\ Once /\ CommandsAreReal /\ pc \in {"drain", "write"} /\ (pc = "write" => cur.op # "key")
  BY SInvHas DEF SInv, WriteCommand
<1>2. ReplyKind(cur.op) \in {"ack", "ptt"}
  BY <1>1, ServingCommand
<1>3. /\ UNCHANGED cur /\ pc' = "await"
      /\ outstanding' = Append(outstanding, [kind |-> ReplyKind(cur.op), mine |-> TRUE])
  BY <1>2 DEF WriteCommand, NoteWritten
<1>4. CASE cur.op # "key"
  BY <1>3, <1>4, OnceElsewhere
<1>5. CASE cur.op = "key"
  <2>1. \A i \in DOMAIN outstanding : ~outstanding[i].mine
    BY <1>1, <1>5 DEF Once
  <2>2. PICK e \in Entries : outstanding' = Append(outstanding, e)
    BY <1>2, <1>3 DEF Entries
  <2>3. /\ DOMAIN outstanding = 1..Len(outstanding) /\ Len(outstanding) \in Nat
        /\ DOMAIN outstanding' = 1..(Len(outstanding) + 1) /\ Len(outstanding') = Len(outstanding) + 1
        /\ \A i \in 1..Len(outstanding) : outstanding'[i] = outstanding[i]
    BY <1>1, <2>2, AppendProperties, LenProperties DEF StreamHas
  <2>4. \A i \in 1..(Len(outstanding) + 1) : i \in 1..Len(outstanding) \/ i = Len(outstanding) + 1
    BY <2>3
  <2>5. \A i \in DOMAIN outstanding' : outstanding'[i].mine => i = Len(outstanding')
    BY <2>1, <2>3, <2>4
  <2>. QED
    BY <1>3, <2>5 DEF Once
<1>. QED
  BY <1>4, <1>5

LEMMA OnceStays ==
    ASSUME SInv, SetReply = "ack", [Next]_vars
    PROVE  Once'
<1>1. StreamHas /\ TaskTypes /\ Once
  BY SInvHas DEF SInv
<1>2. CASE \/ TakeEmergency \/ LinkStatusChanged \/ WatchdogFire \/ TakeNormal \/ ServeHeld
           \/ ReadIdle \/ LoseLinkIdle \/ PollOnce \/ Stop
  <2>1. CASE TakeEmergency \/ WatchdogFire \/ ServeHeld \/ PollOnce
    BY <1>1, <2>1, OnceBegins DEF TakeEmergency, WatchdogFire, ServeHeld, PollOnce
  <2>2. CASE TakeNormal
    <3>1. (\E cmd : Begin(cmd)) \/ outstanding' = Disowned
      BY <2>2 DEF TakeNormal
    <3>. QED
      BY <1>1, <3>1, OnceBegins, OnceElsewhere DEF StreamHas
  <2>3. CASE LinkStatusChanged
    <3>1. FailClosed("restored") \/ pc' \in {"start", "session", "select"}
      <4>1. pc \in {"start", "select"}
        BY <2>3 DEF LinkStatusChanged, Idle
      <4>2. CASE status # "Connected"
        BY <2>3, <4>2 DEF LinkStatusChanged
      <4>3. CASE status = "Connected" /\ generation = link_generation
        BY <2>3, <4>1, <4>3 DEF LinkStatusChanged
      <4>4. CASE status = "Connected" /\ generation # link_generation
        BY <2>3, <4>4 DEF LinkStatusChanged
      <4>. QED
        BY <4>2, <4>3, <4>4
    <3>. QED
      BY <1>1, <3>1, OnceBegins, OnceElsewhere
  <2>4. CASE ReadIdle \/ LoseLinkIdle \/ Stop
    <3>1. pc' \in {"select", "stopped"} \/ FailClosed("stopped")
      BY <2>4 DEF ReadIdle, LoseLinkIdle, Stop, Idle, taskVars
    <3>. QED
      BY <1>1, <3>1, OnceBegins, OnceElsewhere
  <2>. QED
    BY <1>2, <2>1, <2>2, <2>3, <2>4
<1>3. CASE \/ Woken \/ DrainStale \/ LoseLinkServing
           \/ WriteTimesOut \/ AwaitReply \/ WatchdogPreempts \/ ReplyTimesOut
  <2>1. CASE DrainStale
    BY <1>1, <2>1, OnceKept DEF DrainStale, Absorb, taskVars
  <2>2. CASE Woken
    <3>1. UNCHANGED <<pc, cur, outstanding>> \/ Complete(cur, "Cancelled", FALSE)
      BY <2>2 DEF Woken, wireVars
    <3>. QED
      BY <1>1, <3>1, OnceKept, OnceCompletes
  <2>3. CASE AwaitReply
    <3>1. \/ \E result : Complete(cur, result, FALSE)
          \/ UNCHANGED <<pc, cur>> /\ Absorb(Head(replies))
      BY <2>3 DEF AwaitReply
    <3>. QED
      BY <1>1, <3>1, OnceKept, OnceCompletes DEF Absorb
  <2>4. CASE LoseLinkServing \/ WatchdogPreempts
    BY <2>4, OnceCompletes DEF LoseLinkServing, LinkLost, WatchdogPreempts
  <2>5. CASE WriteTimesOut
    BY <1>1, <2>5, OnceBegins, OnceCompletes DEF WriteTimesOut
  <2>6. CASE ReplyTimesOut
    <3>1. tries \in Nat
      BY <1>1 DEF TaskTypes
    <3>2. ~(tries + 1 < 1)
      BY <3>1
    <3>3. \/ UNCHANGED cur /\ cur.op # "key"
          \/ FailClosed("timeout") \/ Complete(cur, "Timeout", FALSE)
      BY <2>6, <3>2 DEF ReplyTimesOut, NextAttempt, AttemptsFor, Transmits
    <3>. QED
      BY <1>1, <3>3, OnceBegins, OnceCompletes, OnceElsewhere
  <2>. QED
    BY <1>3, <2>1, <2>2, <2>3, <2>4, <2>5, <2>6
<1>4. CASE \E expired \in BOOLEAN : WriteCommand(expired)
  BY <1>4, WriteOnce
<1>5. CASE \/ WriteUnkey \/ UnkeyWriteFails \/ UnkeyAttemptFails \/ UnkeyAwait \/ UnkeyGivesUp
           \/ SessionStep \/ SessionAwait
  <2>1. \/ \E ok \in BOOLEAN : UnkeyDone(ok)
        \/ pc' \in {"unkey", "unkeyAwait", "session", "sessionAwait", "select"}
    BY <1>5 DEF WriteUnkey, UnkeyWriteFails, UnkeyAttemptFails, UnkeyAwait, UnkeyGivesUp,
                NextUnkeyAttempt, SessionStep, SessionAwait
  <2>. QED
    BY <1>1, <2>1, OnceCompletes, OnceElsewhere
<1>6. CASE (\E c \in Clients : Call(c) \/ SubmitStep(c)) \/ MoveGate \/ UNCHANGED vars
  <2>1. UNCHANGED <<pc, cur, outstanding>>
    BY <1>6 DEF Call, Submit, SubmitEmergency, Submitting, SubmitStep, SendEmergency, WakeActor,
       FindEmergencyFull, Ride, InSubmit, MoveGate, vars, taskVars, wireVars
  <2>. QED
    BY <1>1, <2>1, OnceKept
<1>7. CASE Radio \/ Link
  <2>1. /\ UNCHANGED <<pc, cur>>
        /\ UNCHANGED outstanding \/ (outstanding # <<>> /\ outstanding' = Tail(outstanding))
    BY <1>7 DEF Radio, Link, RigExecutes, CwEnds, FrontPanel, Expire, WatchdogLapses, StreamFails,
       PortLost, PortReopened, SupervisorCloses, Environment, Actors, taskVars, wireVars
  <2>. QED
    BY <1>1, <2>1, OnceKept
<1>. QED
  BY <1>2, <1>3, <1>4, <1>5, <1>6, <1>7 DEF Next, Actor

----------------------------------------------------------------------------
(* The actor stops.                                                        *)

\* A rig that is off the air stays off it while nothing asks it to transmit.
LEMMA QuietExecutes ==
    ASSUME StreamHas, RigExecutes, ~Risk(wire)
    PROVE  ~Risk(wire)'
<1>1. wire # <<>> /\ wire' = Tail(wire) /\ (tx' = Effect(Head(wire)) \/ UNCHANGED tx)
  BY DEF RigExecutes, OnAir, radioVars
<1>2. Head(wire) = wire[1] /\ 1 \in DOMAIN wire
      /\ \A i \in DOMAIN wire' : \E j \in DOMAIN wire : wire'[i] = wire[j]
  BY <1>1, TailValues DEF StreamHas
<1>3. tx = {} /\ ~Transmits(Head(wire)) /\ \A i \in DOMAIN wire' : ~Transmits(wire'[i])
  BY <1>2 DEF Risk
<1>4. Effect(Head(wire)) = {}
  BY <1>3 DEF Effect, Transmits
<1>. QED
  BY <1>1, <1>3, <1>4 DEF Risk

LEMMA QuietStays ==
    ASSUME LeftQuiet, UNCHANGED <<tx, link_up, pc>>, "air" \in alarm => "air" \in alarm',
           UNCHANGED wire \/ wire' = <<>>
    PROVE  LeftQuiet'
<1>1. DOMAIN <<>> = {}
  BY EmptySeq
<1>2. Risk(wire)' => Risk(wire)
  BY <1>1 DEF Risk
<1>. QED
  BY <1>2 DEF LeftQuiet

LEMMA RadioQuiet ==
    ASSUME SInv, PanelMoves = 0,
           Radio \/ Link \/ MoveGate \/ (\E c \in Clients : Call(c) \/ SubmitStep(c)) \/ UNCHANGED vars
    PROVE  LeftQuiet'
<1>1. LeftQuiet /\ StreamHas /\ LinkTypes /\ "cw" \notin tx
  BY SInvHas DEF SInv, VoiceOnly
<1>2. UNCHANGED <<pc, link_up>> /\ ("air" \in alarm => "air" \in alarm')
  <2>1. CASE Radio \/ Link
    BY <2>1 DEF Radio, Link, RigExecutes, CwEnds, FrontPanel, Expire, WatchdogLapses, StreamFails,
       PortLost, PortReopened, SupervisorCloses, Environment, Actors, taskVars
  <2>2. CASE MoveGate \/ (\E c \in Clients : Call(c) \/ SubmitStep(c)) \/ UNCHANGED vars
    BY <2>2 DEF MoveGate, Call, Submit, SubmitEmergency, Submitting, SubmitStep, SendEmergency,
       WakeActor, FindEmergencyFull, Ride, InSubmit, vars, taskVars, linkVars
  <2>. QED
    BY <2>1, <2>2
<1>3. CASE RigExecutes
  <2>1. Risk(wire)' => Risk(wire)
    BY <1>1, <1>3, QuietExecutes
  <2>. QED
    BY <1>1, <1>2, <2>1 DEF LeftQuiet
<1>4. CASE CwEnds \/ FrontPanel
  BY <1>1, <1>4 DEF CwEnds, FrontPanel, LinkTypes
<1>5. CASE Expire \/ WatchdogLapses \/ Link
  <2>1. UNCHANGED tx /\ (UNCHANGED wire \/ wire' = <<>>)
    BY <1>5 DEF Expire, WatchdogLapses, Link, StreamFails, PortLost, PortReopened, SupervisorCloses,
                radioVars, wireVars
  <2>. QED
    BY <1>1, <1>2, <2>1, QuietStays
<1>6. CASE MoveGate \/ (\E c \in Clients : Call(c) \/ SubmitStep(c)) \/ UNCHANGED vars
  <2>1. UNCHANGED <<tx, wire>>
    BY <1>6 DEF MoveGate, Call, Submit, SubmitEmergency, Submitting, SubmitStep, SendEmergency,
       WakeActor, FindEmergencyFull, Ride, InSubmit, vars, radioVars, wireVars
  <2>. QED
    BY <1>1, <1>2, <2>1, QuietStays
<1>. QED
  BY <1>3, <1>4, <1>5, <1>6 DEF Radio

\* The last handle is dropped on a rig that the cache has off the air, behind a closed gate.
LEMMA StopsQuiet ==
    ASSUME SInv, Stop
    PROVE  LeftQuiet'
<1>1. Mindful /\ CacheFollows /\ cur = NoCommand /\ pc = "select"
  BY SInvHas DEF SInv, Stop, Idle
<1>2. CASE MayTransmit
  BY <1>2 DEF Stop, FailClosed, LeftQuiet
<1>3. CASE ~MayTransmit
  <2>1. ~Keying /\ cache_ptt # "on" /\ UNCHANGED <<tx, wire, alarm, link_up>>
    BY <1>1, <1>3 DEF Keying, MayTransmit, Stop, radioVars, wireVars, linkVars
  <2>2. PICK w : w = wire
    OBVIOUS
  <2>3. Minded(w)
    BY <1>1, <2>1, <2>2, IdleMinded
  <2>4. ~Coming /\ ~Unkeying /\ keyed_since # "due"
    BY <1>1, <2>1 DEF Stop, Coming, Unkeying, NoCommand, CacheFollows
  <2>5. Risk(wire) => "air" \in alarm \/ ~link_up
    BY <2>1, <2>2, <2>3, <2>4 DEF Minded, Handled
  <2>. QED
    BY <2>1, <2>5 DEF LeftQuiet, Risk
<1>. QED
  BY <1>2, <1>3

LEMMA ActorQuiet ==
    ASSUME SInv, SetReply = "ack", PanelMoves = 0, Actor
    PROVE  LeftQuiet'
<1>1. StreamHas /\ Streaming /\ TaskTypes
  BY SInvHas
<1>2. ASSUME pc' # "stopped" PROVE LeftQuiet'
  BY <1>2 DEF LeftQuiet
<1>3. ASSUME \E cmd, result, failed : Complete(cmd, result, failed) PROVE LeftQuiet'
  BY <1>2, <1>3 DEF Complete
<1>4. ASSUME (\E cmd : Begin(cmd)) \/ \E next : FailClosed(next) PROVE LeftQuiet'
  <2>1. pc' \in {"write", "drain", "unkey"} \/ \E cmd, result, failed : Complete(cmd, result, failed)
    BY <1>4 DEF Begin, FailClosed
  <2>. QED
    BY <1>2, <1>3, <2>1
<1>5. CASE \/ TakeEmergency \/ LinkStatusChanged \/ WatchdogFire \/ TakeNormal \/ ServeHeld
           \/ ReadIdle \/ LoseLinkIdle \/ PollOnce
  <2>1. CASE TakeEmergency \/ WatchdogFire \/ ServeHeld \/ PollOnce
    BY <1>4, <2>1 DEF TakeEmergency, WatchdogFire, ServeHeld, PollOnce
  <2>2. CASE TakeNormal
    <3>1. (\E cmd : Begin(cmd)) \/ pc' = "drain"
      BY <2>2 DEF TakeNormal
    <3>. QED
      BY <1>2, <1>4, <3>1
  <2>3. CASE LinkStatusChanged
    <3>1. pc' # "stopped"
      <4>1. pc \in {"start", "select"}
        BY <2>3 DEF LinkStatusChanged, Idle
      <4>2. CASE status # "Connected"
        BY <2>3, <4>2 DEF LinkStatusChanged
      <4>3. CASE status = "Connected" /\ generation = link_generation
        BY <2>3, <4>1, <4>3 DEF LinkStatusChanged
      <4>4. CASE status = "Connected" /\ generation # link_generation
        BY <2>3, <4>4 DEF LinkStatusChanged, FailClosed
      <4>. QED
        BY <4>2, <4>3, <4>4
    <3>. QED
      BY <1>2, <3>1
  <2>4. CASE ReadIdle \/ LoseLinkIdle
    BY <1>2, <2>4 DEF ReadIdle, LoseLinkIdle, Idle, taskVars
  <2>. QED
    BY <1>5, <2>1, <2>2, <2>3, <2>4
<1>6. CASE \/ Woken \/ DrainStale \/ LoseLinkServing
           \/ (\E expired \in BOOLEAN : WriteCommand(expired))
           \/ WriteTimesOut \/ AwaitReply \/ WatchdogPreempts \/ ReplyTimesOut
  <2>1. \/ \E cmd, result, failed : Complete(cmd, result, failed)
        \/ FailClosed("timeout")
        \/ pc' \in {"drain", "write", "await"}
    BY <1>6 DEF Woken, DrainStale, LoseLinkServing, LinkLost, WriteCommand, WriteTimesOut, AwaitReply,
                WatchdogPreempts, ReplyTimesOut, taskVars
  <2>. QED
    BY <1>2, <1>3, <1>4, <2>1
<1>7. CASE \/ WriteUnkey \/ UnkeyWriteFails \/ UnkeyAttemptFails \/ UnkeyAwait \/ UnkeyGivesUp
  <2>1. CASE UnkeyDone(FALSE)
    <3>1. "air" \in alarm'
      BY <1>1, <2>1, UnkeyDoneAir DEF Failures
    <3>. QED
      BY <3>1 DEF LeftQuiet
  <2>2. CASE UnkeyAwait /\ Decides(Head(replies), SetReply) = "ok"
    <3>1. /\ replies # <<>> /\ Serving = "unkey" /\ Head(replies) = "ack"
          /\ UNCHANGED <<wire, tx>>
      BY <2>2, SInvHas DEF UnkeyAwait, Decides, UnkeyUnchanged, radioVars
    <3>2. ~Risk(wire)
      BY <1>1, <2>2, <3>1, UnkeyDecided
    <3>. QED
      BY <3>1, <3>2 DEF LeftQuiet, Risk
  <2>3. CASE pc' \in {"unkey", "unkeyAwait"}
    BY <1>2, <2>3
  <2>4. \/ UnkeyDone(FALSE) \/ pc' \in {"unkey", "unkeyAwait"}
        \/ UnkeyAwait /\ Decides(Head(replies), SetReply) = "ok"
    BY <1>7 DEF WriteUnkey, UnkeyWriteFails, UnkeyAttemptFails, UnkeyAwait, UnkeyGivesUp,
                NextUnkeyAttempt
  <2>. QED
    BY <2>1, <2>2, <2>3, <2>4
<1>8. CASE SessionStep \/ SessionAwait
  BY <1>2, <1>8 DEF SessionStep, SessionAwait
<1>. QED
  BY <1>5, <1>6, <1>7, <1>8 DEF Actor

LEMMA SNext ==
    ASSUME SetReply = "ack", PanelMoves = 0, ClientOps \intersect {"cw", "stop"} = {}
    PROVE  SInv /\ [Next]_vars => SInv'
<1> SUFFICES ASSUME SInv, [Next]_vars PROVE SInv'
  OBVIOUS
<1>1. UInv' /\ CacheFollows' /\ Once'
  BY UNext, CacheFollowsOn, OnceStays DEF SInv
<1>. SUFFICES VoiceOnly' /\ Mindful' /\ LeftQuiet'
  BY <1>1 DEF SInv
<1>2. CASE \E c \in Clients : Call(c) \/ SubmitStep(c)
  BY <1>2, CallersVoice, CallersMind, RadioQuiet
<1>3. CASE MoveGate \/ UNCHANGED vars
  BY <1>3, RadioVoice, CallersMind, RadioQuiet
<1>4. CASE Radio \/ Link
  BY <1>4, RadioVoice, RadioMinds, RadioQuiet
<1>5. CASE Actor \/ Stop
  <2>1. Moves
    BY <1>5, SInvHas, IdleAnswers, ServeAnswers, UnkeyAnswers DEF Actor
  <2>2. Mindful'
    BY <1>5, IdleMinds, ServeMinds, UnkeyMinds, SessionMinds DEF Actor
  <2>. QED
    BY <1>5, <2>1, <2>2, ActorVoice, ActorQuiet, StopsQuiet
<1>. QED
  BY <1>2, <1>3, <1>4, <1>5 DEF Next

\* When the last handle of a rig is dropped, the actor leaves it off the air, or has
\* reported that it could not unkey it, or its link is down (run, unkey_on_stop): if it
\* does not unkey, because the gate is closed and the cached state is not on, then no
\* key that is executed, or still may be, is left behind.  Stated
\* for a rig that acknowledges sets and is keyed over the link alone; the callers send
\* no Morse and no stop-Morse, for which it fails.
THEOREM StoppedUnkeyed ==
    ASSUME SetReply = "ack", PanelMoves = 0, ClientOps \intersect {"cw", "stop"} = {}
    PROVE  Spec => []StoppedMeansUnkeyed
<1>1. SInv => StoppedMeansUnkeyed
  BY DEF SInv, LeftQuiet, StoppedMeansUnkeyed, Risk
<1>2. SInv /\ [Next]_vars => SInv'
  BY SNext
<1>. QED
  BY <1>1, <1>2, SInit, PTL DEF Spec
=============================================================================
