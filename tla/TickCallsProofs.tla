-------------------------- MODULE TickCallsProofs ---------------------------
(***************************************************************************)
(* Ownership in the tick, for any number of threads, ticks and failures    *)
(* and any depth of nested callbacks: no frame uses what has been freed,   *)
(* nothing leaks but the ticks the code strands, and a tick has one owner; *)
(* and how deep callbacks can nest.                                        *)
(*                                                                         *)
(* The argument has two parts.  The stacks: frames are told apart by the   *)
(* request they answer, and only the innermost frame of a thread still     *)
(* owns its tick.  The account: the objects allocated are exactly those    *)
(* the frames still need and those of stranded ticks.  The depth of a      *)
(* frame follows from the request it answers and the errors met.           *)
(***************************************************************************)
EXTENDS TickCalls, SequenceTheorems, TLAPS

FrameT == [op : {"run", "range", "commit", "on_error"}, id : Nat, tick : Nat,
           at : {"enter", "finish", "done", "leave"}, ok : BOOLEAN]

Stacks == [CallThreads -> Seq(FrameT)]

\* What tells a frame from all others: the call it is, or the future it answers.
Key(f) == IF f.op = "run" THEN <<"run", f.tick>> ELSE <<"request", f.id>>

\* The frames of the stacks s and the registered callbacks w.
AllIn(s, w) == (UNION {{s[t][i] : i \in 1 .. Len(s[t])} : t \in CallThreads}) \cup w

\* Only innermost frames are not leaving, and keys are unique.
WellStacked(s, w) ==
    /\ s \in Stacks /\ w \subseteq FrameT
    /\ \A f \in w : f.at = "enter" /\ f.op # "run"
    /\ \A t \in CallThreads : \A i \in 1 .. Len(s[t]) : i < Len(s[t]) => s[t][i].at = "leave"
    /\ \A t, u \in CallThreads : \A i \in 1 .. Len(s[t]), j \in 1 .. Len(s[u]) :
           Key(s[t][i]) = Key(s[u][j]) => t = u /\ i = j
    /\ \A t \in CallThreads : \A i \in 1 .. Len(s[t]) : \A g \in w : Key(s[t][i]) # Key(g)
    /\ \A f, g \in w : Key(f) = Key(g) => f = g

\* The stacks s with f for the innermost frame of thread t, with f on top of it,
\* and without it.
Replaced(s, t, f) == [s EXCEPT ![t][Len(s[t])] = f]
Pushed(s, t, f) == [s EXCEPT ![t] = Append(s[t], f)]
Popped(s, t) == [s EXCEPT ![t] = SubSeq(s[t], 1, Len(s[t]) - 1)]

\* A key no frame has.
Fresh(f, s, w) == \A g \in AllIn(s, w) : Key(g) # Key(f)

-----------------------------------------------------------------------------
(* The stacks.                                                             *)

\* A frame is an element of a stack or a registered callback.
LEMMA InAll ==
    ASSUME NEW s, NEW w, NEW f
    PROVE  f \in AllIn(s, w) <=>
               \/ \E t \in CallThreads : \E i \in 1 .. Len(s[t]) : f = s[t][i]
               \/ f \in w
BY DEF AllIn

\* Two frames with one key are one frame.
LEMMA KeysTell ==
    ASSUME NEW s, NEW w, WellStacked(s, w),
           NEW f \in AllIn(s, w), NEW g \in AllIn(s, w), Key(f) = Key(g)
    PROVE  f = g
<1>1. CASE f \in w /\ g \in w
      BY <1>1 DEF WellStacked
<1>2. CASE f \notin w /\ g \notin w
  <2>1. PICK t \in CallThreads : \E i \in 1 .. Len(s[t]) : f = s[t][i]
        BY <1>2, InAll
  <2>2. PICK i \in 1 .. Len(s[t]) : f = s[t][i]
        BY <2>1
  <2>3. PICK u \in CallThreads : \E j \in 1 .. Len(s[u]) : g = s[u][j]
        BY <1>2, InAll
  <2>4. PICK j \in 1 .. Len(s[u]) : g = s[u][j]
        BY <2>3
  <2>5. QED BY <2>2, <2>4 DEF WellStacked
<1>3. CASE f \notin w /\ g \in w
      BY <1>3, InAll DEF WellStacked
<1>4. CASE f \in w /\ g \notin w
      BY <1>4, InAll DEF WellStacked
<1>5. QED BY <1>1, <1>2, <1>3, <1>4

\* The innermost frame of a thread is a frame.
LEMMA InnerFrame ==
    ASSUME NEW s, NEW w, WellStacked(s, w), NEW t \in CallThreads, s[t] # <<>>
    PROVE  /\ Len(s[t]) \in Nat \ {0} /\ Len(s[t]) \in 1 .. Len(s[t])
           /\ s[t][Len(s[t])] \in FrameT /\ s[t][Len(s[t])] \in AllIn(s, w)
<1>1. s[t] \in Seq(FrameT) /\ Len(s[t]) \in 1 .. Len(s[t]) /\ Len(s[t]) \in Nat \ {0}
      BY DEF WellStacked, Stacks
<1>2. s[t][Len(s[t])] \in FrameT
      BY <1>1
<1>3. s[t][Len(s[t])] \in AllIn(s, w)
      BY <1>1, InAll
<1>4. QED BY <1>1, <1>2, <1>3

\* A frame that has not handed its tick on is registered, or innermost.
LEMMA ActiveIsInner ==
    ASSUME NEW s, NEW w, WellStacked(s, w), NEW f \in AllIn(s, w), f.at # "leave"
    PROVE  f \in w \/ \E t \in CallThreads : s[t] # <<>> /\ f = s[t][Len(s[t])]
<1>1. CASE f \in w
      BY <1>1
<1>2. CASE f \notin w
  <2>1. PICK t \in CallThreads : \E i \in 1 .. Len(s[t]) : f = s[t][i]
        BY <1>2, InAll
  <2>2. PICK i \in 1 .. Len(s[t]) : f = s[t][i]
        BY <2>1
  <2>3. s[t] \in Seq(FrameT) /\ Len(s[t]) \in Nat
        BY DEF WellStacked, Stacks
  <2>4. ~ (i < Len(s[t]))
        BY <2>2 DEF WellStacked
  <2>5. i = Len(s[t]) /\ s[t] # <<>>
        BY <2>2, <2>3, <2>4
  <2>6. QED BY <2>2, <2>5
<1>3. QED BY <1>1, <1>2

\* What replacing the innermost frame,
LEMMA ReplacedIs ==
    ASSUME NEW s \in Stacks, NEW t \in CallThreads, Len(s[t]) # 0, NEW f \in FrameT
    PROVE  /\ Replaced(s, t, f) \in Stacks
           /\ \A u \in CallThreads : Len(Replaced(s, t, f)[u]) = Len(s[u])
           /\ \A u \in CallThreads : \A i \in 1 .. Len(s[u]) :
                  Replaced(s, t, f)[u][i] = IF u = t /\ i = Len(s[t]) THEN f ELSE s[u][i]
<1> DEFINE q == [s[t] EXCEPT ![Len(s[t])] = f]
           r == Replaced(s, t, f)
<1>1. \A u \in CallThreads : s[u] \in Seq(FrameT) /\ Len(s[u]) \in Nat
      BY DEF Stacks
<1>2. /\ q \in Seq(FrameT) /\ Len(q) = Len(s[t])
      /\ \A i \in 1 .. Len(s[t]) : q[i] = IF i = Len(s[t]) THEN f ELSE s[t][i]
      BY <1>1
<1>3. r = [s EXCEPT ![t] = q]
      BY DEF Replaced
<1> HIDE DEF q, r
<1>4. r \in Stacks /\ \A u \in CallThreads : r[u] = IF u = t THEN q ELSE s[u]
      BY <1>1, <1>2, <1>3 DEF Stacks
<1>5. /\ r \in Stacks
      /\ \A u \in CallThreads : Len(r[u]) = Len(s[u])
      /\ \A u \in CallThreads : \A i \in 1 .. Len(s[u]) :
             r[u][i] = IF u = t /\ i = Len(s[t]) THEN f ELSE s[u][i]
      BY <1>2, <1>4
<1>6. QED BY <1>5 DEF r

\* putting one on top of it
LEMMA PushedIs ==
    ASSUME NEW s \in Stacks, NEW t \in CallThreads, NEW f \in FrameT
    PROVE  /\ Pushed(s, t, f) \in Stacks
           /\ Len(Pushed(s, t, f)[t]) = Len(s[t]) + 1 /\ Pushed(s, t, f)[t][Len(s[t]) + 1] = f
           /\ \A u \in CallThreads : u # t => Len(Pushed(s, t, f)[u]) = Len(s[u])
           /\ \A u \in CallThreads : \A i \in 1 .. Len(s[u]) : Pushed(s, t, f)[u][i] = s[u][i]
<1> DEFINE q == Append(s[t], f)
           r == Pushed(s, t, f)
<1>1. \A u \in CallThreads : s[u] \in Seq(FrameT) /\ Len(s[u]) \in Nat
      BY DEF Stacks
<1>2. /\ q \in Seq(FrameT) /\ Len(q) = Len(s[t]) + 1 /\ q[Len(s[t]) + 1] = f
      /\ \A i \in 1 .. Len(s[t]) : q[i] = s[t][i]
      BY <1>1
<1>3. r = [s EXCEPT ![t] = q]
      BY DEF Pushed
<1> HIDE DEF q, r
<1>4. r \in Stacks /\ \A u \in CallThreads : r[u] = IF u = t THEN q ELSE s[u]
      BY <1>1, <1>2, <1>3 DEF Stacks
<1>5. /\ r \in Stacks /\ Len(r[t]) = Len(s[t]) + 1 /\ r[t][Len(s[t]) + 1] = f
      /\ \A u \in CallThreads : u # t => Len(r[u]) = Len(s[u])
      /\ \A u \in CallThreads : \A i \in 1 .. Len(s[u]) : r[u][i] = s[u][i]
      BY <1>2, <1>4
<1>6. QED BY <1>5 DEF r

\* and taking it off do to the stacks.
LEMMA PoppedIs ==
    ASSUME NEW s \in Stacks, NEW t \in CallThreads, Len(s[t]) # 0
    PROVE  /\ Popped(s, t) \in Stacks /\ Len(Popped(s, t)[t]) = Len(s[t]) - 1
           /\ \A u \in CallThreads : u # t => Len(Popped(s, t)[u]) = Len(s[u])
           /\ \A u \in CallThreads : \A i \in 1 .. Len(Popped(s, t)[u]) :
                  Popped(s, t)[u][i] = s[u][i]
<1> DEFINE q == SubSeq(s[t], 1, Len(s[t]) - 1)
           r == Popped(s, t)
<1>1. \A u \in CallThreads : s[u] \in Seq(FrameT) /\ Len(s[u]) \in Nat
      BY DEF Stacks
<1>2. /\ q \in Seq(FrameT) /\ Len(q) = Len(s[t]) - 1
      /\ \A i \in 1 .. Len(s[t]) - 1 : q[i] = s[t][i]
      BY <1>1
<1>3. r = [s EXCEPT ![t] = q]
      BY DEF Popped
<1> HIDE DEF q, r
<1>4. r \in Stacks /\ \A u \in CallThreads : r[u] = IF u = t THEN q ELSE s[u]
      BY <1>1, <1>2, <1>3 DEF Stacks
<1>5. /\ r \in Stacks /\ Len(r[t]) = Len(s[t]) - 1
      /\ \A u \in CallThreads : u # t => Len(r[u]) = Len(s[u])
      /\ \A u \in CallThreads : \A i \in 1 .. Len(r[u]) : r[u][i] = s[u][i]
      BY <1>2, <1>4
<1>6. QED BY <1>5 DEF r

\* The innermost frame of a thread is replaced by one with the same key.
LEMMA Replace ==
    ASSUME NEW s, NEW w, WellStacked(s, w), NEW t \in CallThreads, s[t] # <<>>,
           NEW f \in FrameT, Key(f) = Key(s[t][Len(s[t])])
    PROVE  /\ WellStacked(Replaced(s, t, f), w)
           /\ AllIn(Replaced(s, t, f), w) = (AllIn(s, w) \ {s[t][Len(s[t])]}) \cup {f}
           /\ Replaced(s, t, f)[t] # <<>> /\ Replaced(s, t, f)[t][Len(Replaced(s, t, f)[t])] = f
<1> DEFINE n == Len(s[t])
           r == Replaced(s, t, f)
<1>1. n \in Nat \ {0} /\ n \in 1 .. Len(s[t]) /\ s[t][n] \in FrameT
      BY InnerFrame
<1>2. s \in Stacks /\ \A u \in CallThreads : s[u] \in Seq(FrameT) /\ Len(s[u]) \in Nat
      BY DEF WellStacked, Stacks
<1>3. /\ r \in Stacks
      /\ \A u \in CallThreads : Len(r[u]) = Len(s[u])
      /\ \A u \in CallThreads : \A i \in 1 .. Len(s[u]) :
             r[u][i] = IF u = t /\ i = n THEN f ELSE s[u][i]
      BY <1>1, <1>2, ReplacedIs
<1> HIDE DEF r
<1>4. \A u \in CallThreads : \A i \in 1 .. Len(s[u]) : Key(r[u][i]) = Key(s[u][i])
      BY <1>3
<1>5. WellStacked(r, w)
  <2>1. \A u \in CallThreads : \A i \in 1 .. Len(r[u]) :
           i < Len(r[u]) => r[u][i].at = "leave"
        BY <1>1, <1>2, <1>3 DEF WellStacked
  <2>2. \A u, v \in CallThreads : \A i \in 1 .. Len(r[u]), j \in 1 .. Len(r[v]) :
           Key(r[u][i]) = Key(r[v][j]) => u = v /\ i = j
        BY <1>3, <1>4 DEF WellStacked
  <2>3. \A u \in CallThreads : \A i \in 1 .. Len(r[u]) : \A g \in w : Key(r[u][i]) # Key(g)
        BY <1>3, <1>4 DEF WellStacked
  <2>4. QED BY <1>3, <2>1, <2>2, <2>3 DEF WellStacked
<1>6. f \in AllIn(r, w)
      BY <1>1, <1>3, InAll
<1>7. s[t][n] \in AllIn(r, w) => s[t][n] = f
      BY <1>5, <1>6, KeysTell
<1>8. ASSUME NEW g \in AllIn(r, w), g # f PROVE g \in AllIn(s, w)
  <2>1. CASE g \in w
        BY <2>1, InAll
  <2>2. CASE g \notin w
    <3>1. PICK u \in CallThreads : \E i \in 1 .. Len(r[u]) : g = r[u][i]
          BY <2>2, InAll
    <3>2. PICK i \in 1 .. Len(s[u]) : g = r[u][i]
          BY <3>1, <1>3
    <3>3. g = s[u][i]
          BY <3>2, <1>3, <1>8
    <3>4. QED BY <3>3, InAll
  <2>3. QED BY <2>1, <2>2
<1>9. ASSUME NEW g \in AllIn(s, w), g # s[t][n] PROVE g \in AllIn(r, w)
  <2>1. CASE g \in w
        BY <2>1, InAll
  <2>2. CASE g \notin w
    <3>1. PICK u \in CallThreads : \E i \in 1 .. Len(s[u]) : g = s[u][i]
          BY <2>2, InAll
    <3>2. PICK i \in 1 .. Len(s[u]) : g = s[u][i]
          BY <3>1
    <3>3. g = r[u][i] /\ i \in 1 .. Len(r[u])
          BY <3>2, <1>3, <1>9
    <3>4. QED BY <3>3, InAll
  <2>3. QED BY <2>1, <2>2
<1>10. AllIn(r, w) = (AllIn(s, w) \ {s[t][n]}) \cup {f}
       BY <1>6, <1>7, <1>8, <1>9
<1>11. r[t] # <<>> /\ r[t][Len(r[t])] = f
       BY <1>1, <1>3
<1>12. QED BY <1>5, <1>10, <1>11 DEF r

\* A frame with a new key is put on a stack whose frames are all leaving.
LEMMA Push ==
    ASSUME NEW s, NEW w, WellStacked(s, w), NEW t \in CallThreads, NEW f \in FrameT,
           Fresh(f, s, w), s[t] # <<>> => s[t][Len(s[t])].at = "leave"
    PROVE  WellStacked(Pushed(s, t, f), w) /\ AllIn(Pushed(s, t, f), w) = AllIn(s, w) \cup {f}
<1> DEFINE n == Len(s[t])
           r == Pushed(s, t, f)
<1>1. s \in Stacks /\ \A u \in CallThreads : s[u] \in Seq(FrameT) /\ Len(s[u]) \in Nat
      BY DEF WellStacked, Stacks
<1>2. /\ r \in Stacks /\ Len(r[t]) = n + 1 /\ r[t][n + 1] = f
      /\ \A u \in CallThreads : u # t => Len(r[u]) = Len(s[u])
      /\ \A u \in CallThreads : \A i \in 1 .. Len(s[u]) : r[u][i] = s[u][i]
      BY <1>1, PushedIs
<1> HIDE DEF r
<1>3. \A u \in CallThreads : \A i \in 1 .. Len(r[u]) :
          i \in 1 .. Len(s[u]) \/ (u = t /\ i = n + 1)
      BY <1>1, <1>2
<1>4. \A u \in CallThreads : \A i \in 1 .. Len(s[u]) : Key(s[u][i]) # Key(f)
      BY InAll DEF Fresh
<1>5. \A g \in w : Key(g) # Key(f)
      BY InAll DEF Fresh
<1>6. WellStacked(r, w)
  <2>1. \A u \in CallThreads : \A i \in 1 .. Len(r[u]) :
           i < Len(r[u]) => r[u][i].at = "leave"
    <3>1. SUFFICES ASSUME NEW u \in CallThreads, NEW i \in 1 .. Len(r[u]), i < Len(r[u])
                   PROVE  r[u][i].at = "leave"
          OBVIOUS
    <3>2. i \in 1 .. Len(s[u])
          BY <3>1, <1>1, <1>2, <1>3
    <3>3. CASE i < Len(s[u])
          BY <3>2, <3>3, <1>2 DEF WellStacked
    <3>4. CASE i = Len(s[u])
      <4>1. u = t /\ s[t] # <<>>
            BY <3>1, <3>2, <3>4, <1>1, <1>2
      <4>2. QED BY <3>2, <3>4, <4>1, <1>2
    <3>5. QED BY <3>2, <3>3, <3>4, <1>1
  <2>2. \A u, v \in CallThreads : \A i \in 1 .. Len(r[u]), j \in 1 .. Len(r[v]) :
           Key(r[u][i]) = Key(r[v][j]) => u = v /\ i = j
    <3>1. SUFFICES ASSUME NEW u \in CallThreads, NEW v \in CallThreads,
                          NEW i \in 1 .. Len(r[u]), NEW j \in 1 .. Len(r[v]),
                          Key(r[u][i]) = Key(r[v][j])
                   PROVE  u = v /\ i = j
          OBVIOUS
    <3>2. CASE i \in 1 .. Len(s[u]) /\ j \in 1 .. Len(s[v])
      <4>1. Key(s[u][i]) = Key(s[v][j])
            BY <3>1, <3>2, <1>2
      <4>2. QED BY <3>2, <4>1 DEF WellStacked
    <3>3. CASE i \notin 1 .. Len(s[u])
      <4>1. u = t /\ i = n + 1 /\ r[u][i] = f
            BY <3>3, <1>2, <1>3
      <4>2. j \notin 1 .. Len(s[v])
            BY <3>1, <4>1, <1>2, <1>4
      <4>3. QED BY <4>1, <4>2, <1>3
    <3>4. CASE j \notin 1 .. Len(s[v])
      <4>1. v = t /\ j = n + 1 /\ r[v][j] = f
            BY <3>4, <1>2, <1>3
      <4>2. i \notin 1 .. Len(s[u])
            BY <3>1, <4>1, <1>2, <1>4
      <4>3. QED BY <4>1, <4>2, <1>3
    <3>5. QED BY <3>2, <3>3, <3>4
  <2>3. \A u \in CallThreads : \A i \in 1 .. Len(r[u]) : \A g \in w : Key(r[u][i]) # Key(g)
    <3>1. SUFFICES ASSUME NEW u \in CallThreads, NEW i \in 1 .. Len(r[u]), NEW g \in w
                   PROVE  Key(r[u][i]) # Key(g)
          OBVIOUS
    <3>2. CASE i \in 1 .. Len(s[u])
          BY <3>2, <1>2 DEF WellStacked
    <3>3. CASE i \notin 1 .. Len(s[u])
          BY <3>3, <1>2, <1>3, <1>5
    <3>4. QED BY <3>2, <3>3
  <2>4. QED BY <1>2, <2>1, <2>2, <2>3 DEF WellStacked
<1>7. f \in AllIn(r, w)
  <2>1. n + 1 \in 1 .. Len(r[t])
        BY <1>1, <1>2
  <2>2. QED BY <2>1, <1>2, InAll
<1>8. ASSUME NEW g \in AllIn(r, w), g # f PROVE g \in AllIn(s, w)
  <2>1. CASE g \in w
        BY <2>1, InAll
  <2>2. CASE g \notin w
    <3>1. PICK u \in CallThreads : \E i \in 1 .. Len(r[u]) : g = r[u][i]
          BY <2>2, InAll
    <3>2. PICK i \in 1 .. Len(r[u]) : g = r[u][i]
          BY <3>1
    <3>3. i \in 1 .. Len(s[u])
          BY <3>2, <1>2, <1>3, <1>8
    <3>4. g = s[u][i]
          BY <3>2, <3>3, <1>2
    <3>5. QED BY <3>3, <3>4, InAll
  <2>3. QED BY <2>1, <2>2
<1>9. ASSUME NEW g \in AllIn(s, w) PROVE g \in AllIn(r, w)
  <2>1. CASE g \in w
        BY <2>1, InAll
  <2>2. CASE g \notin w
    <3>1. PICK u \in CallThreads : \E i \in 1 .. Len(s[u]) : g = s[u][i]
          BY <2>2, InAll
    <3>2. PICK i \in 1 .. Len(s[u]) : g = s[u][i]
          BY <3>1
    <3>3. i \in 1 .. Len(r[u]) /\ g = r[u][i]
          BY <3>2, <1>1, <1>2
    <3>4. QED BY <3>3, InAll
  <2>3. QED BY <2>1, <2>2
<1>10. QED BY <1>6, <1>7, <1>8, <1>9 DEF r

\* The innermost frame of a thread returns.
LEMMA Pop ==
    ASSUME NEW s, NEW w, WellStacked(s, w), NEW t \in CallThreads, s[t] # <<>>
    PROVE  WellStacked(Popped(s, t), w) /\ AllIn(Popped(s, t), w) = AllIn(s, w) \ {s[t][Len(s[t])]}
<1> DEFINE n == Len(s[t])
           r == Popped(s, t)
<1>1. s \in Stacks /\ \A u \in CallThreads : s[u] \in Seq(FrameT) /\ Len(s[u]) \in Nat
      BY DEF WellStacked, Stacks
<1>2. n \in Nat \ {0} /\ n \in 1 .. Len(s[t]) /\ s[t][n] \in AllIn(s, w)
      BY InnerFrame
<1>3. /\ r \in Stacks /\ Len(r[t]) = n - 1
      /\ \A u \in CallThreads : u # t => Len(r[u]) = Len(s[u])
      /\ \A u \in CallThreads : \A i \in 1 .. Len(r[u]) : r[u][i] = s[u][i]
      BY <1>1, <1>2, PoppedIs
<1> HIDE DEF r
<1>4. \A u \in CallThreads : \A i \in 1 .. Len(r[u]) :
          i \in 1 .. Len(s[u]) /\ (u = t => i < n)
      BY <1>1, <1>2, <1>3
<1>5. WellStacked(r, w)
  <2>1. \A u \in CallThreads : \A i \in 1 .. Len(r[u]) :
           i < Len(r[u]) => r[u][i].at = "leave"
        BY <1>1, <1>2, <1>3, <1>4 DEF WellStacked
  <2>2. \A u, v \in CallThreads : \A i \in 1 .. Len(r[u]), j \in 1 .. Len(r[v]) :
           Key(r[u][i]) = Key(r[v][j]) => u = v /\ i = j
        BY <1>3, <1>4 DEF WellStacked
  <2>3. \A u \in CallThreads : \A i \in 1 .. Len(r[u]) : \A g \in w : Key(r[u][i]) # Key(g)
        BY <1>3, <1>4 DEF WellStacked
  <2>4. QED BY <1>3, <2>1, <2>2, <2>3 DEF WellStacked
<1>6. ASSUME NEW g \in AllIn(r, w) PROVE g \in AllIn(s, w) /\ g # s[t][n]
  <2>1. CASE g \in w
        BY <2>1, <1>2, InAll DEF WellStacked
  <2>2. CASE g \notin w
    <3>1. PICK u \in CallThreads : \E i \in 1 .. Len(r[u]) : g = r[u][i]
          BY <2>2, InAll
    <3>2. PICK i \in 1 .. Len(r[u]) : g = r[u][i]
          BY <3>1
    <3>3. i \in 1 .. Len(s[u]) /\ g = s[u][i] /\ (u = t => i < n)
          BY <3>2, <1>3, <1>4
    <3>4. g # s[t][n]
      <4>1. SUFFICES ASSUME g = s[t][n] PROVE FALSE
            OBVIOUS
      <4>2. Key(s[u][i]) = Key(s[t][n])
            BY <3>3, <4>1
      <4>3. u = t /\ i = n
            BY <3>3, <4>2, <1>2 DEF WellStacked
      <4>4. QED BY <3>3, <4>3, <1>2
    <3>5. QED BY <3>3, <3>4, InAll
  <2>3. QED BY <2>1, <2>2
<1>7. ASSUME NEW g \in AllIn(s, w), g # s[t][n] PROVE g \in AllIn(r, w)
  <2>1. CASE g \in w
        BY <2>1, InAll
  <2>2. CASE g \notin w
    <3>1. PICK u \in CallThreads : \E i \in 1 .. Len(s[u]) : g = s[u][i]
          BY <2>2, InAll
    <3>2. PICK i \in 1 .. Len(s[u]) : g = s[u][i]
          BY <3>1
    <3>3. i \in 1 .. Len(r[u])
      <4>1. CASE u # t
            BY <4>1, <1>3
      <4>2. CASE u = t
        <5>1. i # n
              BY <3>2, <4>2, <1>7
        <5>2. QED BY <4>2, <5>1, <1>2, <1>3
      <4>3. QED BY <4>1, <4>2
    <3>4. QED BY <3>2, <3>3, <1>3, InAll
  <2>3. QED BY <2>1, <2>2
<1>8. QED BY <1>2, <1>5, <1>6, <1>7 DEF r

\* A callback with a new key is registered.
LEMMA Register ==
    ASSUME NEW s, NEW w, WellStacked(s, w), NEW f \in FrameT, Fresh(f, s, w),
           f.at = "enter", f.op # "run", NEW x, x = w \cup {f}
    PROVE  WellStacked(s, x) /\ AllIn(s, x) = AllIn(s, w) \cup {f}
<1>1. \A u \in CallThreads : \A i \in 1 .. Len(s[u]) : Key(s[u][i]) # Key(f)
      BY InAll DEF Fresh
<1>2. \A g \in w : Key(g) # Key(f)
      BY InAll DEF Fresh
<1>3. WellStacked(s, x)
      BY <1>1, <1>2 DEF WellStacked
<1>4. QED BY <1>3 DEF AllIn

\* FoundationDB takes a registered callback to run it.
LEMMA Unregister ==
    ASSUME NEW s, NEW w, WellStacked(s, w), NEW f \in w
    PROVE  /\ WellStacked(s, w \ {f}) /\ Fresh(f, s, w \ {f})
           /\ AllIn(s, w \ {f}) \cup {f} = AllIn(s, w)
<1>1. WellStacked(s, w \ {f})
      BY DEF WellStacked
<1>2. AllIn(s, w \ {f}) \cup {f} = AllIn(s, w)
      BY DEF AllIn
<1>3. ASSUME NEW g \in AllIn(s, w \ {f}) PROVE Key(g) # Key(f)
  <2>1. CASE g \in w \ {f}
        BY <2>1 DEF WellStacked
  <2>2. CASE g \notin w \ {f}
        BY <2>2, InAll DEF WellStacked
  <2>3. QED BY <2>1, <2>2
<1>4. QED BY <1>1, <1>2, <1>3 DEF Fresh

-----------------------------------------------------------------------------
(* The account of the heap.                                                *)

\* The context and the transaction of stranded ticks.
Strays(S) == {<<"ctx", n>> : n \in S} \cup {<<"tr", n>> : n \in S}

\* With the frames F, the stranded ticks S, m futures made and c ticks started,
\* exactly the objects L are to be allocated, and no tick has two owners.
Balanced(F, L, S, m, c) ==
    /\ F \subseteq FrameT /\ m \in Nat /\ c \in Nat /\ S \subseteq 1 .. c
    /\ \A f \in F : f.tick \in 1 .. c /\ (f.op # "run" => f.id \in 1 .. m)
    /\ \A f, g \in F : f.at # "leave" /\ g.at # "leave" =>
           f.tick \notin S /\ (f.tick = g.tick => f = g)
    /\ L = (UNION {Needs(f) : f \in F}) \cup Strays(S)

Back(f) == [f EXCEPT !.at = "leave"]

\* A frame submits the next request of its tick: the new frame takes the context
\* and the transaction over.
LEMMA HandOver ==
    ASSUME NEW F, NEW L, NEW S, NEW m, NEW c, Balanced(F, L, S, m, c),
           NEW f \in F, f.at = "enter",
           NEW new \in FrameT, new.op # "run", new.at = "enter",
           new.id = m + 1, new.tick = f.tick
    PROVE  Balanced(((F \ {f}) \cup {Back(f)}) \cup {new},
                    L \cup {Future(new), Wrapper(new)}, S, m + 1, c)
<1> DEFINE b == Back(f)
           G == ((F \ {f}) \cup {b}) \cup {new}
<1>1. /\ f \in FrameT /\ b \in FrameT /\ b.op = f.op /\ b.id = f.id /\ b.tick = f.tick
      /\ b.at = "leave"
      BY DEF Balanced, FrameT, Back
<1> HIDE DEF b
<1>2. /\ G \subseteq FrameT /\ m + 1 \in Nat /\ c \in Nat /\ S \subseteq 1 .. c
      /\ \A g \in G : g.tick \in 1 .. c /\ (g.op # "run" => g.id \in 1 .. m + 1)
      BY <1>1 DEF Balanced
<1>3. \A g, h \in G : g.at # "leave" /\ h.at # "leave" =>
          g.tick \notin S /\ (g.tick = h.tick => g = h)
      BY <1>1 DEF Balanced
<1>4. /\ Needs(b) \subseteq Needs(f)
      /\ Needs(f) \subseteq Needs(b) \cup Needs(new)
      /\ Needs(new) \subseteq Needs(f) \cup {Future(new), Wrapper(new)}
      /\ {Future(new), Wrapper(new)} \subseteq Needs(new)
      BY <1>1 DEF Needs, Future, Wrapper, Context, Tr
<1>5. L \cup {Future(new), Wrapper(new)} = (UNION {Needs(g) : g \in G}) \cup Strays(S)
  <2>1. L = (UNION {Needs(g) : g \in F}) \cup Strays(S)
        BY DEF Balanced
  <2>2. QED BY <1>4, <2>1
<1>6. QED BY <1>2, <1>3, <1>5 DEF Balanced, b

\* A frame goes on: what it gives up is what is freed, and nobody else needs it.
LEMMA GoesOn ==
    ASSUME NEW F, NEW L, NEW S, NEW m, NEW c, Balanced(F, L, S, m, c),
           NEW f \in F, f.at # "leave",
           NEW b \in FrameT, b.op = f.op, b.id = f.id, b.tick = f.tick,
           NEW D, Needs(b) = Needs(f) \ D, D \cap Strays(S) = {},
           \A g \in F \ {f} : Needs(g) \cap D = {}
    PROVE  Balanced((F \ {f}) \cup {b}, L \ D, S, m, c)
<1> DEFINE G == (F \ {f}) \cup {b}
<1>1. /\ G \subseteq FrameT
      /\ \A g \in G : g.tick \in 1 .. c /\ (g.op # "run" => g.id \in 1 .. m)
      BY DEF Balanced
<1>2. \A g, h \in G : g.at # "leave" /\ h.at # "leave" =>
          g.tick \notin S /\ (g.tick = h.tick => g = h)
      BY DEF Balanced
<1>3. L \ D = (UNION {Needs(g) : g \in G}) \cup Strays(S)
  <2>1. L = (UNION {Needs(g) : g \in F}) \cup Strays(S)
        BY DEF Balanced
  <2>2. QED BY <2>1
<1>4. QED BY <1>1, <1>2, <1>3 DEF Balanced

\* A frame fails to submit a commit or on_error: its tick is stranded.
LEMMA Strand ==
    ASSUME NEW F, NEW L, NEW S, NEW m, NEW c, Balanced(F, L, S, m, c),
           NEW f \in F, f.at = "enter"
    PROVE  Balanced((F \ {f}) \cup {Back(f)}, L, S \cup {f.tick}, m, c)
<1> DEFINE b == Back(f)
           G == (F \ {f}) \cup {b}
<1>1. /\ f \in FrameT /\ b \in FrameT /\ b.op = f.op /\ b.id = f.id /\ b.tick = f.tick
      /\ b.at = "leave"
      BY DEF Balanced, FrameT, Back
<1> HIDE DEF b
<1>2. /\ G \subseteq FrameT /\ S \cup {f.tick} \subseteq 1 .. c
      /\ \A g \in G : g.tick \in 1 .. c /\ (g.op # "run" => g.id \in 1 .. m)
      BY <1>1 DEF Balanced
<1>3. \A g, h \in G : g.at # "leave" /\ h.at # "leave" =>
          g.tick \notin S \cup {f.tick} /\ (g.tick = h.tick => g = h)
      BY <1>1 DEF Balanced
<1>4. Needs(b) \cup {Context(f), Tr(f)} = Needs(f)
      BY <1>1 DEF Needs, Future, Wrapper, Context, Tr
<1>5. Strays(S \cup {f.tick}) = Strays(S) \cup {Context(f), Tr(f)}
      BY DEF Strays, Context, Tr
<1>6. L = (UNION {Needs(g) : g \in G}) \cup Strays(S \cup {f.tick})
  <2>1. L = (UNION {Needs(g) : g \in F}) \cup Strays(S)
        BY DEF Balanced
  <2>2. QED BY <1>4, <1>5, <2>1
<1>7. QED BY <1>2, <1>3, <1>6 DEF Balanced, b

\* A frame returns and future_callback frees its future and its wrapper.
LEMMA Returns ==
    ASSUME NEW F, NEW L, NEW S, NEW m, NEW c, Balanced(F, L, S, m, c),
           NEW f \in F, f.at = "leave", \A g \in F : Key(g) = Key(f) => g = f
    PROVE  Balanced(F \ {f}, L \ Needs(f), S, m, c)
<1>1. \A g \in F \ {f} : Needs(g) \cap Needs(f) = {}
  <2>1. SUFFICES ASSUME NEW g \in F \ {f} PROVE Needs(g) \cap Needs(f) = {}
        OBVIOUS
  <2>2. CASE f.op = "run"
        BY <2>2 DEF Needs
  <2>3. CASE f.op # "run"
    <3>1. Needs(f) = {<<"future", f.id>>, <<"wrapper", f.id>>}
          BY <2>3 DEF Needs, Future, Wrapper
    <3>2. g.op = "run" \/ g.id # f.id
          BY <2>3 DEF Key
    <3>3. CASE g.op = "run"
          BY <3>1, <3>3 DEF Needs, Context, Tr
    <3>4. CASE g.id # f.id
      <4>1. /\ Future(g) \notin Needs(f) /\ Wrapper(g) \notin Needs(f)
            /\ Context(g) \notin Needs(f) /\ Tr(g) \notin Needs(f)
            BY <3>1, <3>4 DEF Future, Wrapper, Context, Tr
      <4>2. QED BY <4>1 DEF Needs
    <3>5. QED BY <3>2, <3>3, <3>4
  <2>4. QED BY <2>2, <2>3
<1>2. Needs(f) \cap Strays(S) = {}
      BY DEF Needs, Future, Wrapper, Strays
<1>3. L \ Needs(f) = (UNION {Needs(g) : g \in F \ {f}}) \cup Strays(S)
  <2>1. L = (UNION {Needs(g) : g \in F}) \cup Strays(S)
        BY DEF Balanced
  <2>2. QED BY <1>1, <1>2, <2>1
<1>4. QED BY <1>3 DEF Balanced

\* zf_zonetick_run begins a tick.
LEMMA Begins ==
    ASSUME NEW F, NEW L, NEW S, NEW m, NEW c, Balanced(F, L, S, m, c)
    PROVE  /\ Frame("run", 0, c + 1) \in FrameT
           /\ \A g \in F : Key(g) # Key(Frame("run", 0, c + 1))
           /\ Balanced(F \cup {Frame("run", 0, c + 1)},
                       L \cup {<<"ctx", c + 1>>, <<"tr", c + 1>>}, S, m, c + 1)
<1> DEFINE f == Frame("run", 0, c + 1)
           G == F \cup {f}
<1>1. f \in FrameT /\ f.op = "run" /\ f.at = "enter" /\ f.tick = c + 1
      BY DEF Frame, FrameT, Balanced
<1> HIDE DEF f
<1>2. \A g \in F : Key(g) # Key(f)
      BY <1>1 DEF Key, Balanced
<1>3. /\ G \subseteq FrameT /\ c + 1 \in Nat /\ S \subseteq 1 .. c + 1
      /\ \A g \in G : g.tick \in 1 .. c + 1 /\ (g.op # "run" => g.id \in 1 .. m)
      BY <1>1 DEF Balanced
<1>4. \A g, h \in G : g.at # "leave" /\ h.at # "leave" =>
          g.tick \notin S /\ (g.tick = h.tick => g = h)
      BY <1>1 DEF Balanced
<1>5. Needs(f) = {<<"ctx", c + 1>>, <<"tr", c + 1>>}
      BY <1>1 DEF Needs, Context, Tr
<1>6. L \cup Needs(f) = (UNION {Needs(g) : g \in G}) \cup Strays(S)
  <2>1. L = (UNION {Needs(g) : g \in F}) \cup Strays(S)
        BY DEF Balanced
  <2>2. QED BY <2>1
<1>7. Balanced(G, L \cup Needs(f), S, m, c + 1)
      BY <1>3, <1>4, <1>6 DEF Balanced
<1>8. QED BY <1>1, <1>2, <1>5, <1>7 DEF f

-----------------------------------------------------------------------------
(* The tick.                                                               *)

\* The inductive invariant.
CallInv ==
    /\ WellStacked(stack, waiting)
    /\ Balanced(AllIn(stack, waiting), live, stranded, made, calls)

\* Nothing has happened yet.
LEMMA CallInitially == CallInit => CallInv
<1> SUFFICES ASSUME CallInit PROVE CallInv
    OBVIOUS
<1>1. stack \in Stacks /\ \A t \in CallThreads : Len(stack[t]) = 0
      BY DEF CallInit, Stacks
<1>2. WellStacked(stack, waiting)
      BY <1>1 DEF CallInit, WellStacked
<1>3. AllIn(stack, waiting) = {}
      BY <1>1 DEF CallInit, AllIn
<1>4. Balanced({}, {}, {}, 0, 0)
      BY DEF Balanced, Strays
<1>5. QED BY <1>2, <1>3, <1>4 DEF CallInit, CallInv

\* A submission, from the innermost frame of a thread.
LEMMA SubmitKeeps ==
    ASSUME CallInv, NEW t \in CallThreads, stack[t] # <<>>, Top(t).at = "enter",
           NEW op \in {"range", "commit", "on_error"}, NEW n, submit_future(t, op, n),
           calls' = calls
    PROVE  CallInv'
<1> DEFINE f == Top(t)
           new == Frame(op, made + 1, f.tick)
           back == [f EXCEPT !.at = "leave"]
           F == AllIn(stack, waiting)
<1>1. WellStacked(stack, waiting) /\ Balanced(F, live, stranded, made, calls)
      BY DEF CallInv
<1>2. f = stack[t][Len(stack[t])] /\ f \in F /\ f \in FrameT /\ f.at = "enter"
      BY <1>1, InnerFrame DEF Top
<1>3. /\ back \in FrameT /\ Key(back) = Key(f) /\ back.at = "leave" /\ back = Back(f)
      BY <1>2 DEF FrameT, Key, Back
<1>4. /\ new \in FrameT /\ new.op # "run" /\ new.at = "enter" /\ new.id = made + 1
      /\ new.tick = f.tick
      BY <1>1, <1>2 DEF FrameT, Frame, Balanced
<1> DEFINE r == WithTop(t, back)
<1>r. r = Replaced(stack, t, back)
      BY DEF WithTop, Replaced
<1> HIDE DEF f, new, back, F, r
<1>5. /\ WellStacked(r, waiting) /\ AllIn(r, waiting) = (F \ {f}) \cup {back}
      /\ r[t] # <<>> /\ r[t][Len(r[t])] = back
  <2>1. WellStacked(stack, waiting) /\ back \in FrameT /\ Key(back) = Key(stack[t][Len(stack[t])])
        BY <1>1, <1>2, <1>3
  <2>2. /\ WellStacked(Replaced(stack, t, back), waiting)
        /\ Replaced(stack, t, back)[t] # <<>>
        BY <2>1, Replace
  <2>3. Replaced(stack, t, back)[t][Len(Replaced(stack, t, back)[t])] = back
        BY <2>1, Replace
  <2>4. AllIn(Replaced(stack, t, back), waiting)
            = (AllIn(stack, waiting) \ {stack[t][Len(stack[t])]}) \cup {back}
        BY <2>1, Replace
  <2>5. QED BY <2>2, <2>3, <2>4, <1>2, <1>r DEF F
<1>6. Fresh(new, r, waiting)
  <2>1. SUFFICES ASSUME NEW g \in (F \ {f}) \cup {back} PROVE Key(g) # Key(new)
        BY <1>5 DEF Fresh
  <2>2. PICK h \in F : Key(g) = Key(h)
        BY <2>1, <1>2, <1>3
  <2>3. Key(new) = <<"request", made + 1>>
        BY <1>4 DEF Key
  <2>4. h.op # "run" => h.id # made + 1
        BY <1>1 DEF Balanced
  <2>5. QED BY <2>2, <2>3, <2>4 DEF Key
<1>7. CASE /\ live' = live \cup {Future(new), Wrapper(new)} /\ made' = made + 1
           /\ stranded' = stranded
           /\ \/ stack' = r /\ waiting' = waiting \cup {new}
              \/ stack' = Pushed(r, t, new) /\ waiting' = waiting
  <2>1. Balanced(((F \ {f}) \cup {Back(f)}) \cup {new},
                 live \cup {Future(new), Wrapper(new)}, stranded, made + 1, calls)
        BY <1>1, <1>2, <1>4, HandOver
  <2>2. WellStacked(stack', waiting') /\ AllIn(stack', waiting') = AllIn(r, waiting) \cup {new}
    <3>1. CASE stack' = r /\ waiting' = waiting \cup {new}
      <4>1. WellStacked(r, waiting') /\ AllIn(r, waiting') = AllIn(r, waiting) \cup {new}
            BY <3>1, <1>4, <1>5, <1>6, Register
      <4>2. QED BY <3>1, <4>1
    <3>2. CASE stack' = Pushed(r, t, new) /\ waiting' = waiting
      <4>1. r[t][Len(r[t])].at = "leave"
            BY <1>3, <1>5
      <4>2. /\ WellStacked(stack', waiting)
            /\ AllIn(stack', waiting) = AllIn(r, waiting) \cup {new}
            BY <3>2, <4>1, <1>4, <1>5, <1>6, Push
      <4>3. QED BY <3>2, <4>2
    <3>3. QED BY <1>7, <3>1, <3>2
  <2>3. AllIn(stack', waiting') = ((F \ {f}) \cup {Back(f)}) \cup {new}
        BY <2>2, <1>3, <1>5
  <2>4. QED BY <2>1, <2>2, <2>3, <1>7 DEF CallInv
<1>8. CASE /\ live' = live /\ made' = made /\ waiting' = waiting /\ stranded' = stranded
           /\ stack' = WithTop(t, [f EXCEPT !.at = "finish"])
  <2> DEFINE b == [f EXCEPT !.at = "finish"]
  <2>1. /\ b \in FrameT /\ Key(b) = Key(f) /\ b.op = f.op /\ b.id = f.id /\ b.tick = f.tick
        /\ b.at = "finish"
        BY <1>2 DEF FrameT, Key
  <2>r. stack' = Replaced(stack, t, b)
        BY <1>8 DEF WithTop, Replaced
  <2> HIDE DEF b
  <2>2. Needs(b) = Needs(f) \ {}
        BY <2>1, <1>2 DEF Needs, Future, Wrapper, Context, Tr
  <2>3. Balanced((F \ {f}) \cup {b}, live \ {}, stranded, made, calls)
        BY <2>1, <2>2, <1>1, <1>2, GoesOn
  <2>4. WellStacked(stack', waiting) /\ AllIn(stack', waiting) = (F \ {f}) \cup {b}
        BY <2>1, <2>r, <1>1, <1>2, Replace DEF F
  <2>5. live \ {} = live
        OBVIOUS
  <2>6. QED BY <2>3, <2>4, <2>5, <1>8 DEF CallInv
<1>9. CASE /\ live' = live /\ made' = made /\ waiting' = waiting
           /\ stranded' = stranded \cup {f.tick} /\ stack' = r
  <2>1. Balanced((F \ {f}) \cup {Back(f)}, live, stranded \cup {f.tick}, made, calls)
        BY <1>1, <1>2, Strand
  <2>2. QED BY <2>1, <1>3, <1>5, <1>9 DEF CallInv
<1>10. QED BY <1>7, <1>8, <1>9 DEF submit_future, Discarded, Pushed, f, new, back, r

\* The innermost frame of a thread goes on to end its tick, ends it, or has ended
\* it, and frees what the step frees.
LEMMA FrameGoesOn ==
    ASSUME CallInv, NEW t \in CallThreads, stack[t] # <<>>, NEW b \in FrameT, NEW D,
           Top(t).at # "leave",
           b.op = Top(t).op, b.id = Top(t).id, b.tick = Top(t).tick,
           Needs(b) = Needs(Top(t)) \ D, D \subseteq {Context(Top(t)), Tr(Top(t))},
           stack' = WithTop(t, b), live' = live \ D,
           waiting' = waiting, made' = made, calls' = calls, stranded' = stranded
    PROVE  CallInv'
<1> DEFINE f == Top(t)
           F == AllIn(stack, waiting)
<1>1. WellStacked(stack, waiting) /\ Balanced(F, live, stranded, made, calls)
      BY DEF CallInv
<1>2. f = stack[t][Len(stack[t])] /\ f \in F /\ f \in FrameT /\ Key(b) = Key(f)
      BY <1>1, InnerFrame DEF Top, Key
<1>3. D \cap Strays(stranded) = {}
      BY <1>1, <1>2 DEF Balanced, Strays, Context, Tr
<1>4. \A g \in F \ {f} : Needs(g) \cap D = {}
  <2>1. SUFFICES ASSUME NEW g \in F \ {f} PROVE Needs(g) \cap D = {}
        OBVIOUS
  <2>2. CASE g.at = "leave"
        BY <2>2 DEF Needs, Future, Wrapper, Context, Tr
  <2>3. CASE g.at # "leave"
    <3>1. g.tick # f.tick
          BY <2>3, <1>1, <1>2 DEF Balanced
    <3>2. QED BY <3>1 DEF Needs, Future, Wrapper, Context, Tr
  <2>4. QED BY <2>2, <2>3
<1>5. Balanced((F \ {f}) \cup {b}, live \ D, stranded, made, calls)
      BY <1>1, <1>2, <1>3, <1>4, GoesOn
<1>6. WellStacked(stack', waiting) /\ AllIn(stack', waiting) = (F \ {f}) \cup {b}
  <2>1. stack' = Replaced(stack, t, b)
        BY DEF WithTop, Replaced
  <2>2. Key(b) = Key(stack[t][Len(stack[t])]) /\ b \in FrameT /\ stack[t] # <<>>
        BY <1>2
  <2>3. WellStacked(stack, waiting)
        BY <1>1
  <2> HIDE DEF f, F
  <2>4. WellStacked(Replaced(stack, t, b), waiting)
        BY ONLY <2>2, <2>3, Replace
  <2>5. AllIn(Replaced(stack, t, b), waiting)
            = (AllIn(stack, waiting) \ {stack[t][Len(stack[t])]}) \cup {b}
        BY ONLY <2>2, <2>3, Replace
  <2>6. QED BY <2>1, <2>4, <2>5, <1>2 DEF F
<1>7. QED BY <1>5, <1>6 DEF CallInv

\* Every step of the adapter and of the tick keeps the invariant.
LEMMA CallStep == CallInv /\ [CallNext]_cvars => CallInv'
<1> SUFFICES ASSUME CallInv, [CallNext]_cvars PROVE CallInv'
    OBVIOUS
<1> DEFINE F == AllIn(stack, waiting)
<1>1. WellStacked(stack, waiting) /\ Balanced(F, live, stranded, made, calls)
      BY DEF CallInv
<1>2. ASSUME NEW t \in CallThreads, zf_zonetick_run(t) PROVE CallInv'
  <2> DEFINE f == Frame("run", 0, calls + 1)
  <2>1. /\ f \in FrameT /\ Fresh(f, stack, waiting)
        /\ Balanced(F \cup {f}, live \cup {<<"ctx", calls + 1>>, <<"tr", calls + 1>>},
                    stranded, made, calls + 1)
        BY <1>1, Begins DEF Fresh
  <2>2. stack' = Pushed(stack, t, f)
        BY <1>2 DEF zf_zonetick_run, Pushed
  <2>3. stack[t] = <<>>
        BY <1>2 DEF zf_zonetick_run
  <2> HIDE DEF f
  <2>4. WellStacked(stack', waiting) /\ AllIn(stack', waiting) = F \cup {f}
        BY <1>1, <2>1, <2>2, <2>3, Push
  <2>5. QED BY <1>2, <2>1, <2>4 DEF zf_zonetick_run, CallInv
<1>3. ASSUME NEW t \in CallThreads, NetCallback(t) PROVE CallInv'
  <2>1. PICK f \in waiting : /\ waiting' = waiting \ {f}
                             /\ stack' = [stack EXCEPT ![t] = <<f>>]
        BY <1>3 DEF NetCallback
  <2>2. /\ WellStacked(stack, waiting') /\ Fresh(f, stack, waiting')
        /\ AllIn(stack, waiting') \cup {f} = F
        BY <1>1, <2>1, Unregister
  <2>3. stack[t] = <<>> /\ f \in FrameT
        BY <1>1, <1>3 DEF NetCallback, WellStacked
  <2>4. stack' = Pushed(stack, t, f)
        BY <2>1, <2>3 DEF Pushed
  <2>5. WellStacked(stack', waiting') /\ AllIn(stack', waiting') = F
    <3>1. /\ WellStacked(stack', waiting')
          /\ AllIn(stack', waiting') = AllIn(stack, waiting') \cup {f}
          BY <2>2, <2>3, <2>4, Push
    <3>2. QED BY <2>2, <3>1
  <2>6. QED BY <1>1, <1>3, <2>5 DEF NetCallback, CallInv
<1>4. ASSUME NEW t \in CallThreads, Leave(t) PROVE CallInv'
  <2>1. stack[t] # <<>> /\ Top(t).at = "leave"
        BY <1>4 DEF Leave, Running
  <2>2. Top(t) = stack[t][Len(stack[t])] /\ Top(t) \in F
        BY <1>1, <2>1, InnerFrame DEF Top
  <2>3. stack' = Popped(stack, t)
        BY <1>4 DEF Leave, Popped
  <2>4. WellStacked(stack', waiting) /\ AllIn(stack', waiting) = F \ {Top(t)}
        BY <1>1, <2>1, <2>2, <2>3, Pop, SMTT(30)
  <2>5. \A g \in F : Key(g) = Key(Top(t)) => g = Top(t)
        BY <1>1, <2>2, KeysTell
  <2>6. Balanced(F \ {Top(t)}, live \ Needs(Top(t)), stranded, made, calls)
        BY <1>1, <2>1, <2>2, <2>5, Returns
  <2>7. live' = live \ Needs(Top(t))
        BY <1>4, <2>1 DEF Leave, Needs
  <2>8. QED BY <1>4, <2>4, <2>6, <2>7 DEF Leave, CallInv
<1>5. ASSUME NEW t \in CallThreads, Enter(t) PROVE CallInv'
  <2>1. stack[t] # <<>> /\ Top(t).at = "enter" /\ calls' = calls
        BY <1>5 DEF Enter, Running
  <2>2. Top(t) \in FrameT
        BY <1>1, <2>1, InnerFrame DEF Top
  <2>3. ASSUME NEW op \in {"range", "commit", "on_error"}, NEW n, submit_future(t, op, n)
        PROVE  CallInv'
        BY <2>1, <2>3, SubmitKeeps
  <2>4. ASSUME NEW ok \in BOOLEAN, NEW n, Finish(t, ok, n) PROVE CallInv'
    <3> DEFINE b == [Top(t) EXCEPT !.at = "finish", !.ok = ok]
    <3>1. /\ b \in FrameT /\ b.op = Top(t).op /\ b.id = Top(t).id /\ b.tick = Top(t).tick
          /\ b.at = "finish"
          BY <2>2 DEF FrameT
    <3>2. stack' = WithTop(t, b)
          BY <2>4 DEF Finish
    <3> HIDE DEF b
    <3>3. Needs(b) = Needs(Top(t)) \ {}
          BY <2>1, <3>1 DEF Needs, Future, Wrapper, Context, Tr
    <3>4. /\ live' = live \ {} /\ waiting' = waiting /\ made' = made
          /\ stranded' = stranded /\ {} \subseteq {Context(Top(t)), Tr(Top(t))}
          BY <2>4 DEF Finish
    <3>5. QED BY <2>1, <3>1, <3>2, <3>3, <3>4, FrameGoesOn
  <2>5. CASE zt_start_range_read(t)
        BY <2>3, <2>5 DEF zt_start_range_read
  <2>6. CASE zt_on_range_read(t)
        BY <2>3, <2>4, <2>6 DEF zt_on_range_read, OnError
  <2>7. CASE zt_on_commit(t)
        BY <2>3, <2>4, <2>7 DEF zt_on_commit, OnError
  <2>8. QED BY <1>5, <2>5, <2>6, <2>7 DEF Enter
<1>6. ASSUME NEW t \in CallThreads, zt_finish(t) PROVE CallInv'
  <2>1. stack[t] # <<>> /\ Top(t).at = "finish"
        BY <1>6 DEF zt_finish, Running
  <2>2. Top(t) \in FrameT
        BY <1>1, <2>1, InnerFrame DEF Top
  <2> DEFINE b == [Top(t) EXCEPT !.at = "done"]
             D == {Tr(Top(t))}
  <2>3. /\ b \in FrameT /\ b.op = Top(t).op /\ b.id = Top(t).id /\ b.tick = Top(t).tick
        /\ b.at = "done"
        BY <2>2 DEF FrameT
  <2>4. stack' = WithTop(t, b) /\ live' = live \ D
        BY <1>6 DEF zt_finish
  <2> HIDE DEF b
  <2>5. Needs(b) = Needs(Top(t)) \ D /\ D \subseteq {Context(Top(t)), Tr(Top(t))}
        BY <2>1, <2>3, SMTT(30) DEF Needs, Future, Wrapper, Context, Tr
  <2>6. /\ waiting' = waiting /\ made' = made /\ calls' = calls /\ stranded' = stranded
        BY <1>6 DEF zt_finish
  <2> HIDE DEF D
  <2>7. QED BY <2>1, <2>3, <2>4, <2>5, <2>6, FrameGoesOn
<1>7. ASSUME NEW t \in CallThreads, DoneReturns(t) PROVE CallInv'
  <2>1. stack[t] # <<>> /\ Top(t).at = "done"
        BY <1>7 DEF DoneReturns, Running
  <2>2. Top(t) \in FrameT
        BY <1>1, <2>1, InnerFrame DEF Top
  <2> DEFINE b == [Top(t) EXCEPT !.at = "leave"]
             D == {Context(Top(t))}
  <2>3. /\ b \in FrameT /\ b.op = Top(t).op /\ b.id = Top(t).id /\ b.tick = Top(t).tick
        /\ b.at = "leave"
        BY <2>2 DEF FrameT
  <2>4. stack' = WithTop(t, b) /\ live' = live \ D
        BY <1>7 DEF DoneReturns
  <2> HIDE DEF b
  <2>5. Needs(b) = Needs(Top(t)) \ D /\ D \subseteq {Context(Top(t)), Tr(Top(t))}
        BY <2>1, <2>3, SMTT(30) DEF Needs, Future, Wrapper, Context, Tr
  <2>6. /\ waiting' = waiting /\ made' = made /\ calls' = calls /\ stranded' = stranded
        BY <1>7 DEF DoneReturns
  <2> HIDE DEF D
  <2>7. QED BY <2>1, <2>3, <2>4, <2>5, <2>6, FrameGoesOn
<1>8. CASE UNCHANGED cvars
      BY <1>8 DEF cvars, CallInv
<1>9. QED BY <1>2, <1>3, <1>4, <1>5, <1>6, <1>7, <1>8 DEF CallNext

\* The properties are consequences of the invariant.
LEMMA CallInvImplies == CallInv => FramesHaveObjects /\ OneOwner /\ NothingLeaks
<1> SUFFICES ASSUME CallInv PROVE FramesHaveObjects /\ OneOwner /\ NothingLeaks
    OBVIOUS
<1> DEFINE F == Frames \cup waiting
<1>1. AllIn(stack, waiting) = F
      BY DEF AllIn, Frames
<1>2. Balanced(F, live, stranded, made, calls)
      BY <1>1 DEF CallInv
<1>3. live = (UNION {Needs(f) : f \in F}) \cup Strays(stranded)
      BY <1>2 DEF Balanced
<1>4. FramesHaveObjects
      BY <1>3 DEF FramesHaveObjects
<1>5. OneOwner
      BY <1>2 DEF Balanced, OneOwner
<1>6. NothingLeaks
      BY <1>3 DEF NothingLeaks, Strays
<1>7. QED BY <1>4, <1>5, <1>6

\* No frame, however deep callbacks nest and whatever the threads interleave, uses
\* or frees an object that has been freed.
THEOREM CallsMemorySafe == CallSpec => []FramesHaveObjects
<1>1. QED BY CallInitially, CallStep, CallInvImplies, PTL DEF CallSpec

\* A tick is in one pair of hands at a time, so its context needs no lock.
THEOREM CallsOneOwner == CallSpec => []OneOwner
<1>1. QED BY CallInitially, CallStep, CallInvImplies, PTL DEF CallSpec

\* When all is quiet only stranded ticks have anything allocated.
THEOREM CallsNoLeak == CallSpec => []NothingLeaks
<1>1. QED BY CallInitially, CallStep, CallInvImplies, PTL DEF CallSpec

-----------------------------------------------------------------------------
(* How deep callbacks nest.                                                *)

\* How deep the callback of a request is, of those inside one call or one on_error.
Level(op) == IF op = "range" THEN 2 ELSE IF op = "commit" THEN 3 ELSE 1

\* No frame of the stacks s is deeper than e errors account for.
Depths(s, e) ==
    \A t \in CallThreads : \A i \in 1 .. Len(s[t]) : i =< 3 * e + Level(s[t][i].op)

DepthInv == errors \in Nat /\ Depths(stack, errors)

\* Another frame for the same request is as deep,
LEMMA DepthReplaced ==
    ASSUME NEW s \in Stacks, NEW t \in CallThreads, s[t] # <<>>, NEW f \in FrameT,
           f.op = s[t][Len(s[t])].op, NEW d \in Nat, NEW e \in Nat, d =< e, Depths(s, d)
    PROVE  Depths(Replaced(s, t, f), e)
<1> DEFINE r == Replaced(s, t, f)
<1>1. /\ \A u \in CallThreads : Len(r[u]) = Len(s[u])
      /\ \A u \in CallThreads : \A i \in 1 .. Len(s[u]) :
             r[u][i] = IF u = t /\ i = Len(s[t]) THEN f ELSE s[u][i]
  <2>1. Len(s[t]) # 0
        BY DEF Stacks
  <2>2. QED BY <2>1, ReplacedIs
<1> HIDE DEF r
<1>2. \A u \in CallThreads : \A i \in 1 .. Len(r[u]) :
          i \in 1 .. Len(s[u]) /\ r[u][i].op = s[u][i].op
      BY <1>1
<1>3. ASSUME NEW u \in CallThreads, NEW i \in 1 .. Len(r[u])
      PROVE  i =< 3 * e + Level(r[u][i].op)
  <2>1. i =< 3 * d + Level(s[u][i].op) /\ r[u][i].op = s[u][i].op
        BY <1>2 DEF Depths
  <2>2. Level(s[u][i].op) \in Nat /\ i \in Int
        BY DEF Level
  <2>3. QED BY <2>1, <2>2
<1>4. QED BY <1>3 DEF Depths, r

\* a frame on top of another one deeper,
LEMMA DepthPushed ==
    ASSUME NEW s \in Stacks, NEW t \in CallThreads, NEW f \in FrameT, NEW e \in Nat,
           Depths(s, e), Len(s[t]) + 1 =< 3 * e + Level(f.op)
    PROVE  Depths(Pushed(s, t, f), e)
<1> DEFINE r == Pushed(s, t, f)
<1>1. /\ Len(r[t]) = Len(s[t]) + 1 /\ r[t][Len(s[t]) + 1] = f
      /\ \A u \in CallThreads : u # t => Len(r[u]) = Len(s[u])
      /\ \A u \in CallThreads : \A i \in 1 .. Len(s[u]) : r[u][i] = s[u][i]
      BY PushedIs
<1>2. \A u \in CallThreads : Len(s[u]) \in Nat
      BY DEF Stacks
<1> HIDE DEF r
<1>3. ASSUME NEW u \in CallThreads, NEW i \in 1 .. Len(r[u])
      PROVE  i =< 3 * e + Level(r[u][i].op)
  <2>1. CASE i \in 1 .. Len(s[u])
        BY <1>1, <2>1 DEF Depths
  <2>2. CASE u = t /\ i = Len(s[t]) + 1
        BY <1>1, <2>2
  <2>3. QED BY <1>1, <1>2, <2>1, <2>2
<1>4. QED BY <1>3 DEF Depths, r

\* and a return leaves the others where they are.
LEMMA DepthPopped ==
    ASSUME NEW s \in Stacks, NEW t \in CallThreads, s[t] # <<>>, NEW e \in Nat, Depths(s, e)
    PROVE  Depths(Popped(s, t), e)
<1> DEFINE r == Popped(s, t)
<1>1. \A u \in CallThreads : Len(s[u]) \in Nat
      BY DEF Stacks
<1>2. Len(s[t]) # 0
      BY DEF Stacks
<1>3. /\ Len(r[t]) = Len(s[t]) - 1
      /\ \A u \in CallThreads : u # t => Len(r[u]) = Len(s[u])
      /\ \A u \in CallThreads : \A i \in 1 .. Len(r[u]) : r[u][i] = s[u][i]
      BY <1>2, PoppedIs
<1> HIDE DEF r
<1>4. \A u \in CallThreads : \A i \in 1 .. Len(r[u]) : i \in 1 .. Len(s[u])
      BY <1>1, <1>3
<1>5. QED BY <1>3, <1>4 DEF Depths, r

\* A submission nests a callback one deeper at most, and an on_error is paid for by
\* the error it handles.
LEMMA DepthSubmit ==
    ASSUME CallInv, DepthInv, NEW t \in CallThreads, stack[t] # <<>>,
           NEW op \in {"range", "commit", "on_error"}, NEW n \in Nat, submit_future(t, op, n),
           Level(Top(t).op) + 1 =< 3 * n + Level(op)
    PROVE  DepthInv'
<1> DEFINE f == Top(t)
           new == Frame(op, made + 1, f.tick)
           back == [f EXCEPT !.at = "leave"]
           fin == [f EXCEPT !.at = "finish"]
<1>1. stack \in Stacks /\ f \in FrameT /\ f = stack[t][Len(stack[t])] /\ made \in Nat
      BY InnerFrame DEF CallInv, WellStacked, Balanced, Top
<1>2. /\ back \in FrameT /\ back.op = f.op
      /\ fin \in FrameT /\ fin.op = f.op
      /\ new \in FrameT /\ new.op = op
      BY <1>1 DEF FrameT, Frame
<1>3. errors \in Nat /\ Depths(stack, errors)
      BY DEF DepthInv
<1>4. \/ errors' = errors + n /\ \/ stack' = Replaced(stack, t, back)
                                 \/ stack' = Pushed(Replaced(stack, t, back), t, new)
      \/ errors' = errors + (n + 1) /\ \/ stack' = Replaced(stack, t, back)
                                       \/ stack' = Replaced(stack, t, fin)
      BY DEF submit_future, Errs, WithTop, Replaced, Pushed
<1>5. errors' \in Nat /\ errors =< errors'
      BY <1>3, <1>4
<1> HIDE DEF f, new, back, fin
<1>6. Depths(Replaced(stack, t, back), errors') /\ Depths(Replaced(stack, t, fin), errors')
      BY <1>1, <1>2, <1>3, <1>5, DepthReplaced
<1>7. CASE stack' \in {Replaced(stack, t, back), Replaced(stack, t, fin)}
      BY <1>5, <1>6, <1>7 DEF DepthInv
<1>8. CASE errors' = errors + n /\ stack' = Pushed(Replaced(stack, t, back), t, new)
  <2> DEFINE r == Replaced(stack, t, back)
  <2>1. Len(stack[t]) \in Nat \ {0}
        BY <1>1 DEF Stacks
  <2>2. r \in Stacks /\ Len(r[t]) = Len(stack[t])
        BY <1>1, <1>2, <2>1, ReplacedIs
  <2>3. Len(stack[t]) =< 3 * errors + Level(f.op)
        BY <1>1, <1>3, <2>1 DEF Depths
  <2>4. Level(f.op) \in Nat /\ Level(op) \in Nat /\ Level(f.op) + 1 =< 3 * n + Level(op)
        BY DEF Level, f
  <2>5. Len(r[t]) + 1 =< 3 * errors' + Level(new.op)
    <3>1. Len(r[t]) + 1 =< 3 * errors + (3 * n + Level(op))
          BY <1>3, <2>1, <2>2, <2>3, <2>4
    <3>2. 3 * errors' = 3 * errors + 3 * n
          BY <1>3, <1>8
    <3>3. QED BY <1>2, <1>3, <2>4, <3>1, <3>2
  <2>6. Depths(r, errors')
        BY <1>6
  <2> HIDE DEF r
  <2>7. Depths(Pushed(r, t, new), errors')
        BY <1>2, <1>5, <2>2, <2>5, <2>6, DepthPushed
  <2>8. QED BY <1>5, <1>8, <2>7 DEF DepthInv, r
<1>9. QED BY <1>4, <1>7, <1>8

\* The inductive invariant holds at the start,
LEMMA DepthInitially == CallInit => DepthInv
  BY DEF CallInit, DepthInv, Depths

\* and every step keeps it.
LEMMA DepthStep == CallInv /\ DepthInv /\ [CallNext]_cvars => DepthInv'
<1> SUFFICES ASSUME CallInv, DepthInv, [CallNext]_cvars PROVE DepthInv'
    OBVIOUS
<1>1. stack \in Stacks /\ waiting \subseteq FrameT /\ calls \in Nat
      BY DEF CallInv, WellStacked, Balanced
<1>2. errors \in Nat /\ Depths(stack, errors)
      BY DEF DepthInv
<1>3. ASSUME NEW t \in CallThreads, stack[t] # <<>>, NEW b \in FrameT, b.op = Top(t).op,
             NEW e \in Nat, errors =< e, stack' = WithTop(t, b), errors' = e
      PROVE  DepthInv'
  <2>1. stack' = Replaced(stack, t, b) /\ b.op = stack[t][Len(stack[t])].op
        BY <1>3 DEF WithTop, Replaced, Top
  <2>2. Depths(Replaced(stack, t, b), e)
        BY <1>1, <1>2, <1>3, <2>1, DepthReplaced
  <2>3. QED BY <1>3, <2>1, <2>2 DEF DepthInv
<1>4. ASSUME NEW t \in CallThreads, stack[t] = <<>>, NEW f \in FrameT,
             stack' = [stack EXCEPT ![t] = <<f>>], errors' = errors
      PROVE  DepthInv'
  <2>1. stack' = Pushed(stack, t, f) /\ Len(stack[t]) = 0
        BY <1>4 DEF Pushed
  <2>2. Len(stack[t]) + 1 =< 3 * errors + Level(f.op)
        BY <1>2, <2>1 DEF Level
  <2>3. Depths(Pushed(stack, t, f), errors)
        BY <1>1, <1>2, <2>2, DepthPushed
  <2>4. QED BY <1>2, <1>4, <2>1, <2>3 DEF DepthInv
<1>5. ASSUME NEW t \in CallThreads, zf_zonetick_run(t) PROVE DepthInv'
  <2>1. Frame("run", 0, calls + 1) \in FrameT
        BY <1>1 DEF Frame, FrameT
  <2>2. QED BY <1>4, <1>5, <2>1 DEF zf_zonetick_run
<1>6. ASSUME NEW t \in CallThreads, NetCallback(t) PROVE DepthInv'
  <2>1. PICK f \in waiting : stack' = [stack EXCEPT ![t] = <<f>>]
        BY <1>6 DEF NetCallback
  <2>2. QED BY <1>1, <1>4, <1>6, <2>1 DEF NetCallback
<1>7. ASSUME NEW t \in CallThreads, Leave(t) PROVE DepthInv'
  <2>1. stack[t] # <<>> /\ stack' = Popped(stack, t) /\ errors' = errors
        BY <1>7 DEF Leave, Running, Popped
  <2>2. Depths(Popped(stack, t), errors)
        BY <1>1, <1>2, <2>1, DepthPopped
  <2>3. QED BY <1>2, <2>1, <2>2 DEF DepthInv
<1>8. ASSUME NEW t \in CallThreads, Enter(t) PROVE DepthInv'
  <2>1. stack[t] # <<>> /\ Top(t) \in FrameT
        BY <1>8, InnerFrame DEF Enter, Running, CallInv, Top
  <2>2. ASSUME NEW op \in {"range", "commit", "on_error"}, NEW n \in Nat,
               submit_future(t, op, n), Level(Top(t).op) + 1 =< 3 * n + Level(op)
        PROVE  DepthInv'
        BY <2>1, <2>2, DepthSubmit
  <2>3. ASSUME NEW ok \in BOOLEAN, NEW n \in Nat, Finish(t, ok, n) PROVE DepthInv'
    <3> DEFINE b == [Top(t) EXCEPT !.at = "finish", !.ok = ok]
    <3>1. b \in FrameT /\ b.op = Top(t).op
          BY <2>1 DEF FrameT
    <3>2. stack' = WithTop(t, b) /\ errors' = errors + n
          BY <2>3 DEF Finish, Errs
    <3> HIDE DEF b
    <3>3. errors + n \in Nat /\ errors =< errors + n
          BY <1>2
    <3>4. QED BY <1>3, <2>1, <3>1, <3>2, <3>3
  <2>4. ASSUME OnError(t) PROVE DepthInv'
    <3>1. Level(Top(t).op) + 1 =< 3 * 1 + Level("on_error")
          BY DEF Level
    <3>2. QED BY <2>2, <2>4, <3>1 DEF OnError
  <2>5. CASE Top(t).op \in {"run", "on_error"} /\ zt_start_range_read(t)
    <3>1. Level(Top(t).op) + 1 =< 3 * 0 + Level("range")
          BY <2>5 DEF Level
    <3>2. QED BY <2>2, <2>5, <3>1 DEF zt_start_range_read
  <2>6. CASE Top(t).op = "range" /\ zt_on_range_read(t)
    <3>1. Level(Top(t).op) + 1 =< 3 * 0 + Level("commit")
          BY <2>6 DEF Level
    <3>2. CASE submit_future(t, "commit", 0)
          BY <2>2, <3>1, <3>2
    <3>3. CASE Finish(t, FALSE, 1)
          BY <2>3, <3>3
    <3>4. QED BY <2>4, <2>6, <3>2, <3>3 DEF zt_on_range_read
  <2>7. CASE Top(t).op = "commit" /\ zt_on_commit(t)
        BY <2>3, <2>4, <2>7 DEF zt_on_commit
  <2>8. QED BY <1>8, <2>5, <2>6, <2>7 DEF Enter
<1>9. ASSUME NEW t \in CallThreads, zt_finish(t) PROVE DepthInv'
  <2>1. stack[t] # <<>> /\ Top(t) \in FrameT
        BY <1>9, InnerFrame DEF zt_finish, Running, CallInv, Top
  <2> DEFINE b == [Top(t) EXCEPT !.at = "done"]
  <2>2. b \in FrameT /\ b.op = Top(t).op
        BY <2>1 DEF FrameT
  <2>3. stack' = WithTop(t, b) /\ errors' = errors
        BY <1>9 DEF zt_finish
  <2> HIDE DEF b
  <2>4. QED BY <1>2, <1>3, <2>1, <2>2, <2>3
<1>10. ASSUME NEW t \in CallThreads, DoneReturns(t) PROVE DepthInv'
  <2>1. stack[t] # <<>> /\ Top(t) \in FrameT
        BY <1>10, InnerFrame DEF DoneReturns, Running, CallInv, Top
  <2> DEFINE b == [Top(t) EXCEPT !.at = "leave"]
  <2>2. b \in FrameT /\ b.op = Top(t).op
        BY <2>1 DEF FrameT
  <2>3. stack' = WithTop(t, b) /\ errors' = errors
        BY <1>10 DEF DoneReturns
  <2> HIDE DEF b
  <2>4. QED BY <1>2, <1>3, <2>1, <2>2, <2>3
<1>11. CASE UNCHANGED cvars
       BY <1>11 DEF cvars, DepthInv
<1>12. QED BY <1>5, <1>6, <1>7, <1>8, <1>9, <1>10, <1>11 DEF CallNext

\* However many futures are ready at once, callbacks nest no deeper than the errors
\* account for: three frames, and three more for every error.
THEOREM CallsNestBounded == CallSpec => []StackBounded
<1>1. CallInv /\ DepthInv => StackBounded
  <2> SUFFICES ASSUME CallInv, DepthInv, NEW t \in CallThreads
               PROVE  Len(stack[t]) =< 3 * (errors + 1)
      BY DEF StackBounded
  <2>1. errors \in Nat
        BY DEF DepthInv
  <2>2. CASE stack[t] = <<>>
        BY <2>1, <2>2
  <2>3. CASE stack[t] # <<>>
    <3>1. Len(stack[t]) \in 1 .. Len(stack[t])
          BY <2>3, InnerFrame DEF CallInv
    <3>2. Len(stack[t]) =< 3 * errors + Level(Top(t).op)
          BY <3>1 DEF DepthInv, Depths, Top
    <3>3. Level(Top(t).op) \in 1 .. 3
          BY DEF Level
    <3>4. QED BY <2>1, <3>1, <3>2, <3>3
  <2>4. QED BY <2>2, <2>3
<1>2. QED BY <1>1, CallInitially, CallStep, DepthInitially, DepthStep, PTL DEF CallSpec
=============================================================================
