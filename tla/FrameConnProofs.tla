--------------------------- MODULE FrameConnProofs ---------------------------
(***************************************************************************)
(* What holds of a tunnel's connection for any number of goroutines and     *)
(* frames and any size of the buffers.  The invariant says what order of    *)
(* parts can be on the wire, where the writer is in it and where the reader *)
(* is; the rest follows from it.                                            *)
(***************************************************************************)
EXTENDS FrameConn, SequenceTheorems, TLAPS

Last(n, S) == [frame |-> n, part |-> Parts(S[n])]

\* The parts on a wire: each follows the one that it has to.
PartOK(S, W, k) ==
    /\ W[k].frame \in 1 .. Len(S)
    /\ W[k].part \in 1 .. Parts(S[W[k].frame])
    /\ W[k].part = 2 => k > 1 /\ W[k - 1] = [frame |-> W[k].frame, part |-> 1]
    /\ W[k].part = 1 /\ k = 1 => W[k].frame = 1
    /\ W[k].part = 1 /\ k > 1 => W[k - 1] = Last(W[k].frame - 1, S)
WireOK(S, W) == \A k \in 1 .. Len(W) : PartOK(S, W, k)

\* The wire ends with the last part of frame n.
EndsWith(S, W, n) == IF n = 0 THEN W = <<>> ELSE W # <<>> /\ W[Len(W)] = Last(n, S)

\* While nobody writes and nothing has failed, all frames are complete; who
\* writes is at its frame's first part or at its second.
WriterOK(S, W, j, g, b) ==
    /\ g = None /\ ~b => EndsWith(S, W, Len(S))
    /\ g # None => /\ ~b
                   /\ Len(S) > 0
                   /\ j[g] = S[Len(S)]
                   /\ EndsWith(S, W, Len(S) - 1)
                      \/ (W # <<>> /\ W[Len(W)] = [frame |-> Len(S), part |-> 1]
                                   /\ Parts(S[Len(S)]) = 2)

\* The reader has just read the last part of the frame it returned last, or
\* the header of the one after it.
ReaderOK(S, W, t, h, G) ==
    /\ t <= Len(W)
    /\ Len(G) <= Len(S)
    /\ h = 0 => IF t = 0 THEN Len(G) = 0 ELSE Len(G) > 0 /\ W[t] = Last(Len(G), S)
    /\ h # 0 => /\ t > 0
                /\ W[t] = [frame |-> h, part |-> 1]
                /\ h \in 1 .. Len(S)
                /\ Parts(S[h]) = 2
                /\ Len(G) = h - 1
    /\ \A n \in 1 .. Len(G) : G[n] = n

DirectionOK(e) ==
    /\ WireOK(started[e], wire[e])
    /\ WriterOK(started[e], wire[e], job[e], wmu[e], broken[e])
    /\ ReaderOK(started[e], wire[e], taken[e], header[e], got[e])

IInv == TypeOK /\ \A e \in Ends : DirectionOK(e)

-----------------------------------------------------------------------------
(* The operators over one direction.                                        *)

LEMMA PartsRange == \A k : Parts(k) \in 1 .. 2 /\ (Parts(k) = 1 \/ Parts(k) = 2)
BY DEF Parts

LEMMA NamesDistinct == None \notin Goroutines /\ "loop" \in Goroutines /\ "pinger" \in Goroutines
BY NamesAssumption, NoneAssumption DEF Goroutines

\* A frame that gets the lock leaves the order of parts and the reader alone.
LEMMA LockKeeps ==
    ASSUME NEW S \in Seq(Kinds), NEW W \in Seq(Part), NEW x \in Kinds,
           NEW t \in Nat, NEW h \in Nat, NEW G \in Seq(Nat),
           WireOK(S, W), ReaderOK(S, W, t, h, G), EndsWith(S, W, Len(S))
    PROVE  /\ WireOK(Append(S, x), W)
           /\ ReaderOK(Append(S, x), W, t, h, G)
           /\ EndsWith(Append(S, x), W, Len(S))
<1> DEFINE T == Append(S, x)
<1>1. /\ T \in Seq(Kinds)
      /\ Len(T) = Len(S) + 1
      /\ Len(S) \in Nat
      /\ \A n \in 1 .. Len(S) : T[n] = S[n]
  OBVIOUS
<1> HIDE DEF T
<1>2. WireOK(T, W)
  <2> SUFFICES ASSUME NEW k \in 1 .. Len(W) PROVE PartOK(T, W, k)
    BY DEF WireOK
  <2>1. PartOK(S, W, k)
    BY DEF WireOK
  <2>2. W[k].frame \in 1 .. Len(S) /\ W[k].frame \in Nat
    BY <2>1 DEF PartOK
  <2>3. T[W[k].frame] = S[W[k].frame]
    BY <1>1, <2>2
  <2>4. CASE W[k].part = 1 /\ k > 1
    <3>1. k - 1 \in 1 .. Len(W)
      BY <2>4
    <3>2. W[k - 1].frame \in 1 .. Len(S)
      BY <3>1 DEF WireOK, PartOK
    <3>3. W[k - 1].frame = W[k].frame - 1
      BY <2>1, <2>4 DEF PartOK, Last
    <3>4. T[W[k].frame - 1] = S[W[k].frame - 1]
      BY <1>1, <3>2, <3>3
    <3> QED BY <1>1, <2>1, <2>2, <2>3, <2>4, <3>4 DEF PartOK, Last
  <2>5. CASE ~(W[k].part = 1 /\ k > 1)
    BY <1>1, <2>1, <2>2, <2>3, <2>5 DEF PartOK
  <2> QED BY <2>4, <2>5
<1>3. ReaderOK(T, W, t, h, G)
  <2>1. Len(G) \in Nat /\ Len(G) <= Len(S) /\ Len(G) <= Len(T)
    BY <1>1 DEF ReaderOK
  <2>2. Len(G) > 0 => T[Len(G)] = S[Len(G)]
    BY <1>1, <2>1
  <2>3. h \in 1 .. Len(S) => h \in 1 .. Len(T) /\ T[h] = S[h]
    BY <1>1
  <2> QED BY <2>1, <2>2, <2>3 DEF ReaderOK, Last
<1>4. EndsWith(T, W, Len(S))
  BY <1>1 DEF EndsWith, Last
<1> QED BY <1>2, <1>3, <1>4 DEF T

\* The part that is due goes onto the wire.
LEMMA PutKeeps ==
    ASSUME NEW S \in Seq(Kinds), NEW W \in Seq(Part),
           NEW t \in Nat, NEW h \in Nat, NEW G \in Seq(Nat),
           WireOK(S, W), ReaderOK(S, W, t, h, G), Len(S) > 0,
           EndsWith(S, W, Len(S) - 1)
           \/ (W # <<>> /\ W[Len(W)] = [frame |-> Len(S), part |-> 1]
                        /\ Parts(S[Len(S)]) = 2)
    PROVE  LET due == Due(W, Len(S))
               V   == Append(W, due)
           IN  /\ due \in Part
               /\ WireOK(S, V)
               /\ ReaderOK(S, V, t, h, G)
               /\ due.part = Parts(S[Len(S)]) => EndsWith(S, V, Len(S))
               /\ due.part # Parts(S[Len(S)]) =>
                     V # <<>> /\ V[Len(V)] = [frame |-> Len(S), part |-> 1]
                              /\ Parts(S[Len(S)]) = 2
<1> DEFINE due == Due(W, Len(S))
           V   == Append(W, due)
<1>0. Len(S) \in Nat \ {0} /\ Len(W) \in Nat
  OBVIOUS
<1>1. due = [frame |-> Len(S), part |-> due.part] /\ due.part \in 1 .. 2 /\ due \in Part
  BY <1>0 DEF Due, Part
<1>2. /\ due.part = 1 => EndsWith(S, W, Len(S) - 1)
      /\ due.part = 2 => /\ W # <<>> /\ W[Len(W)] = [frame |-> Len(S), part |-> 1]
                         /\ Parts(S[Len(S)]) = 2
  <2>1. CASE EndsWith(S, W, Len(S) - 1)
    <3>1. W # <<>> => W[Len(W)].frame = Len(S) - 1
      BY <2>1, <1>0 DEF EndsWith, Last
    <3>2. due.part = 1
      BY <3>1, <1>0 DEF Due
    <3> QED BY <2>1, <3>2
  <2>2. CASE W # <<>> /\ W[Len(W)] = [frame |-> Len(S), part |-> 1] /\ Parts(S[Len(S)]) = 2
    BY <2>2 DEF Due
  <2> QED BY <2>1, <2>2
<1>3. /\ V \in Seq(Part)
      /\ Len(V) = Len(W) + 1
      /\ V[Len(W) + 1] = due
      /\ \A k \in 1 .. Len(W) : V[k] = W[k]
  BY <1>1
<1> HIDE DEF due, V
<1>4. PartOK(S, V, Len(W) + 1)
  <2>1. due.part \in 1 .. Parts(S[Len(S)])
    BY <1>1, <1>2, PartsRange
  <2>2. CASE due.part = 2
    <3>1. Len(W) > 0
      BY <1>2, <2>2, <1>0
    <3>2. V[Len(W)] = W[Len(W)]
      <4>1. Len(W) \in 1 .. Len(W)
        BY <3>1, <1>0
      <4> QED BY <1>3, <4>1
    <3>3. V[Len(W)] = [frame |-> Len(S), part |-> 1]
      BY <1>2, <2>2, <3>2
    <3> QED BY <1>0, <1>1, <1>3, <2>1, <2>2, <3>1, <3>3 DEF PartOK
  <2>3. CASE due.part = 1
    <3>1. CASE Len(S) = 1
      <4>1. W = <<>>
        BY <1>2, <2>3, <3>1 DEF EndsWith
      <4> QED BY <4>1, <1>0, <1>1, <1>3, <2>1, <2>3, <3>1 DEF PartOK
    <3>2. CASE Len(S) # 1
      <4>1. W # <<>> /\ W[Len(W)] = Last(Len(S) - 1, S)
        BY <1>2, <2>3, <3>2, <1>0 DEF EndsWith
      <4>2. Len(W) > 0 /\ V[Len(W)] = Last(Len(S) - 1, S)
        BY <4>1, <1>3, <1>0
      <4> QED BY <4>2, <1>0, <1>1, <1>3, <2>1, <2>3, <3>2 DEF PartOK
    <3> QED BY <3>1, <3>2
  <2> QED BY <1>1, <2>2, <2>3
<1>5. WireOK(S, V)
  <2> SUFFICES ASSUME NEW k \in 1 .. Len(V) PROVE PartOK(S, V, k)
    BY DEF WireOK
  <2>1. CASE k = Len(W) + 1
    BY <2>1, <1>4
  <2>2. CASE k \in 1 .. Len(W)
    <3>1. PartOK(S, W, k)
      BY <2>2 DEF WireOK
    <3>2. V[k] = W[k]
      BY <2>2, <1>3
    <3>3. k > 1 => k - 1 \in 1 .. Len(W)
      BY <2>2, <1>0
    <3>4. k > 1 => V[k - 1] = W[k - 1]
      BY <3>3, <1>3
    <3> QED BY <3>1, <3>2, <3>4 DEF PartOK
  <2> QED BY <2>1, <2>2, <1>3, <1>0
<1>6. ReaderOK(S, V, t, h, G)
  <2>1. t <= Len(W) /\ (t > 0 => V[t] = W[t])
    BY <1>3, <1>0 DEF ReaderOK
  <2>2. t <= Len(V)
    BY <2>1, <1>3, <1>0
  <2> QED BY <2>1, <2>2 DEF ReaderOK
<1>7. due.part = Parts(S[Len(S)]) => EndsWith(S, V, Len(S))
  BY <1>0, <1>1, <1>3 DEF EndsWith, Last
<1>8. due.part # Parts(S[Len(S)]) =>
         V # <<>> /\ V[Len(V)] = [frame |-> Len(S), part |-> 1] /\ Parts(S[Len(S)]) = 2
  <2> SUFFICES ASSUME due.part # Parts(S[Len(S)])
               PROVE  V # <<>> /\ V[Len(V)] = [frame |-> Len(S), part |-> 1]
                      /\ Parts(S[Len(S)]) = 2
    OBVIOUS
  <2>1. due.part = 1 /\ Parts(S[Len(S)]) = 2
    BY <1>1, <1>2, PartsRange
  <2> QED BY <2>1, <1>0, <1>1, <1>3
<1> QED BY <1>1, <1>5, <1>6, <1>7, <1>8 DEF due, V

\* The next part on the wire is the one the reader takes it for.
LEMMA NextIsDue ==
    ASSUME NEW S \in Seq(Kinds), NEW W \in Seq(Part),
           NEW t \in Nat, NEW h \in Nat, NEW G \in Seq(Nat),
           WireOK(S, W), ReaderOK(S, W, t, h, G), t < Len(W)
    PROVE  LET x == W[t + 1] IN
           /\ x.frame = Len(G) + 1
           /\ x.frame \in 1 .. Len(S)
           /\ h = 0 => x.part = 1
           /\ h # 0 => x.part = 2 /\ x.frame = h
           /\ h # 0 => Parts(S[x.frame]) = 2
<1> DEFINE x == W[t + 1]
<1>0. Len(S) \in Nat /\ Len(W) \in Nat /\ Len(G) \in Nat /\ t + 1 \in 1 .. Len(W)
  OBVIOUS
<1>1. PartOK(S, W, t + 1)
  BY <1>0 DEF WireOK
<1>2. x.frame \in 1 .. Len(S) /\ x.part \in 1 .. 2 /\ (x.part = 2 => Parts(S[x.frame]) = 2)
  BY <1>1, PartsRange DEF PartOK
<1>3. CASE h = 0
  <2>1. CASE t = 0
    BY <2>1, <1>0, <1>1, <1>2, <1>3 DEF PartOK, ReaderOK
  <2>2. CASE t # 0
    <3>1. W[t] = [frame |-> Len(G), part |-> Parts(S[Len(G)])] /\ Len(G) > 0
      BY <2>2, <1>3 DEF ReaderOK, Last
    <3>2. x.part = 2 => W[t] = [frame |-> x.frame, part |-> 1]
      BY <1>0, <1>1, <2>2 DEF PartOK
    <3>3. x.part # 2
      <4> SUFFICES ASSUME x.part = 2 PROVE FALSE
        OBVIOUS
      <4>1. Len(G) = x.frame /\ Parts(S[Len(G)]) = 1
        BY <3>1, <3>2
      <4> QED BY <4>1, <1>2
    <3>4. x.part = 1
      BY <1>2, <3>3
    <3>5. W[t] = [frame |-> x.frame - 1, part |-> Parts(S[x.frame - 1])]
      BY <1>0, <1>1, <2>2, <3>4 DEF PartOK, Last
    <3>6. Len(G) = x.frame - 1
      BY <3>1, <3>5
    <3> QED BY <1>0, <1>2, <1>3, <3>4, <3>6
  <2> QED BY <2>1, <2>2
<1>4. CASE h # 0
  <2>1. /\ t > 0 /\ W[t] = [frame |-> h, part |-> 1]
        /\ Parts(S[h]) = 2 /\ Len(G) = h - 1
    BY <1>4 DEF ReaderOK
  <2>2. x.part # 1
    <3> SUFFICES ASSUME x.part = 1 PROVE FALSE
      OBVIOUS
    <3>1. W[t] = [frame |-> x.frame - 1, part |-> Parts(S[x.frame - 1])]
      BY <1>0, <1>1, <2>1 DEF PartOK, Last
    <3>2. x.frame - 1 = h /\ Parts(S[x.frame - 1]) = 1
      BY <2>1, <3>1
    <3> QED BY <2>1, <3>2
  <2>3. x.part = 2
    BY <1>2, <2>2
  <2>4. W[t] = [frame |-> x.frame, part |-> 1]
    BY <1>0, <1>1, <2>1, <2>3 DEF PartOK
  <2>5. x.frame = h
    BY <2>1, <2>4
  <2> QED BY <1>0, <1>2, <1>4, <2>1, <2>3, <2>5
<1> QED BY <1>3, <1>4

\* The reader takes it.
LEMMA ReadKeeps ==
    ASSUME NEW S \in Seq(Kinds), NEW W \in Seq(Part),
           NEW t \in Nat, NEW h \in Nat, NEW G \in Seq(Nat),
           WireOK(S, W), ReaderOK(S, W, t, h, G), t < Len(W)
    PROVE  LET x == W[t + 1] IN
           /\ x.part # Parts(S[x.frame]) => ReaderOK(S, W, t + 1, x.frame, G)
           /\ x.part = Parts(S[x.frame]) => ReaderOK(S, W, t + 1, 0, Append(G, x.frame))
<1> DEFINE x == W[t + 1]
<1>0. /\ Len(S) \in Nat /\ Len(W) \in Nat /\ Len(G) \in Nat
      /\ t + 1 \in Nat /\ t + 1 > 0 /\ t + 1 <= Len(W)
  OBVIOUS
<1>1. /\ x.frame = Len(G) + 1
      /\ x.frame \in 1 .. Len(S)
      /\ h = 0 => x.part = 1
      /\ h # 0 => x.part = 2 /\ Parts(S[x.frame]) = 2
  BY NextIsDue
<1>2. x = [frame |-> x.frame, part |-> x.part]
  <2>1. x \in Part
    BY <1>0
  <2> QED BY <2>1 DEF Part
<1>3. \A n \in 1 .. Len(G) : G[n] = n
  BY DEF ReaderOK
<1>4. ASSUME x.part # Parts(S[x.frame]) PROVE ReaderOK(S, W, t + 1, x.frame, G)
  <2>1. x.part = 1 /\ Parts(S[x.frame]) = 2
    BY <1>1, <1>4, PartsRange
  <2>2. x = [frame |-> x.frame, part |-> 1]
    BY <1>2, <2>1
  <2> QED BY <1>0, <1>1, <1>3, <2>1, <2>2 DEF ReaderOK
<1>5. ASSUME x.part = Parts(S[x.frame]) PROVE ReaderOK(S, W, t + 1, 0, Append(G, x.frame))
  <2> DEFINE H == Append(G, x.frame)
  <2>1. /\ Len(H) = Len(G) + 1
        /\ H[Len(G) + 1] = x.frame
        /\ \A n \in 1 .. Len(G) : H[n] = G[n]
    BY <1>0, <1>1
  <2> HIDE DEF H
  <2>2. \A n \in 1 .. Len(H) : H[n] = n
    <3> SUFFICES ASSUME NEW n \in 1 .. Len(H) PROVE H[n] = n
      OBVIOUS
    <3>1. n \in 1 .. Len(G) \/ n = Len(G) + 1
      BY <1>0, <2>1
    <3> QED BY <1>1, <1>3, <2>1, <3>1
  <2>3. W[t + 1] = Last(Len(H), S)
    BY <1>1, <1>2, <1>5, <2>1 DEF Last
  <2>4. ReaderOK(S, W, t + 1, 0, H)
    BY <1>0, <1>1, <2>1, <2>2, <2>3 DEF ReaderOK
  <2> QED BY <2>4 DEF H
<1> QED BY <1>4, <1>5

-----------------------------------------------------------------------------
(* The invariant.                                                           *)

LEMMA InitOK == Init => IInv
<1> SUFFICES ASSUME Init PROVE IInv
  OBVIOUS
<1>1. TypeOK
  BY MaxCallsAssumption DEF Init, TypeOK, Kinds, NoJob, Ends
<1>2. \A e \in Ends : DirectionOK(e)
  BY DEF Init, DirectionOK, WireOK, WriterOK, ReaderOK, EndsWith
<1> QED BY <1>1, <1>2 DEF IInv

\* A step that changes no more of direction e than the goroutines that are
\* not writing leaves it in order.
LEMMA IdleSteps ==
    ASSUME IInv, NEW e \in Ends,
           UNCHANGED <<wmu[e], broken[e], started[e], wire[e], taken[e], header[e], got[e]>>,
           wmu[e] # None => job'[e][wmu[e]] = job[e][wmu[e]]
    PROVE  DirectionOK(e)'
BY DEF IInv, DirectionOK, WireOK, WriterOK, ReaderOK

\* Who holds the lock has a frame to write.
LEMMA HolderBusy ==
    ASSUME IInv, NEW e \in Ends, wmu[e] # None
    PROVE  /\ job[e][wmu[e]] \in Kinds
           /\ job[e][wmu[e]] = started[e][Len(started[e])]
           /\ Len(started[e]) > 0
<1>1. Len(started[e]) > 0 /\ job[e][wmu[e]] = started[e][Len(started[e])]
  BY DEF IInv, DirectionOK, WriterOK
<1>2. started[e] \in Seq(Kinds)
  BY DEF IInv, TypeOK
<1>3. started[e][Len(started[e])] \in Kinds
  BY <1>1, <1>2
<1> QED BY <1>1, <1>3

LEMMA CallOK ==
    ASSUME IInv, NEW e \in Ends, NEW g \in Callers(e), Call(e, g)
    PROVE  IInv'
<1> USE DEF IInv
<1>1. g \in Goroutines
  BY DEF Callers, Goroutines, Ends
<1>2. TypeOK'
  BY <1>1, MaxCallsAssumption DEF Call, TypeOK, Kinds, reading
<1>3. ASSUME NEW f \in Ends PROVE DirectionOK(f)'
  <2>1. wmu[f] # None => job'[f][wmu[f]] = job[f][wmu[f]]
    BY <1>1, HolderBusy DEF Call, TypeOK, Kinds
  <2> QED BY <2>1, IdleSteps DEF Call, reading
<1> QED BY <1>2, <1>3

LEMMA TickOK == ASSUME IInv, NEW e \in Ends, Tick(e) PROVE IInv'
<1> USE DEF IInv
<1>1. TypeOK'
  BY NamesDistinct, MaxCallsAssumption DEF Tick, TypeOK, Kinds, reading
<1>2. ASSUME NEW f \in Ends PROVE DirectionOK(f)'
  <2>1. wmu[f] # None => job'[f][wmu[f]] = job[f][wmu[f]]
    BY NamesDistinct, HolderBusy DEF Tick, TypeOK, Kinds
  <2> QED BY <2>1, IdleSteps DEF Tick, reading
<1> QED BY <1>1, <1>2

LEMMA LockOK ==
    ASSUME IInv, NEW e \in Ends, NEW g \in Goroutines, Lock(e, g) PROVE IInv'
<1> USE DEF IInv
<1> DEFINE S == started[e]
           x == job[e][g]
<1>0. TypeOK
  OBVIOUS
<1>1. x \in Kinds /\ S \in Seq(Kinds) /\ Append(S, x) \in Seq(Kinds)
  BY <1>0 DEF Lock, TypeOK
<1>2. started' = [started EXCEPT ![e] = Append(S, x)]
  BY DEF Lock
<1>3. TypeOK'
  BY <1>0, <1>1, <1>2 DEF Lock, TypeOK, reading
<1>4. DirectionOK(e)'
  <2>1. /\ S \in Seq(Kinds) /\ wire[e] \in Seq(Part)
        /\ taken[e] \in Nat /\ header[e] \in Nat /\ got[e] \in Seq(Nat)
    BY <1>0 DEF TypeOK
  <2>2. /\ WireOK(S, wire[e])
        /\ ReaderOK(S, wire[e], taken[e], header[e], got[e])
        /\ EndsWith(S, wire[e], Len(S))
    BY DEF DirectionOK, WriterOK, Lock
  <2>3. /\ WireOK(Append(S, x), wire[e])
        /\ ReaderOK(Append(S, x), wire[e], taken[e], header[e], got[e])
        /\ EndsWith(Append(S, x), wire[e], Len(S))
    BY <1>1, <2>1, <2>2, LockKeeps
  <2>4. started'[e] = Append(S, x) /\ wmu'[e] = g /\ broken'[e] = FALSE
    BY <1>0 DEF Lock, TypeOK
  <2>5. UNCHANGED <<wire, taken, header, got, job>>
    BY DEF Lock, reading
  <2>6. /\ Len(Append(S, x)) > 0 /\ Len(Append(S, x)) - 1 = Len(S)
        /\ Append(S, x)[Len(Append(S, x))] = x
    BY <1>1
  <2>7. WriterOK(Append(S, x), wire[e], job[e], g, FALSE)
    BY <2>3, <2>6, NamesDistinct DEF WriterOK
  <2> QED BY <2>3, <2>4, <2>5, <2>7 DEF DirectionOK
<1>5. ASSUME NEW f \in Ends, f # e PROVE DirectionOK(f)'
  BY <1>0, <1>5, IdleSteps DEF Lock, TypeOK, reading
<1> QED BY <1>3, <1>4, <1>5

LEMMA RefusedOK ==
    ASSUME IInv, NEW e \in Ends, NEW g \in Goroutines, Refused(e, g) PROVE IInv'
<1> USE DEF IInv
<1>1. TypeOK'
  BY DEF Refused, Returns, TypeOK, NoJob, reading
<1>2. ASSUME NEW f \in Ends PROVE DirectionOK(f)'
  <2>1. wmu[f] # None => job'[f][wmu[f]] = job[f][wmu[f]]
    BY DEF Refused, Returns, TypeOK
  <2> QED BY <2>1, IdleSteps DEF Refused, reading
<1> QED BY <1>1, <1>2

LEMMA PutOK ==
    ASSUME IInv, NEW e \in Ends, NEW g \in Goroutines, Put(e, g) PROVE IInv'
<1> USE DEF IInv
<1> DEFINE S   == started[e]
           W   == wire[e]
           due == Due(W, Len(S))
           V   == Append(W, due)
<1>0. /\ TypeOK /\ S \in Seq(Kinds) /\ W \in Seq(Part)
      /\ taken[e] \in Nat /\ header[e] \in Nat /\ got[e] \in Seq(Nat)
  BY DEF TypeOK
<1>1. /\ wmu[e] = g /\ g # None /\ ~broken[e]
      /\ job[e][g] = S[Len(S)] /\ Len(S) > 0
      /\ EndsWith(S, W, Len(S) - 1)
         \/ (W # <<>> /\ W[Len(W)] = [frame |-> Len(S), part |-> 1]
                      /\ Parts(S[Len(S)]) = 2)
  BY NamesDistinct DEF Put, DirectionOK, WriterOK
<1>2. /\ due \in Part
      /\ WireOK(S, V)
      /\ ReaderOK(S, V, taken[e], header[e], got[e])
      /\ due.part = Parts(S[Len(S)]) => EndsWith(S, V, Len(S))
      /\ due.part # Parts(S[Len(S)]) =>
            V # <<>> /\ V[Len(V)] = [frame |-> Len(S), part |-> 1]
                     /\ Parts(S[Len(S)]) = 2
  <2>1. WireOK(S, W) /\ ReaderOK(S, W, taken[e], header[e], got[e])
    BY DEF DirectionOK
  <2> QED BY <1>0, <1>1, <2>1, PutKeeps
<1>3. V \in Seq(Part) /\ Len(V) = Len(W) + 1
  BY <1>0, <1>2
<1>4. /\ wire' = [wire EXCEPT ![e] = V]
      /\ IF due.part = Parts(job[e][g])
         THEN /\ wmu' = [wmu EXCEPT ![e] = None]
              /\ job' = [job EXCEPT ![e][g] = "none"]
         ELSE UNCHANGED <<wmu, job>>
      /\ UNCHANGED <<calls, broken, started, taken, header, got, closed>>
  BY DEF Put, reading
<1> HIDE DEF due, V
<1>5. TypeOK'
  <2>1. wire' \in [Ends -> Seq(Part)]
    BY <1>0, <1>3, <1>4 DEF TypeOK
  <2>2. \A f \in Ends : taken'[f] <= Len(wire'[f])
    BY <1>0, <1>3, <1>4 DEF TypeOK
  <2>3. wmu' \in [Ends -> Goroutines \cup {None}] /\ job' \in [Ends -> [Goroutines -> Kinds \cup NoJob]]
    <3>1. CASE due.part = Parts(job[e][g])
      <4>1. wmu' \in [Ends -> Goroutines \cup {None}]
        BY <1>0, <1>4, <3>1 DEF TypeOK
      <4>2. job' \in [Ends -> [Goroutines -> Kinds \cup NoJob]]
        <5>1. job' = [job EXCEPT ![e][g] = "none"]
          BY <1>4, <3>1
        <5>2. job \in [Ends -> [Goroutines -> Kinds \cup NoJob]]
          BY <1>0 DEF TypeOK
        <5> QED BY <5>1, <5>2 DEF NoJob
      <4> QED BY <4>1, <4>2
    <3>2. CASE due.part # Parts(job[e][g])
      BY <1>0, <1>4, <3>2 DEF TypeOK
    <3> QED BY <3>1, <3>2
  <2> QED BY <1>0, <1>4, <2>1, <2>2, <2>3 DEF TypeOK
<1>6. DirectionOK(e)'
  <2>1. wire'[e] = V /\ broken'[e] = FALSE
    BY <1>0, <1>1, <1>4 DEF TypeOK
  <2>2. CASE due.part = Parts(S[Len(S)])
    <3>1. wmu'[e] = None
      BY <1>0, <1>1, <1>4, <2>2 DEF TypeOK
    <3>2. WriterOK(S, V, job'[e], None, FALSE)
      BY <1>2, <2>2 DEF WriterOK
    <3> QED BY <1>2, <1>4, <2>1, <3>1, <3>2 DEF DirectionOK
  <2>3. CASE due.part # Parts(S[Len(S)])
    <3>1. WriterOK(S, V, job[e], g, FALSE)
      BY <1>1, <1>2, <2>3 DEF WriterOK
    <3>2. wmu'[e] = g /\ job' = job
      BY <1>1, <1>4, <2>3
    <3> QED BY <1>2, <1>4, <2>1, <3>1, <3>2 DEF DirectionOK
  <2> QED BY <2>2, <2>3
<1>7. ASSUME NEW f \in Ends, f # e PROVE DirectionOK(f)'
  <2>1. UNCHANGED <<wire[f], wmu[f], job[f]>>
    BY <1>0, <1>4, <1>7 DEF TypeOK
  <2> QED BY <1>4, <2>1, IdleSteps
<1> QED BY <1>5, <1>6, <1>7

LEMMA FailOK ==
    ASSUME IInv, NEW e \in Ends, NEW g \in Goroutines, Fail(e, g) PROVE IInv'
<1> USE DEF IInv
<1>1. TypeOK'
  BY DEF Fail, Returns, TypeOK, NoJob, reading
<1>2. DirectionOK(e)'
  <2>1. wmu'[e] = None /\ broken'[e] = TRUE
    BY DEF Fail, TypeOK
  <2>2. UNCHANGED <<started, wire, taken, header, got>>
    BY DEF Fail, reading
  <2>3. WriterOK(started[e], wire[e], job'[e], None, TRUE)
    BY DEF WriterOK
  <2> QED BY <2>1, <2>2, <2>3 DEF DirectionOK
<1>3. ASSUME NEW f \in Ends, f # e PROVE DirectionOK(f)'
  BY <1>3, IdleSteps DEF Fail, Returns, TypeOK, reading
<1> QED BY <1>1, <1>2, <1>3

LEMMA Peers == \A e \in Ends : Peer(e) \in Ends /\ Peer(e) # e
BY DEF Ends, Peer

\* A goroutine that is not in WriteFrame does not hold the lock.
LEMMA IdleNotHolder ==
    ASSUME IInv, NEW e \in Ends, NEW g \in Goroutines, job[e][g] \in NoJob
    PROVE  wmu[e] # g
BY HolderBusy, NamesDistinct DEF Kinds, NoJob

\* What Read does, in the terms of the lemma about the reader.
LEMMA ReadSteps ==
    ASSUME IInv, NEW e \in Ends, Read(e)
    PROVE  LET x == wire[e][taken[e] + 1] IN
           /\ taken[e] < Len(wire[e])
           /\ taken' = [taken EXCEPT ![e] = @ + 1]
           /\ x.part # Parts(started[e][x.frame]) =>
                 header' = [header EXCEPT ![e] = x.frame] /\ UNCHANGED <<got, job>>
           /\ x.part = Parts(started[e][x.frame]) =>
                 /\ header' = [header EXCEPT ![e] = 0]
                 /\ got' = [got EXCEPT ![e] = Append(@, x.frame)]
                 /\ job' = IF started[e][x.frame] = "ping"
                           THEN [job EXCEPT ![Peer(e)]["loop"] = "pong"] ELSE job
<1> DEFINE x == wire[e][taken[e] + 1]
           due == x = IF header[e] = 0 THEN [x EXCEPT !.part = 1]
                                     ELSE [frame |-> header[e], part |-> 2]
<1>0. /\ TypeOK /\ started[e] \in Seq(Kinds) /\ wire[e] \in Seq(Part)
      /\ taken[e] \in Nat /\ header[e] \in Nat /\ got[e] \in Seq(Nat)
      /\ WireOK(started[e], wire[e])
      /\ ReaderOK(started[e], wire[e], taken[e], header[e], got[e])
  BY DEF IInv, TypeOK, DirectionOK
<1>1. taken[e] < Len(wire[e]) /\ taken' = [taken EXCEPT ![e] = @ + 1]
  BY DEF Read
<1>2. /\ header[e] = 0 => x.part = 1
      /\ header[e] # 0 => x.part = 2 /\ x.frame = header[e]
  <2> DEFINE S == started[e]
             W == wire[e]
             k == taken[e]
             h == header[e]
             G == got[e]
  <2> HIDE DEF S, W, k, h, G, due
  <2>1. /\ S \in Seq(Kinds) /\ W \in Seq(Part) /\ k \in Nat /\ h \in Nat /\ G \in Seq(Nat)
        /\ WireOK(S, W) /\ ReaderOK(S, W, k, h, G) /\ k < Len(W)
    BY <1>0, <1>1 DEF S, W, k, h, G
  <2>2. /\ h = 0 => W[k + 1].part = 1
        /\ h # 0 => W[k + 1].part = 2 /\ W[k + 1].frame = h
    BY <2>1, NextIsDue
  <2> QED BY <2>2 DEF S, W, k, h, G
<1>3. x \in Part
  BY <1>0, <1>1
<1>4. due
  BY <1>2, <1>3 DEF Part
<1> QED BY <1>1, <1>4 DEF Read

LEMMA ReadOK == ASSUME IInv, NEW e \in Ends, Read(e) PROVE IInv'
<1> DEFINE x == wire[e][taken[e] + 1]
           r == Peer(e)
<1>0. /\ TypeOK /\ started[e] \in Seq(Kinds) /\ wire[e] \in Seq(Part)
      /\ taken[e] \in Nat /\ header[e] \in Nat /\ got[e] \in Seq(Nat)
      /\ WireOK(started[e], wire[e])
      /\ ReaderOK(started[e], wire[e], taken[e], header[e], got[e])
  BY DEF IInv, TypeOK, DirectionOK
<1>1. /\ taken[e] < Len(wire[e])
      /\ taken' = [taken EXCEPT ![e] = @ + 1]
      /\ x.part # Parts(started[e][x.frame]) =>
            header' = [header EXCEPT ![e] = x.frame] /\ UNCHANGED <<got, job>>
      /\ x.part = Parts(started[e][x.frame]) =>
            /\ header' = [header EXCEPT ![e] = 0]
            /\ got' = [got EXCEPT ![e] = Append(@, x.frame)]
            /\ job' = IF started[e][x.frame] = "ping"
                      THEN [job EXCEPT ![r]["loop"] = "pong"] ELSE job
  BY ReadSteps
<1>2. /\ job[r]["loop"] = "none"
      /\ UNCHANGED <<calls, wmu, broken, started, wire, closed>>
  BY DEF Read
<1>3. r \in Ends /\ r # e
  BY Peers
<1>4. x \in Part /\ x.frame \in Nat
  <2>1. x \in Part
    BY <1>0, <1>1
  <2> QED BY <2>1 DEF Part
<1>5. /\ x.part # Parts(started[e][x.frame]) =>
            ReaderOK(started[e], wire[e], taken[e] + 1, x.frame, got[e])
      /\ x.part = Parts(started[e][x.frame]) =>
            ReaderOK(started[e], wire[e], taken[e] + 1, 0, Append(got[e], x.frame))
  BY <1>0, <1>1, ReadKeeps
<1>6. job' \in [Ends -> [Goroutines -> Kinds \cup NoJob]] /\ job'[e] = job[e]
  <2>1. job \in [Ends -> [Goroutines -> Kinds \cup NoJob]]
    BY <1>0 DEF TypeOK
  <2>2. job' = job \/ job' = [job EXCEPT ![r]["loop"] = "pong"]
    BY <1>1
  <2>3. CASE job' = job
    BY <2>1, <2>3
  <2>4. CASE job' = [job EXCEPT ![r]["loop"] = "pong"]
    <3> HIDE DEF r
    <3>1. job' \in [Ends -> [Goroutines -> Kinds \cup NoJob]]
      BY <1>3, <2>1, <2>4, NamesDistinct DEF Kinds
    <3>2. job'[e] = job[e]
      BY <1>3, <2>1, <2>4
    <3> QED BY <3>1, <3>2
  <2> QED BY <2>2, <2>3, <2>4
<1> HIDE DEF x, r
<1>7. TypeOK'
  <2>1. taken' \in [Ends -> Nat] /\ \A f \in Ends : taken'[f] <= Len(wire'[f])
    <3>1. taken \in [Ends -> Nat] /\ \A f \in Ends : taken[f] <= Len(wire[f])
      BY <1>0 DEF TypeOK
    <3>2. /\ taken' = [taken EXCEPT ![e] = taken[e] + 1]
          /\ taken[e] < Len(wire[e]) /\ wire' = wire /\ Len(wire[e]) \in Nat
      BY <1>0, <1>1, <1>2
    <3> QED BY <3>1, <3>2
  <2>2. header' \in [Ends -> Nat] /\ got' \in [Ends -> Seq(Nat)]
    <3>1. CASE x.part # Parts(started[e][x.frame])
      BY <1>0, <1>1, <1>4, <3>1 DEF TypeOK
    <3>2. CASE x.part = Parts(started[e][x.frame])
      <4>1. Append(got[e], x.frame) \in Seq(Nat)
        BY <1>0, <1>4
      <4>2. header' = [header EXCEPT ![e] = 0] /\ got' = [got EXCEPT ![e] = Append(got[e], x.frame)]
        BY <1>1, <3>2
      <4>3. header \in [Ends -> Nat] /\ got \in [Ends -> Seq(Nat)]
        BY <1>0 DEF TypeOK
      <4> HIDE DEF x
      <4> QED BY <4>1, <4>2, <4>3
    <3> QED BY <3>1, <3>2
  <2> QED BY <1>0, <1>2, <1>6, <2>1, <2>2 DEF TypeOK
<1>8. DirectionOK(e)'
  <2>1. WireOK(started[e], wire[e])'
    BY <1>0, <1>2
  <2>2. WriterOK(started[e], wire[e], job[e], wmu[e], broken[e])'
    BY <1>2, <1>6 DEF IInv, DirectionOK
  <2>3. ReaderOK(started[e], wire[e], taken[e], header[e], got[e])'
    <3>1. CASE x.part # Parts(started[e][x.frame])
      <4>1. taken'[e] = taken[e] + 1 /\ header'[e] = x.frame /\ got'[e] = got[e]
        BY <1>0, <1>1, <3>1 DEF TypeOK
      <4> QED BY <1>2, <1>5, <3>1, <4>1
    <3>2. CASE x.part = Parts(started[e][x.frame])
      <4>1. /\ taken'[e] = taken[e] + 1 /\ header'[e] = 0
            /\ got'[e] = Append(got[e], x.frame)
        BY <1>0, <1>1, <3>2 DEF TypeOK
      <4> QED BY <1>2, <1>5, <3>2, <4>1
    <3> QED BY <3>1, <3>2
  <2> QED BY <2>1, <2>2, <2>3 DEF DirectionOK
<1>9. ASSUME NEW f \in Ends, f # e PROVE DirectionOK(f)'
  <2>1. f = r
    BY <1>9 DEF Ends, Peer, r
  <2>2. wmu[f] # "loop"
    BY <1>2, <2>1, NamesDistinct, IdleNotHolder DEF NoJob
  <2>3. job'[f] = job[f] \/ job'[f] = [job[f] EXCEPT !["loop"] = "pong"]
    BY <1>0, <1>1, <2>1 DEF TypeOK
  <2>4. wmu[f] # None => job'[f][wmu[f]] = job[f][wmu[f]]
    BY <1>0, <2>2, <2>3 DEF TypeOK
  <2>5. UNCHANGED <<taken[f], header[f], got[f]>>
    BY <1>0, <1>1, <1>9 DEF TypeOK
  <2> QED BY <1>2, <2>4, <2>5, IdleSteps
<1> QED BY <1>7, <1>8, <1>9 DEF IInv

LEMMA LoopEndsOK == ASSUME IInv, NEW r \in Ends, LoopEnds(r) PROVE IInv'
<1> USE DEF IInv
<1>1. TypeOK'
  BY NamesDistinct DEF LoopEnds, TypeOK, NoJob, reading
<1>2. ASSUME NEW f \in Ends PROVE DirectionOK(f)'
  <2>1. wmu[f] # None => job'[f][wmu[f]] = job[f][wmu[f]]
    BY NamesDistinct, IdleNotHolder DEF LoopEnds, TypeOK, NoJob
  <2> QED BY <2>1, IdleSteps DEF LoopEnds, reading
<1> QED BY <1>1, <1>2

LEMMA CloseOK == ASSUME IInv, NEW e \in Ends, Close(e) PROVE IInv'
<1> USE DEF IInv
<1>1. TypeOK'
  BY DEF Close, TypeOK, writing, reading
<1>2. ASSUME NEW f \in Ends PROVE DirectionOK(f)'
  BY IdleSteps DEF Close, writing, reading
<1> QED BY <1>1, <1>2

LEMMA NextOK == IInv /\ [Next]_vars => IInv'
<1> SUFFICES ASSUME IInv, [Next]_vars PROVE IInv'
  OBVIOUS
<1>1. CASE UNCHANGED vars
  BY <1>1 DEF IInv, TypeOK, DirectionOK, vars, writing, reading
<1>2. ASSUME NEW e \in Ends, NEW g \in Callers(e), Call(e, g) PROVE IInv'
  BY <1>2, CallOK
<1>3. ASSUME NEW e \in Ends, NEW g \in Goroutines, Write(e, g) PROVE IInv'
  BY <1>3, LockOK, RefusedOK, PutOK, FailOK DEF Write
<1>4. ASSUME NEW e \in Ends, Tick(e) \/ Read(e) \/ LoopEnds(e) \/ Close(e) PROVE IInv'
  BY <1>4, TickOK, ReadOK, LoopEndsOK, CloseOK
<1> QED BY <1>1, <1>2, <1>3, <1>4 DEF Next

LEMMA Invariant == Spec => []IInv
BY InitOK, NextOK, PTL DEF Spec

\* What the variables hold, and that no more is read than was written.
THEOREM TypeCorrect == Spec => []TypeOK
<1>1. IInv => TypeOK
  BY DEF IInv
<1> QED BY <1>1, Invariant, PTL

\* Frames are read whole, in order and as they were written, whatever write
\* fails wherever (WriteFrame, ReadFrame).
THEOREM FramesAlwaysIntact == Spec => []FramesIntact
<1>1. IInv => FramesIntact
  BY DEF IInv, DirectionOK, ReaderOK, FramesIntact
<1> QED BY <1>1, Invariant, PTL

-----------------------------------------------------------------------------
(* Who ends a write and a connection.                                       *)

\* Who holds the write lock is in WriteFrame, on a connection that no write has
\* failed on; and an end that has not closed the connection still has its
\* pinger, which finds such a failure, and its loop.
GoesOn ==
    \A e \in Ends :
        /\ wmu[e] # None => job[e][wmu[e]] \notin NoJob /\ ~broken[e]
        /\ \A g \in Goroutines : job[e][g] = "over" => closed[e]

\* Only the pinger, after a failure, and the loop ever end, and both close the
\* connection.
LEMMA OverNext ==
    ASSUME TypeOK, [Next]_vars, NEW e \in Ends, NEW g \in Goroutines,
           job[e][g] = "over" => closed[e], job'[e][g] = "over"
    PROVE  closed'[e]
<1>0. job \in [Ends -> [Goroutines -> Kinds \cup NoJob]] /\ closed \in [Ends -> BOOLEAN]
  BY DEF TypeOK
<1>1. ASSUME NEW f \in Ends, NEW h \in Goroutines, Lock(f, h) \/ Call(f, h)
      PROVE  closed'[e]
  BY <1>0, <1>1 DEF Lock, Call
<1>2. ASSUME NEW f \in Ends, NEW h \in Goroutines, Returns(f, h)
      PROVE  closed'[e]
  BY <1>0, <1>2 DEF Returns
<1>3. ASSUME NEW f \in Ends, NEW h \in Goroutines, Put(f, h)
      PROVE  closed'[e]
  <2>1. closed' = closed /\ (job' = job \/ job' = [job EXCEPT ![f][h] = "none"])
    BY <1>3 DEF Put
  <2> QED BY <1>0, <2>1
<1>4. ASSUME NEW f \in Ends, Tick(f)
      PROVE  closed'[e]
  BY <1>0, <1>4, NamesDistinct DEF Tick
<1>5. ASSUME NEW f \in Ends, Read(f)
      PROVE  closed'[e]
  <2>1. closed' = closed /\ (job' = job \/ job' = [job EXCEPT ![Peer(f)]["loop"] = "pong"])
    BY <1>5 DEF Read
  <2> QED BY <1>0, <2>1, NamesDistinct
<1>6. ASSUME NEW f \in Ends, LoopEnds(f) \/ Close(f)
      PROVE  closed'[e]
  BY <1>0, <1>6, NamesDistinct DEF LoopEnds, Close, writing
<1>7. CASE UNCHANGED vars
  BY <1>7 DEF vars, writing
<1>8. \A f \in Ends : Callers(f) \subseteq Goroutines
  BY DEF Callers, Goroutines
<1> QED BY <1>1, <1>2, <1>3, <1>4, <1>5, <1>6, <1>7, <1>8 DEF Next, Write, Refused, Fail

\* A write that waits never waits for a goroutine that has left, and a failure
\* is never left without the pinger that finds it: the parts of WritesReturn
\* and FailureEndsTunnel that do not depend on the scheduling (keepalive,
\* pinger, WriteFrame).
THEOREM AlwaysGoesOn == Spec => []GoesOn
<1> DEFINE Over == \A e \in Ends, g \in Goroutines : job[e][g] = "over" => closed[e]
<1>1. Init => Over
  BY DEF Init
<1>2. IInv /\ Over /\ [Next]_vars => Over'
  BY OverNext DEF IInv
<1>3. IInv /\ Over => GoesOn
  <2>1. IInv => \A e \in Ends : wmu[e] # None => job[e][wmu[e]] \notin NoJob
    BY HolderBusy, NamesDistinct DEF Kinds, NoJob
  <2>2. IInv => \A e \in Ends : wmu[e] # None => ~broken[e]
    BY DEF IInv, DirectionOK, WriterOK
  <2> QED BY <2>1, <2>2 DEF GoesOn
<1> HIDE DEF Over
<1> QED BY <1>1, <1>2, <1>3, Invariant, PTL DEF Spec

-----------------------------------------------------------------------------
(* The channels.                                                            *)

Frame == (Nat \ {0}) \X Kinds

LEMMA FunctionIsSeq ==
    ASSUME NEW N \in Nat, NEW T, NEW f \in [1 .. N -> T]
    PROVE  f \in Seq(T) /\ Len(f) = N
BY SeqDef, LenProperties

\* What is sent and what has arrived, over the frames S that got the lock and
\* the numbers G of those that were read.
SentOf(S) == [n \in 1 .. Len(S) |-> <<n, S[n]>>]
ArrivedOf(S, G) == [n \in 1 .. Len(G) |-> <<G[n], IF G[n] = 0 THEN "none" ELSE S[G[n]]>>]

ChannelOK(S, G, X, A) ==
    /\ X \in Seq(Frame) /\ Len(X) = Len(S)
    /\ A \in Seq(Frame) /\ Len(A) = Len(G)
    /\ Len(S) \in Nat /\ Len(G) \in Nat /\ Len(G) <= Len(S)
    /\ \A n \in 1 .. Len(S) : X[n] = <<n, S[n]>>
    /\ \A n \in 1 .. Len(G) : A[n] = <<n, S[n]>>

LEMMA ChannelValues ==
    ASSUME NEW S \in Seq(Kinds), NEW G \in Seq(Nat), Len(G) <= Len(S),
           \A n \in 1 .. Len(G) : G[n] = n
    PROVE  ChannelOK(S, G, SentOf(S), ArrivedOf(S, G))
<1>1. Len(S) \in Nat /\ Len(G) \in Nat /\ \A n \in 1 .. Len(S) : S[n] \in Kinds
  OBVIOUS
<1>2. SentOf(S) \in [1 .. Len(S) -> Frame]
  BY <1>1 DEF Frame, SentOf
<1>3. \A n \in 1 .. Len(G) : ArrivedOf(S, G)[n] = <<n, S[n]>>
  BY DEF ArrivedOf
<1>4. \A n \in 1 .. Len(G) : <<n, S[n]>> \in Frame
  BY <1>1 DEF Frame
<1>5. /\ DOMAIN ArrivedOf(S, G) = 1 .. Len(G)
      /\ ArrivedOf(S, G) = [n \in DOMAIN ArrivedOf(S, G) |-> ArrivedOf(S, G)[n]]
  BY DEF ArrivedOf
<1>6. ArrivedOf(S, G) \in [1 .. Len(G) -> Frame]
  BY <1>3, <1>4, <1>5
<1>7. \A n \in 1 .. Len(S) : SentOf(S)[n] = <<n, S[n]>>
  BY DEF SentOf
<1>8. SentOf(S) \in Seq(Frame) /\ Len(SentOf(S)) = Len(S)
  BY <1>1, <1>2, FunctionIsSeq
<1>9. ArrivedOf(S, G) \in Seq(Frame) /\ Len(ArrivedOf(S, G)) = Len(G)
  BY <1>1, <1>6, FunctionIsSeq
<1> QED BY <1>1, <1>3, <1>7, <1>8, <1>9 DEF ChannelOK

LEMMA ChannelTypes ==
    ASSUME IInv, NEW e \in Ends
    PROVE  /\ started[e] \in Seq(Kinds) /\ got[e] \in Seq(Nat)
           /\ Len(got[e]) <= Len(started[e])
           /\ \A n \in 1 .. Len(got[e]) : got[e][n] = n
<1>1. started[e] \in Seq(Kinds) /\ got[e] \in Seq(Nat)
  BY DEF IInv, TypeOK
<1>2. ReaderOK(started[e], wire[e], taken[e], header[e], got[e])
  BY DEF IInv, DirectionOK
<1> QED BY <1>1, <1>2 DEF ReaderOK

\* A step of a channel: nothing, a frame that gets the lock, or one that has
\* been read to its end.
LEMMA ChannelSteps ==
    ASSUME IInv, IInv', [Next]_vars, NEW e \in Ends
    PROVE  \/ UNCHANGED <<started[e], got[e]>>
           \/ /\ Len(started'[e]) = Len(started[e]) + 1
              /\ \A n \in 1 .. Len(started[e]) : started'[e][n] = started[e][n]
              /\ UNCHANGED got[e]
           \/ /\ Len(got'[e]) = Len(got[e]) + 1
              /\ UNCHANGED started[e]
<1> DEFINE Goal == \/ UNCHANGED <<started[e], got[e]>>
                   \/ /\ Len(started'[e]) = Len(started[e]) + 1
                      /\ \A n \in 1 .. Len(started[e]) : started'[e][n] = started[e][n]
                      /\ UNCHANGED got[e]
                   \/ /\ Len(got'[e]) = Len(got[e]) + 1
                      /\ UNCHANGED started[e]
<1>0. /\ TypeOK /\ started \in [Ends -> Seq(Kinds)] /\ got \in [Ends -> Seq(Nat)]
      /\ \A f \in Ends : started[f] \in Seq(Kinds) /\ got[f] \in Seq(Nat)
  BY DEF IInv, TypeOK
<1>1. ASSUME UNCHANGED <<started, got>> PROVE Goal
  BY <1>1
<1>2. ASSUME NEW f \in Ends, NEW g \in Goroutines, Lock(f, g) PROVE Goal
  <2>1. job[f][g] \in Kinds
    BY <1>0, <1>2 DEF Lock, TypeOK
  <2>2. started' = [started EXCEPT ![f] = Append(started[f], job[f][g])] /\ UNCHANGED got
    BY <1>2 DEF Lock, reading
  <2>3. CASE f = e
    <3>1. started'[e] = Append(started[e], job[f][g])
      BY <1>0, <2>2, <2>3
    <3> QED BY <1>0, <2>1, <2>2, <3>1
  <2>4. CASE f # e
    BY <1>0, <2>2, <2>4
  <2> QED BY <2>3, <2>4
<1>3. ASSUME NEW f \in Ends, Read(f) PROVE Goal
  <2>1. UNCHANGED started
    BY <1>3 DEF Read
  <2>2. UNCHANGED got \/ got' = [got EXCEPT ![f] = Append(got[f], wire[f][taken[f] + 1].frame)]
    BY <1>3, ReadSteps
  <2>3. CASE f = e
    <3>1. CASE UNCHANGED got
      BY <2>1, <3>1
    <3>2. CASE got' = [got EXCEPT ![f] = Append(got[f], wire[f][taken[f] + 1].frame)]
      <4>1. got'[e] = Append(got[e], wire[f][taken[f] + 1].frame)
        BY <1>0, <2>3, <3>2
      <4>2. taken[f] < Len(wire[f]) /\ wire[f] \in Seq(Part) /\ taken[f] \in Nat
        BY <1>0, <1>3 DEF Read, TypeOK
      <4>3. wire[f][taken[f] + 1] \in Part
        BY <4>2
      <4>4. wire[f][taken[f] + 1].frame \in Nat
        BY <4>3 DEF Part
      <4> QED BY <1>0, <2>1, <4>1, <4>4
    <3> QED BY <2>2, <3>1, <3>2
  <2>4. CASE f # e
    BY <1>0, <2>1, <2>2, <2>4
  <2> QED BY <2>3, <2>4
<1> HIDE DEF Goal
<1>4. ASSUME UNCHANGED vars PROVE Goal
  BY <1>1, <1>4 DEF vars, writing, reading
<1>5. ASSUME NEW f \in Ends, NEW g \in Callers(f), Call(f, g) PROVE Goal
  BY <1>1, <1>5 DEF Call, reading
<1>6. ASSUME NEW f \in Ends, NEW g \in Goroutines, Write(f, g) PROVE Goal
  BY <1>1, <1>2, <1>6 DEF Write, Refused, Put, Fail, reading
<1>7. ASSUME NEW f \in Ends, Tick(f) \/ Read(f) \/ LoopEnds(f) \/ Close(f) PROVE Goal
  BY <1>1, <1>3, <1>7 DEF Tick, LoopEnds, Close, writing, reading
<1>8. Goal
  BY <1>4, <1>5, <1>6, <1>7 DEF Next
<1> QED BY <1>8 DEF Goal

\* What the channel's actions ask for, in direction e.
LEMMA ChannelStepOK ==
    ASSUME IInv, IInv', [Next]_vars, NEW e \in Ends
    PROVE  \/ UNCHANGED <<Sent(e), Arrived(e)>>
           \/ /\ Len(Sent(e)') = Len(Sent(e)) + 1
              /\ \A n \in 1 .. Len(Sent(e)) : Sent(e)'[n] = Sent(e)[n]
              /\ UNCHANGED Arrived(e)
           \/ /\ Len(Arrived(e)) < Len(Sent(e))
              /\ Arrived(e)' = Append(Arrived(e), Sent(e)[Len(Arrived(e)) + 1])
              /\ UNCHANGED Sent(e)
<1> DEFINE S == Sent(e)
           A == Arrived(e)
<1>1. ChannelOK(started[e], got[e], S, A)
  <2>1. S = SentOf(started[e]) /\ A = ArrivedOf(started[e], got[e])
    BY DEF Sent, Arrived, SentOf, ArrivedOf
  <2>2. ChannelOK(started[e], got[e], SentOf(started[e]), ArrivedOf(started[e], got[e]))
    BY ChannelTypes, ChannelValues
  <2> QED BY <2>1, <2>2
<1>2. ChannelOK(started'[e], got'[e], S', A')
  <2>1. S' = SentOf(started'[e]) /\ A' = ArrivedOf(started'[e], got'[e])
    BY DEF Sent, Arrived, SentOf, ArrivedOf
  <2>2. /\ started'[e] \in Seq(Kinds) /\ got'[e] \in Seq(Nat)
        /\ Len(got'[e]) <= Len(started'[e])
        /\ \A n \in 1 .. Len(got'[e]) : got'[e][n] = n
    <3>1. TypeOK' /\ ReaderOK(started'[e], wire'[e], taken'[e], header'[e], got'[e])
      BY DEF IInv, DirectionOK
    <3>2. started'[e] \in Seq(Kinds) /\ got'[e] \in Seq(Nat)
      BY <3>1 DEF TypeOK
    <3> QED BY <3>1, <3>2 DEF ReaderOK
  <2>3. ChannelOK(started'[e], got'[e], SentOf(started'[e]), ArrivedOf(started'[e], got'[e]))
    BY <2>2, ChannelValues
  <2> QED BY <2>1, <2>3
<1> USE DEF ChannelOK
<1>3. CASE UNCHANGED <<started[e], got[e]>>
  BY <1>3 DEF Sent, Arrived
<1>4. CASE /\ Len(started'[e]) = Len(started[e]) + 1
           /\ \A n \in 1 .. Len(started[e]) : started'[e][n] = started[e][n]
           /\ UNCHANGED got[e]
  <2> HIDE DEF S, A
  <2>1. ASSUME NEW n \in 1 .. Len(S) PROVE S'[n] = S[n]
    <3>1. n \in 1 .. Len(started[e]) /\ n \in 1 .. Len(started'[e])
      BY <1>1, <1>4
    <3>2. S[n] = <<n, started[e][n]>> /\ S'[n] = <<n, started'[e][n]>>
      BY <1>1, <1>2, <3>1
    <3> QED BY <1>4, <3>1, <3>2
  <2>2. ASSUME NEW n \in 1 .. Len(A) PROVE A'[n] = A[n]
    <3>1. n \in 1 .. Len(got[e]) /\ n \in 1 .. Len(got'[e]) /\ n \in 1 .. Len(started[e])
      BY <1>1, <1>4
    <3>2. A[n] = <<n, started[e][n]>> /\ A'[n] = <<n, started'[e][n]>>
      BY <1>1, <1>2, <3>1
    <3> QED BY <1>4, <3>1, <3>2
  <2>3. A' = A
    BY <1>1, <1>2, <1>4, <2>2, SeqEqual
  <2> QED BY <1>1, <1>2, <1>4, <2>1, <2>3 DEF S, A
<1>5. CASE Len(got'[e]) = Len(got[e]) + 1 /\ UNCHANGED started[e]
  <2>1. S' = S
    BY <1>5 DEF Sent
  <2> HIDE DEF S, A
  <2>2. Len(A) < Len(S) /\ Len(A') = Len(A) + 1
    BY <1>1, <1>2, <1>5
  <2>3. ASSUME NEW n \in 1 .. Len(A) PROVE A'[n] = A[n]
    <3>1. n \in 1 .. Len(got[e]) /\ n \in 1 .. Len(got'[e])
      BY <1>1, <1>5
    <3>2. A[n] = <<n, started[e][n]>> /\ A'[n] = <<n, started'[e][n]>>
      BY <1>1, <1>2, <3>1
    <3> QED BY <1>5, <3>2
  <2>4. Len(A) + 1 \in 1 .. Len(S) /\ S[Len(A) + 1] \in Frame
    BY <1>1, <2>2
  <2>5. A'[Len(A) + 1] = S[Len(A) + 1]
    <3>1. /\ Len(A) + 1 \in 1 .. Len(got'[e])
          /\ Len(A) + 1 \in 1 .. Len(started[e])
          /\ Len(A) + 1 \in Nat
      BY <1>1, <1>5, <2>4
    <3> DEFINE k == Len(A) + 1
    <3> HIDE DEF k
    <3>2. k \in 1 .. Len(got'[e]) /\ k \in 1 .. Len(started[e])
      BY <3>1 DEF k
    <3>3. S[k] = <<k, started[e][k]>> /\ A'[k] = <<k, started'[e][k]>>
      BY <1>1, <1>2, <3>2
    <3> QED BY <1>5, <3>3 DEF k
  <2> DEFINE B == Append(A, S[Len(A) + 1])
  <2>6. /\ B \in Seq(Frame) /\ Len(B) = Len(A) + 1
        /\ \A n \in 1 .. Len(A) : B[n] = A[n]
        /\ B[Len(A) + 1] = S[Len(A) + 1]
    BY <1>1, <2>4
  <2> HIDE DEF B
  <2>7. \A n \in 1 .. Len(B) : A'[n] = B[n]
    <3> SUFFICES ASSUME NEW n \in 1 .. Len(B) PROVE A'[n] = B[n]
      OBVIOUS
    <3>1. n \in 1 .. Len(A) \/ n = Len(A) + 1
      BY <1>1, <2>6
    <3> QED BY <2>3, <2>5, <2>6, <3>1
  <2>8. A' = B
    BY <1>2, <2>2, <2>6, <2>7, SeqEqual
  <2> QED BY <2>1, <2>2, <2>8 DEF S, A, B
<1> QED BY <1>3, <1>4, <1>5, ChannelSteps

\* Each direction implements the abstract channel.
THEOREM Refinement == Spec => ImplementsChannels
<1>1. Init => Up!Init /\ Down!Init
  BY DEF Init, Up!Init, Down!Init, Sent, Arrived, Ends
<1>2. IInv /\ IInv' /\ [Next]_vars
         => [Up!Send \/ Up!Arrive]_<<Sent("client"), Arrived("client")>>
  <2> SUFFICES ASSUME IInv, IInv', [Next]_vars
               PROVE  [Up!Send \/ Up!Arrive]_<<Sent("client"), Arrived("client")>>
    OBVIOUS
  <2>1. "client" \in Ends
    BY DEF Ends
  <2> QED BY <2>1, ChannelStepOK DEF Up!Send, Up!Arrive
<1>3. IInv /\ IInv' /\ [Next]_vars
         => [Down!Send \/ Down!Arrive]_<<Sent("server"), Arrived("server")>>
  <2> SUFFICES ASSUME IInv, IInv', [Next]_vars
               PROVE  [Down!Send \/ Down!Arrive]_<<Sent("server"), Arrived("server")>>
    OBVIOUS
  <2>1. "server" \in Ends
    BY DEF Ends
  <2> QED BY <2>1, ChannelStepOK DEF Down!Send, Down!Arrive
<1> QED BY <1>1, <1>2, <1>3, Invariant, PTL DEF Spec, ImplementsChannels, Up!Spec, Down!Spec
=============================================================================
