-------------------------- MODULE CallMediaProofs --------------------------
(***************************************************************************)
(* Nothing runs over a closed peer, for every number of users, peers and   *)
(* tracks.  The reason is the lock: whoever found a peer open and has yet  *)
(* to add a leg to it, or to answer its client, holds its lock until then, *)
(* and a peer is closed under its lock.                                    *)
(*                                                                         *)
(* And no peer is lost: a peer that is open is in the room, or in the      *)
(* hands of a goroutine that will put it there or close it, or its call is *)
(* over or about to be.                                                    *)
(*                                                                         *)
(* And everyone hears: of every first track, every first peer of the       *)
(* others has exactly one route once all is quiet.                         *)
(***************************************************************************)
EXTENDS CallMedia, FiniteSetTheorems, TLAPS

\* Where a peer stays locked from one step to the next.
Holding == {"label", "answer"}

\* Goroutine x has found peer p open, and goes on with it.
WorksOn(x, p) ==
  \/ At(x, "label") /\ arg[x][1] = p
  \/ At(x, "answer") /\ mine[x] = p

Shape ==
  /\ pc = [x \in Procs |-> pc[x]]
  /\ caller = [x \in Procs |-> caller[x]]
  /\ arg = [x \in Procs |-> arg[x]]
  /\ mine = [x \in Procs |-> mine[x]]
  /\ peerLock = [p \in Peers |-> peerLock[p]]
  /\ forwarded = [p \in Peers |-> forwarded[p]]
  /\ published = [p \in Peers |-> published[p]]
  /\ \A x \in Procs : caller[x] \notin Holding

LockInv ==
  \A x \in Procs : \A p \in Peers :
    WorksOn(x, p) => peerLock[p] = x /\ p \notin dead /\ x # Server

\* The inductive invariant.
SilenceInv == Shape /\ LockInv /\ ClosedPeersAreSilent

\* A step of goroutine x leaves the locals of the others alone.
OnlyMoves(x) ==
  \A y \in Procs \ {x} : pc'[y] = pc[y] /\ arg'[y] = arg[y] /\ mine'[y] = mine[y]

\* No lock is taken away from anybody but x, and no locked peer is closed.
RespectsLocks(x) ==
  \A p \in Peers :
    /\ peerLock'[p] = peerLock[p] \/ peerLock[p] \in {None, Server, x}
    /\ p \in dead' => p \in dead \/ Free(p)

-----------------------------------------------------------------------------
LEMMA GotoMoves ==
  ASSUME Shape, NEW x \in Procs, NEW l, Goto(x, l),
         \A y \in Procs \ {x} : arg'[y] = arg[y] /\ mine'[y] = mine[y]
  PROVE  OnlyMoves(x) /\ pc'[x] = l /\ pc' = [y \in Procs |-> pc'[y]]
BY DEF Shape, Goto, OnlyMoves

\* It is enough to look at the goroutine that moves.
LEMMA OthersKeepLocks ==
  ASSUME LockInv, NEW x \in Procs, OnlyMoves(x), RespectsLocks(x),
         NEW y \in Procs \ {x}, NEW p \in Peers, WorksOn(y, p)'
  PROVE  (peerLock[p] = y /\ p \notin dead /\ y # Server)'
<1>1. WorksOn(y, p)
  BY DEF WorksOn, OnlyMoves, At
<1>2. peerLock[p] = y /\ p \notin dead /\ y # Server
  BY <1>1 DEF LockInv
<1>3. y # None
  BY ProcsAssumption
<1>4. QED  BY <1>2, <1>3 DEF RespectsLocks, Free

\* A goroutine that goes where nothing is locked.
LEMMA MovesOn ==
  ASSUME SilenceInv, NEW x \in Procs, OnlyMoves(x), RespectsLocks(x),
         pc'[x] \notin Holding
  PROVE  LockInv'
<1> SUFFICES ASSUME NEW y \in Procs, NEW p \in Peers, WorksOn(y, p)'
             PROVE  (peerLock[p] = y /\ p \notin dead /\ y # Server)'
  BY DEF LockInv
<1>1. CASE y = x
  BY <1>1 DEF WorksOn, At, Holding
<1>2. CASE y # x
  BY <1>2, OthersKeepLocks DEF SilenceInv
<1>3. QED  BY <1>1, <1>2

\* A goroutine that locks the peer it will work on.
LEMMA TakesLock ==
  ASSUME SilenceInv, NEW x \in Procs, x # Server, NEW q,
         OnlyMoves(x), UNCHANGED dead,
         q \notin dead, Free(q), peerLock' = [peerLock EXCEPT ![q] = x],
         \A p \in Peers : WorksOn(x, p)' => p = q
  PROVE  LockInv'
<1>1. \A p \in Peers : peerLock'[p] = IF p = q THEN x ELSE peerLock[p]
  BY DEF SilenceInv, Shape
<1>2. RespectsLocks(x)
  BY <1>1 DEF RespectsLocks, Free
<1> SUFFICES ASSUME NEW y \in Procs, NEW p \in Peers, WorksOn(y, p)'
             PROVE  (peerLock[p] = y /\ p \notin dead /\ y # Server)'
  BY DEF LockInv
<1>3. CASE y = x
  BY <1>1, <1>3
<1>4. CASE y # x
  BY <1>2, <1>4, OthersKeepLocks DEF SilenceInv
<1>5. QED  BY <1>3, <1>4

\* Nobody moves, and only locks of nobody or of the server change.
LEMMA NobodyMoves ==
  ASSUME SilenceInv, UNCHANGED <<pc, arg, mine, dead>>,
         \A p \in Peers : peerLock'[p] = peerLock[p] \/ peerLock[p] \in {None, Server}
  PROVE  LockInv'
<1> SUFFICES ASSUME NEW y \in Procs, NEW p \in Peers, WorksOn(y, p)'
             PROVE  (peerLock[p] = y /\ p \notin dead /\ y # Server)'
  BY DEF LockInv
<1>1. WorksOn(y, p)
  BY DEF WorksOn, At
<1>2. peerLock[p] = y /\ p \notin dead /\ y # Server /\ y # None
  BY <1>1, ProcsAssumption DEF SilenceInv, LockInv
<1>3. QED  BY <1>2
-----------------------------------------------------------------------------
LEMMA SilenceInit == Init => SilenceInv
<1> SUFFICES ASSUME Init PROVE SilenceInv
  OBVIOUS
<1>1. Shape
  BY DEF Init, Shape, Holding
<1>2. LockInv
  BY DEF Init, LockInv, WorksOn, At
<1>3. ClosedPeersAreSilent
  BY DEF Init, ClosedPeersAreSilent
<1>4. QED  BY <1>1, <1>2, <1>3 DEF SilenceInv

\* Goroutine x goes where nothing is locked, and minds its own locals.
PlainMove(x) ==
  /\ Shape' /\ OnlyMoves(x)
  /\ pc'[x] \notin Holding

lockedState == <<dead, published, forwarded, peerLock>>

LEMMA PlainStep ==
  ASSUME SilenceInv, NEW x \in Procs, PlainMove(x), UNCHANGED lockedState
  PROVE  SilenceInv'
<1>1. RespectsLocks(x)
  BY DEF RespectsLocks, lockedState
<1>2. LockInv'
  BY <1>1, MovesOn DEF PlainMove
<1>3. ClosedPeersAreSilent'
  BY DEF SilenceInv, ClosedPeersAreSilent, lockedState
<1>4. QED  BY <1>2, <1>3 DEF SilenceInv, PlainMove

LEMMA SilenceStutters ==
  ASSUME SilenceInv, UNCHANGED <<lockedState, pc, caller, arg, mine>>
  PROVE  SilenceInv'
BY DEF SilenceInv, Shape, LockInv, WorksOn, At, ClosedPeersAreSilent, lockedState
-----------------------------------------------------------------------------

LEMMA ActivatePlain ==
  ASSUME SilenceInv, NEW x \in Procs, Activate(x)
  PROVE  PlainMove(x) /\ UNCHANGED lockedState
BY DEF SilenceInv, Shape, PlainMove, OnlyMoves, Holding, Goto, Activate, lockedState, peerVars, lockVars, localVars

LEMMA NextTargetPlain ==
  ASSUME SilenceInv, NEW x \in Procs, NextTarget(x)
  PROVE  PlainMove(x) /\ UNCHANGED lockedState
BY DEF SilenceInv, Shape, PlainMove, OnlyMoves, Holding, Goto, NextTarget, lockedState, peerVars, lockVars, localVars

LEMMA EnsurePlain ==
  ASSUME SilenceInv, NEW x \in Procs, Ensure(x)
  PROVE  PlainMove(x) /\ UNCHANGED lockedState
BY DEF SilenceInv, Shape, PlainMove, OnlyMoves, Holding, Goto, Ensure, Ensured, NotEnsured, lockedState, peerVars, lockVars, localVars

LEMMA LookPlain ==
  ASSUME SilenceInv, NEW x \in Procs, Look(x)
  PROVE  PlainMove(x) /\ UNCHANGED lockedState
BY DEF SilenceInv, Shape, PlainMove, OnlyMoves, Holding, Goto, Look, Ensured, lockedState, peerVars, lockVars, localVars

LEMMA MakePlain ==
  ASSUME SilenceInv, NEW x \in Procs, Make(x)
  PROVE  PlainMove(x) /\ UNCHANGED lockedState
BY DEF SilenceInv, Shape, PlainMove, OnlyMoves, Holding, Goto, Make, NotEnsured, lockedState, peerVars, lockVars, localVars

LEMMA StorePlain ==
  ASSUME SilenceInv, NEW x \in Procs, Store(x)
  PROVE  PlainMove(x) /\ UNCHANGED lockedState
BY DEF SilenceInv, Shape, PlainMove, OnlyMoves, Holding, Goto, Store, Ensured, lockedState, peerVars, lockVars, localVars

LEMMA ComparePlain ==
  ASSUME SilenceInv, NEW x \in Procs, Compare(x)
  PROVE  PlainMove(x) /\ UNCHANGED lockedState
BY DEF SilenceInv, Shape, PlainMove, OnlyMoves, Holding, Goto, Compare, Ensured, lockedState, peerVars, lockVars, localVars

LEMMA PeerForPlain ==
  ASSUME SilenceInv, NEW x \in Procs, PeerFor(x)
  PROVE  PlainMove(x) /\ UNCHANGED lockedState
BY DEF SilenceInv, Shape, PlainMove, OnlyMoves, Holding, Goto, PeerFor, lockedState, peerVars, lockVars, localVars

LEMMA OfferPlain ==
  ASSUME SilenceInv, NEW x \in Procs, Offer(x)
  PROVE  PlainMove(x) /\ UNCHANGED lockedState
BY DEF SilenceInv, Shape, PlainMove, OnlyMoves, Holding, Goto, Offer, lockedState, peerVars, lockVars, localVars

LEMMA AttachPlain ==
  ASSUME SilenceInv, NEW x \in Procs, Attach(x)
  PROVE  PlainMove(x) /\ UNCHANGED lockedState
BY DEF SilenceInv, Shape, PlainMove, OnlyMoves, Holding, Goto, Attach, lockedState, peerVars, lockVars, localVars

LEMMA OnTrackPlain ==
  ASSUME SilenceInv, NEW x \in Procs, OnTrack(x)
  PROVE  PlainMove(x) /\ UNCHANGED lockedState
BY DEF SilenceInv, Shape, PlainMove, OnlyMoves, Holding, Goto, OnTrack, lockedState, peerVars, lockVars, localVars

LEMMA AttachPublisherPlain ==
  ASSUME SilenceInv, NEW x \in Procs, AttachPublisher(x)
  PROVE  PlainMove(x) /\ UNCHANGED lockedState
BY DEF SilenceInv, Shape, PlainMove, OnlyMoves, Holding, Goto, AttachPublisher, lockedState, peerVars, lockVars, localVars

LEMMA FanoutPlain ==
  ASSUME SilenceInv, NEW x \in Procs, Fanout(x)
  PROVE  PlainMove(x) /\ UNCHANGED lockedState
BY DEF SilenceInv, Shape, PlainMove, OnlyMoves, Holding, Goto, Fanout, lockedState, peerVars, lockVars, localVars

LEMMA AddRoutePlain ==
  ASSUME SilenceInv, NEW x \in Procs, AddRoute(x)
  PROVE  PlainMove(x) /\ UNCHANGED lockedState
BY DEF SilenceInv, Shape, PlainMove, OnlyMoves, Holding, Goto, AddRoute, Forwarded, lockedState, peerVars, lockVars, localVars

LEMMA PumpEndsPlain ==
  ASSUME SilenceInv, NEW x \in Procs, PumpEnds(x)
  PROVE  PlainMove(x) /\ UNCHANGED lockedState
BY DEF SilenceInv, Shape, PlainMove, OnlyMoves, Holding, Goto, PumpEnds, lockedState, peerVars, lockVars, localVars

LEMMA DetachPlain ==
  ASSUME SilenceInv, NEW x \in Procs, Detach(x)
  PROVE  PlainMove(x) /\ UNCHANGED lockedState
BY DEF SilenceInv, Shape, PlainMove, OnlyMoves, Holding, Goto, Detach, lockedState, peerVars, lockVars, localVars

LEMMA RemoveRoutePlain ==
  ASSUME SilenceInv, NEW x \in Procs, RemoveRoute(x)
  PROVE  PlainMove(x) /\ UNCHANGED lockedState
BY DEF SilenceInv, Shape, PlainMove, OnlyMoves, Holding, Goto, RemoveRoute, lockedState, peerVars, lockVars, localVars

LEMMA ForgetKeyPlain ==
  ASSUME SilenceInv, NEW x \in Procs, ForgetKey(x)
  PROVE  PlainMove(x) /\ UNCHANGED lockedState
BY DEF SilenceInv, Shape, PlainMove, OnlyMoves, Holding, Goto, ForgetKey, lockedState, peerVars, lockVars, localVars

LEMMA LeavePlain ==
  ASSUME SilenceInv, NEW x \in Procs, Leave(x)
  PROVE  PlainMove(x) /\ UNCHANGED lockedState
BY DEF SilenceInv, Shape, PlainMove, OnlyMoves, Holding, Goto, Leave, CloseAll, lockedState, peerVars, lockVars, localVars

LEMMA IceFailsPlain ==
  ASSUME SilenceInv, NEW x \in Procs, IceFails(x)
  PROVE  PlainMove(x) /\ UNCHANGED lockedState
BY DEF SilenceInv, Shape, PlainMove, OnlyMoves, Holding, Goto, IceFails, CloseAll, lockedState, peerVars, lockVars, localVars

LEMMA EndPlain ==
  ASSUME SilenceInv, NEW x \in Procs, End(x)
  PROVE  PlainMove(x) /\ UNCHANGED lockedState
BY DEF SilenceInv, Shape, PlainMove, OnlyMoves, Holding, Goto, End, CloseAll, lockedState, peerVars, lockVars, localVars

LEMMA SweepPlain ==
  ASSUME SilenceInv, NEW x \in Procs, Sweep(x)
  PROVE  PlainMove(x) /\ UNCHANGED lockedState
BY DEF SilenceInv, Shape, PlainMove, OnlyMoves, Holding, Goto, Sweep, lockedState, peerVars, lockVars, localVars

LEMMA DropPeerCachesPlain ==
  ASSUME SilenceInv, NEW x \in Procs, DropPeerCaches(x)
  PROVE  PlainMove(x) /\ UNCHANGED lockedState
BY DEF SilenceInv, Shape, PlainMove, OnlyMoves, Holding, Goto, DropPeerCaches, lockedState, peerVars, lockVars, localVars

LEMMA DonePlain ==
  ASSUME SilenceInv, NEW x \in Procs, Done(x)
  PROVE  PlainMove(x) /\ UNCHANGED lockedState
BY DEF SilenceInv, Shape, PlainMove, OnlyMoves, Holding, Goto, Done, lockedState, peerVars, lockVars, localVars

LEMMA JoinPlain ==
  ASSUME SilenceInv, NEW x \in Procs, Join(x)
  PROVE  /\ PlainMove(x) \/ UNCHANGED <<pc, caller, arg, mine>>
         /\ UNCHANGED lockedState
BY DEF SilenceInv, Shape, PlainMove, OnlyMoves, Holding, Goto, Join, lockedState, peerVars, lockVars, localVars

LEMMA AttachPairPlain ==
  ASSUME SilenceInv, NEW x \in Procs, AttachPair(x)
  PROVE  /\ PlainMove(x) \/ UNCHANGED <<pc, caller, arg, mine>>
         /\ UNCHANGED lockedState
BY DEF SilenceInv, Shape, PlainMove, OnlyMoves, Holding, Goto, AttachPair, lockedState, peerVars, lockVars, localVars

LEMMA RemoveLegPlain ==
  ASSUME SilenceInv, NEW x \in Procs, RemoveLeg(x)
  PROVE  /\ PlainMove(x) \/ UNCHANGED <<pc, caller, arg, mine>>
         /\ UNCHANGED lockedState
BY DEF SilenceInv, Shape, PlainMove, OnlyMoves, Holding, Goto, RemoveLeg, lockedState, peerVars, lockVars, localVars
-----------------------------------------------------------------------------
(* The steps that lock or unlock a peer, close one, or change what it has. *)

LEMMA DiscardStep ==
  ASSUME SilenceInv, NEW x \in Procs, Discard(x)
  PROVE  SilenceInv'
<1>1. PICK p \in victims[x] :
        /\ Free(p)
        /\ dead' = dead \union {p}
        /\ forwarded' = [forwarded EXCEPT ![p] = {}]
        /\ published' = [published EXCEPT ![p] = None]
  BY DEF Discard
<1>2. UNCHANGED peerLock
  BY DEF Discard, lockVars
<1>3. PlainMove(x)
  BY <1>1, <1>2
  DEF SilenceInv, Shape, PlainMove, OnlyMoves, Holding, Goto, Discard, Ensured, NotEnsured
<1>4. RespectsLocks(x)
  BY <1>1, <1>2 DEF RespectsLocks
<1>5. LockInv'
  BY <1>3, <1>4, MovesOn DEF PlainMove
<1>6. ClosedPeersAreSilent'
  BY <1>1 DEF SilenceInv, Shape, ClosedPeersAreSilent
<1>7. QED  BY <1>3, <1>5, <1>6 DEF SilenceInv, PlainMove

LEMMA HandleOfferStep ==
  ASSUME SilenceInv, NEW x \in Users, HandleOffer(x)
  PROVE  SilenceInv'
<1>0. x \in Procs /\ x # Server
  BY ProcsAssumption DEF Procs
<1>1. UNCHANGED <<dead, published, forwarded, caller, arg>>
  BY DEF HandleOffer, localVars
<1>2. ClosedPeersAreSilent'
  BY <1>1 DEF SilenceInv, ClosedPeersAreSilent
<1>3. CASE Goto(x, "idle") /\ UNCHANGED peerLock /\ mine' = [mine EXCEPT ![x] = None]
  <2>1. PlainMove(x) /\ UNCHANGED lockedState
    BY <1>0, <1>1, <1>3
    DEF SilenceInv, Shape, PlainMove, OnlyMoves, Holding, Goto, lockedState
  <2>2. QED  BY <1>0, <2>1, PlainStep
<1>4. CASE /\ mine[x] \notin dead /\ Free(mine[x]) /\ Goto(x, "answer") /\ UNCHANGED mine
           /\ peerLock' = [peerLock EXCEPT ![mine[x]] = x]
  <2>1. OnlyMoves(x) /\ pc'[x] = "answer"
    BY <1>0, <1>1, <1>4, GotoMoves DEF SilenceInv
  <2>2. \A p \in Peers : WorksOn(x, p)' => p = mine[x]
    BY <1>4, <2>1 DEF WorksOn, At
  <2>3. LockInv'
    BY <1>0, <1>1, <1>4, <2>1, <2>2, TakesLock
  <2>4. Shape'
    BY <1>0, <1>1, <1>4 DEF SilenceInv, Shape, Goto
  <2>5. QED  BY <1>2, <2>3, <2>4 DEF SilenceInv
<1>5. QED  BY <1>3, <1>4 DEF HandleOffer

LEMMA AnswerStep ==
  ASSUME SilenceInv, NEW x \in Users, Answer(x)
  PROVE  SilenceInv'
<1>0. x \in Procs
  BY DEF Procs
<1>1. UNCHANGED <<dead, published, forwarded>>
  BY DEF Answer, peerVars
<1>2. PlainMove(x)
  BY <1>0, <1>1
  DEF SilenceInv, Shape, PlainMove, OnlyMoves, Holding, Goto, Answer
<1>3. RespectsLocks(x)
  <2>1. \A p \in Peers : p = mine[x] => peerLock[p] = x
    BY <1>0 DEF SilenceInv, LockInv, WorksOn, Answer
  <2>2. \A p \in Peers : p # mine[x] => peerLock'[p] = peerLock[p]
    BY DEF SilenceInv, Shape, Answer
  <2>3. QED  BY <1>1, <2>1, <2>2 DEF RespectsLocks
<1>4. LockInv'
  BY <1>0, <1>2, <1>3, MovesOn DEF PlainMove
<1>5. ClosedPeersAreSilent'
  BY <1>1 DEF SilenceInv, ClosedPeersAreSilent
<1>6. QED  BY <1>2, <1>4, <1>5 DEF SilenceInv, PlainMove

\* negotiate takes a free lock, and later gives back its own.
LEMMA NegotiatingStep ==
  ASSUME SilenceInv, NEW p \in Peers, Negotiating(p)
  PROVE  SilenceInv'
<1>1. /\ UNCHANGED <<pc, caller, arg, mine, dead, published, forwarded>>
      /\ \/ Free(p) /\ peerLock' = [peerLock EXCEPT ![p] = Server]
         \/ peerLock[p] = Server /\ peerLock' = [peerLock EXCEPT ![p] = None]
  BY DEF Negotiating, Negotiate, ServerOffer, peerVars, localVars
<1>2. \A q \in Peers : peerLock'[q] = peerLock[q] \/ peerLock[q] \in {None, Server}
  BY <1>1 DEF SilenceInv, Shape, Free
<1>3. LockInv'
  BY <1>1, <1>2, NobodyMoves
<1>4. Shape' /\ ClosedPeersAreSilent'
  BY <1>1 DEF SilenceInv, Shape, ClosedPeersAreSilent
<1>5. QED  BY <1>3, <1>4 DEF SilenceInv

\* A track is published over an open peer only, or its end is noted.
LEMMA PublishedStep ==
  ASSUME SilenceInv, NEW s \in Procs, Publish(s) \/ DropPublished(s)
  PROVE  SilenceInv'
<1>1. UNCHANGED <<dead, forwarded, caller, arg, mine, peerLock>>
  BY DEF Publish, DropPublished, lockVars, localVars
<1>2. PlainMove(s)
  BY <1>1
  DEF SilenceInv, Shape, PlainMove, OnlyMoves, Holding, Goto, Publish, DropPublished
<1>3. RespectsLocks(s)
  BY <1>1 DEF RespectsLocks
<1>4. LockInv'
  BY <1>2, <1>3, MovesOn DEF PlainMove
<1>5. ClosedPeersAreSilent'
  BY <1>1 DEF SilenceInv, Shape, ClosedPeersAreSilent, Publish, DropPublished
<1>6. QED  BY <1>2, <1>4, <1>5 DEF SilenceInv, PlainMove

LEMMA ForwardStep ==
  ASSUME SilenceInv, NEW x \in Procs \ {Server}, Forward(x)
  PROVE  SilenceInv'
<1>1. UNCHANGED <<dead, published, forwarded, caller, mine>>
  BY DEF Forward, peerVars
<1>2. ClosedPeersAreSilent'
  BY <1>1 DEF SilenceInv, ClosedPeersAreSilent
<1>3. CASE Forwarded(x) /\ UNCHANGED peerLock
  <2>1. PlainMove(x) /\ UNCHANGED lockedState
    BY <1>1, <1>3
    DEF SilenceInv, Shape, PlainMove, OnlyMoves, Holding, Goto, Forwarded, lockedState
  <2>2. QED  BY <2>1, PlainStep
<1>4. CASE /\ arg[x][1] \notin dead /\ Free(arg[x][1]) /\ Goto(x, "label") /\ UNCHANGED arg
           /\ peerLock' = [peerLock EXCEPT ![arg[x][1]] = x]
  <2>1. OnlyMoves(x) /\ pc'[x] = "label"
    BY <1>1, <1>4, GotoMoves DEF SilenceInv
  <2>2. \A p \in Peers : WorksOn(x, p)' => p = arg[x][1]
    BY <1>4, <2>1 DEF WorksOn, At
  <2>3. LockInv'
    BY <1>1, <1>4, <2>1, <2>2, TakesLock
  <2>4. Shape'
    BY <1>1, <1>4 DEF SilenceInv, Shape, Goto
  <2>5. QED  BY <1>2, <2>3, <2>4 DEF SilenceInv
<1>5. QED  BY <1>3, <1>4 DEF Forward

\* The peer that gets its leg was found open, and has stayed locked.
LEMMA LabelStep ==
  ASSUME SilenceInv, NEW x \in Procs, Label(x)
  PROVE  SilenceInv'
<1>1. UNCHANGED <<dead, published, caller, arg, mine>>
  BY DEF Label, localVars
<1>2. PlainMove(x)
  BY <1>1
  DEF SilenceInv, Shape, PlainMove, OnlyMoves, Holding, Goto, Label
<1>3. \A p \in Peers : p = arg[x][1] => peerLock[p] = x /\ p \notin dead
  BY DEF SilenceInv, LockInv, WorksOn, Label
<1>4. RespectsLocks(x)
  <2>1. \A p \in Peers : p # arg[x][1] => peerLock'[p] = peerLock[p]
    BY DEF SilenceInv, Shape, Label
  <2>2. QED  BY <1>1, <1>3, <2>1 DEF RespectsLocks
<1>5. LockInv'
  BY <1>2, <1>4, MovesOn DEF PlainMove
<1>6. ClosedPeersAreSilent'
  BY <1>1, <1>3 DEF SilenceInv, Shape, ClosedPeersAreSilent, Label
<1>7. QED  BY <1>2, <1>5, <1>6 DEF SilenceInv, PlainMove

LEMMA RemoveForwardedStep ==
  ASSUME SilenceInv, NEW s \in Procs, RemoveForwarded(s)
  PROVE  SilenceInv'
<1>1. UNCHANGED <<dead, published, caller, mine, peerLock>>
  BY DEF RemoveForwarded, lockVars
<1>2. PICK q \in todo[s] :
        \/ UNCHANGED <<forwarded, arg, pc>>
        \/ \E leg \in forwarded[q] :
             /\ forwarded' = [forwarded EXCEPT ![q] = @ \ {leg}]
             /\ arg' = [arg EXCEPT ![s] = leg]
             /\ Goto(s, "unroute")
  BY DEF RemoveForwarded
<1>3. CASE UNCHANGED <<forwarded, arg, pc>>
  BY <1>1, <1>3, SilenceStutters DEF lockedState
<1>4. CASE \E leg \in forwarded[q] :
             /\ forwarded' = [forwarded EXCEPT ![q] = @ \ {leg}]
             /\ arg' = [arg EXCEPT ![s] = leg]
             /\ Goto(s, "unroute")
  <2>1. PlainMove(s)
    BY <1>1, <1>4 DEF SilenceInv, Shape, PlainMove, OnlyMoves, Holding, Goto
  <2>2. RespectsLocks(s)
    BY <1>1 DEF RespectsLocks
  <2>3. LockInv'
    BY <2>1, <2>2, MovesOn DEF PlainMove
  <2>4. ClosedPeersAreSilent'
    BY <1>1, <1>4 DEF SilenceInv, Shape, ClosedPeersAreSilent
  <2>5. QED  BY <2>1, <2>3, <2>4 DEF SilenceInv, PlainMove
<1>5. QED  BY <1>2, <1>3, <1>4

\* A peer is closed when nobody else has it locked, and is silent at once.
LEMMA ClosePeerStep ==
  ASSUME SilenceInv, NEW x \in Procs, ClosePeer(x)
  PROVE  SilenceInv'
<1>1. UNCHANGED <<caller, arg, mine, peerLock>>
  BY DEF ClosePeer, lockVars
<1>2. PICK p \in victims[x] :
        /\ Free(p)
        /\ \/ UNCHANGED <<dead, forwarded, published, pc>>
           \/ /\ dead' = dead \union {p}
              /\ forwarded' = [forwarded EXCEPT ![p] = {}]
              /\ published' = [published EXCEPT ![p] = None]
              /\ Goto(x, "unleg")
  BY DEF ClosePeer
<1>3. CASE UNCHANGED <<dead, forwarded, published, pc>>
  BY <1>1, <1>3, SilenceStutters DEF lockedState
<1>4. CASE /\ dead' = dead \union {p}
           /\ forwarded' = [forwarded EXCEPT ![p] = {}]
           /\ published' = [published EXCEPT ![p] = None]
           /\ Goto(x, "unleg")
  <2>1. PlainMove(x)
    BY <1>1, <1>4 DEF SilenceInv, Shape, PlainMove, OnlyMoves, Holding, Goto
  <2>2. RespectsLocks(x)
    BY <1>1, <1>2, <1>4 DEF RespectsLocks
  <2>3. LockInv'
    BY <2>1, <2>2, MovesOn DEF PlainMove
  <2>4. ClosedPeersAreSilent'
    BY <1>4 DEF SilenceInv, Shape, ClosedPeersAreSilent
  <2>5. QED  BY <2>1, <2>3, <2>4 DEF SilenceInv, PlainMove
<1>5. QED  BY <1>2, <1>3, <1>4
-----------------------------------------------------------------------------
LEMMA EnsuringStep ==
  ASSUME SilenceInv, NEW u \in Procs, Ensuring(u)
  PROVE  SilenceInv'
BY EnsurePlain, LookPlain, MakePlain, StorePlain, ComparePlain, DiscardStep, PlainStep DEF Ensuring

LEMMA ActivatingStep ==
  ASSUME SilenceInv, NEW u \in Procs, Activating(u)
  PROVE  SilenceInv'
BY ActivatePlain, NextTargetPlain, AttachPlain, AttachPairPlain, PlainStep, SilenceStutters DEF Activating

LEMMA OfferingStep ==
  ASSUME SilenceInv, NEW u \in Users, Offering(u)
  PROVE  SilenceInv'
BY PeerForPlain, HandleOfferStep, AnswerStep, PlainStep DEF Offering, Procs

LEMMA ForwardingStep ==
  ASSUME SilenceInv, NEW x \in Procs \ {Server}, Forwarding(x)
  PROVE  SilenceInv'
BY ForwardStep, LabelStep, AddRoutePlain, PlainStep DEF Forwarding

LEMMA PublishingStep ==
  ASSUME SilenceInv, NEW s \in Procs, Publishing(s)
  PROVE  SilenceInv'
BY PublishedStep, AttachPublisherPlain, FanoutPlain, DetachPlain, RemoveForwardedStep,
   RemoveRoutePlain, ForgetKeyPlain, PlainStep
DEF Publishing, Detaching

LEMMA ClosingStep ==
  ASSUME SilenceInv, NEW x \in Procs, Closing(x)
  PROVE  SilenceInv'
BY ClosePeerStep, RemoveLegPlain, SweepPlain, DropPeerCachesPlain, EndPlain, PlainStep, SilenceStutters
DEF Closing

LEMMA SilenceNext == SilenceInv /\ [Next]_vars => SilenceInv'
<1> SUFFICES ASSUME SilenceInv, [Next]_vars PROVE SilenceInv'
  OBVIOUS
<1>1. ASSUME NEW u \in Users, Client(u) \/ Session(u) PROVE SilenceInv'
  <2>1. u \in Procs \ {Server}
    BY ProcsAssumption DEF Procs
  <2>2. CASE Client(u)
    BY <2>1, <2>2, JoinPlain, OfferPlain, LeavePlain, PlainStep, SilenceStutters DEF Client
  <2>3. CASE Session(u)
    BY <2>1, <2>3, EnsuringStep, ActivatingStep, OfferingStep, ForwardingStep, ClosingStep,
       DonePlain, PlainStep
    DEF Session
  <2>4. QED  BY <1>1, <2>2, <2>3
<1>2. ASSUME NEW s \in Tracks, OnTrack(s) \/ Publishing(s) \/ Forwarding(s) \/ PumpEnds(s)
      PROVE  SilenceInv'
  <2>1. s \in Procs \ {Server}
    BY ProcsAssumption DEF Procs
  <2>2. QED
    BY <1>2, <2>1, OnTrackPlain, PublishingStep, ForwardingStep, PumpEndsPlain, PlainStep
<1>3. ASSUME NEW p \in Peers, Negotiating(p) \/ IceFails(p) \/ Closing(p) PROVE SilenceInv'
  <2>1. p \in Procs
    BY DEF Procs
  <2>2. QED  BY <1>3, <2>1, NegotiatingStep, IceFailsPlain, ClosingStep, PlainStep
<1>4. CASE End(Server) \/ Closing(Server)
  <2>1. Server \in Procs
    BY DEF Procs
  <2>2. QED  BY <1>4, <2>1, EndPlain, ClosingStep, PlainStep
<1>5. CASE UNCHANGED vars
  BY <1>5, SilenceStutters DEF vars, peerVars, lockVars, localVars, lockedState
<1>6. QED  BY <1>1, <1>2, <1>3, <1>4, <1>5 DEF Next

\* However sessions, tracks, failing connections and the shutdown interleave,
\* a closed peer has no leg and no published track: addForwarded and onTrack
\* look at closed and act under one hold of the lock close takes (sfu.go 283,
\* 329, 407).
THEOREM ClosedPeersStaySilent == Spec => []ClosedPeersAreSilent
<1>1. SilenceInv => ClosedPeersAreSilent
  BY DEF SilenceInv
<1>2. QED  BY <1>1, SilenceInit, SilenceNext, PTL DEF Spec
-----------------------------------------------------------------------------
(* No peer is lost.  An open peer is the one the room has for a participant,
   or in the hands of the goroutine that made it or is to close it; in the end
   of a call the room may forget peers, and then it is closed.             *)

Ensures == {"ensure", "look", "make", "store", "compare", "discard"}
Closes == {"close", "unleg", "caches"}

Open(p) == p[2] <= made[Owner(p)] /\ p \notin dead
InRoom(p) == Owner(p) \in present /\ peerOf[Owner(p)] = p

InHand(x, p) ==
  \/ pc[x] \in {"store", "compare"} /\ mine[x] = p
  \/ pc[x] \in {"discard", "close", "unleg"} /\ p \in victims[x]

\* Goroutine x is about to end the call: one participant was left.
Dooms(x) == pc[x] = "end" \/ (pc[x] \in Closes /\ caller[x] = "lonely")

RoomShape ==
  /\ present \subseteq Users
  /\ made \in [Users -> Nat]
  /\ peerOf = [u \in Users |-> peerOf[u]]
  /\ victims = [x \in Procs |-> victims[x]]

\* What a goroutine relies on where it is.
InPlace(x) ==
  /\ pc[x] \in Ensures => caller[x] \in {"targets", "offer"}
  /\ pc[x] \in {"look", "compare"} => roomLock = x
  /\ pc[x] \in {"store", "compare"} => Owner(mine[x]) = arg[x]
  /\ pc[x] = "compare" => arg[x] \in present
  /\ pc[x] = "discard" => \E q : victims[x] = {q}
  /\ pc[x] \in Closes /\ caller[x] = "empty" => closed
  /\ pc[x] = "caches" => caller[x] \in {"lonely", "empty"}

AllInPlace == \A x \in Procs : InPlace(x)

NothingLost ==
  \/ closed
  \/ \E x \in Procs : Dooms(x)
  \/ \A p \in Peers : Open(p) => InRoom(p) \/ \E x \in Procs : InHand(x, p)

\* The inductive invariant.
KeptInv == Shape /\ RoomShape /\ AllInPlace /\ NothingLost

\* A step of goroutine x leaves what is the others' alone.
Alone(x) ==
  \A y \in Procs \ {x} :
    /\ pc'[y] = pc[y] /\ caller'[y] = caller[y] /\ arg'[y] = arg[y]
    /\ mine'[y] = mine[y] /\ victims'[y] = victims[y]

\* The room lock is respected, and the room is changed only when it is free
\* or locked by x.
RespectsRoom(x) ==
  /\ closed => closed'
  /\ roomLock' = roomLock \/ roomLock \in {None, x}
  /\ present \subseteq present' \/ roomLock \in {None, x}

\* Peer p, if it stays open, does not get lost by the step of x.
Keeps(x, p) ==
  Open(p)' =>
    \/ InHand(x, p)' \/ InRoom(p)'
    \/ Open(p) /\ ~InRoom(p) /\ ~InHand(x, p)

LEMMA OthersInPlace ==
  ASSUME AllInPlace, NEW x \in Procs, Alone(x), RespectsRoom(x), InPlace(x)'
  PROVE  AllInPlace'
<1> SUFFICES ASSUME NEW y \in Procs, y # x PROVE InPlace(y)'
  BY DEF AllInPlace
<1>1. InPlace(y)
  BY DEF AllInPlace
<1>2. y # None
  BY ProcsAssumption
<1>3. /\ pc'[y] = pc[y] /\ caller'[y] = caller[y] /\ arg'[y] = arg[y]
      /\ mine'[y] = mine[y] /\ victims'[y] = victims[y]
  BY DEF Alone
<1>4. QED  BY <1>1, <1>2, <1>3 DEF InPlace, RespectsRoom

LEMMA OthersLoseNothing ==
  ASSUME NothingLost, NEW x \in Procs, Alone(x), RespectsRoom(x),
         Dooms(x) => Dooms(x)' \/ closed', \A p \in Peers : Keeps(x, p)
  PROVE  NothingLost'
<1>1. CASE closed
  BY <1>1 DEF NothingLost, RespectsRoom
<1>2. CASE \E y \in Procs : Dooms(y)
  <2>1. PICK y \in Procs : Dooms(y)
    BY <1>2
  <2>2. y # x => Dooms(y)'
    BY <2>1 DEF Dooms, Alone
  <2>3. QED  BY <2>1, <2>2 DEF NothingLost
<1>3. CASE \A p \in Peers : Open(p) => InRoom(p) \/ \E y \in Procs : InHand(y, p)
  <2>1. ASSUME NEW p \in Peers, Open(p)'
        PROVE  InRoom(p)' \/ \E y \in Procs : InHand(y, p)'
    <3>1. CASE InHand(x, p)' \/ InRoom(p)'
      BY <3>1
    <3>2. CASE Open(p) /\ ~InRoom(p) /\ ~InHand(x, p)
      <4>1. PICK y \in Procs : InHand(y, p)
        BY <1>3, <3>2
      <4>2. y # x
        BY <3>2, <4>1
      <4>3. InHand(y, p)'
        BY <4>1, <4>2 DEF InHand, Alone
      <4>4. QED  BY <4>3
    <3>3. QED  BY <2>1, <3>1, <3>2 DEF Keeps
  <2>2. QED  BY <2>1 DEF NothingLost
<1>4. QED  BY <1>1, <1>2, <1>3 DEF NothingLost

\* It is enough to look at the goroutine that moves.
LEMMA KeptByStep ==
  ASSUME KeptInv, NEW x \in Procs, Shape', RoomShape', Alone(x), RespectsRoom(x), InPlace(x)',
         Dooms(x) => Dooms(x)' \/ closed', \A p \in Peers : Keeps(x, p)
  PROVE  KeptInv'
BY OthersInPlace, OthersLoseNothing DEF KeptInv

\* Where a goroutine has to do with the peers of the room.
Delicate == {"look", "store", "compare", "discard", "close", "unleg", "caches", "end"}

\* A step of x that has not.
Bystands(x) ==
  /\ UNCHANGED <<closed, peerOf, made, dead, roomLock, victims>>
  /\ present \subseteq present' /\ present' \subseteq Users
  /\ pc[x] \notin Delicate /\ pc'[x] \notin Delicate
  /\ pc'[x] \in Ensures => caller'[x] \in {"targets", "offer"}

LEMMA BystanderKeeps ==
  ASSUME KeptInv, NEW x \in Procs, Shape', Alone(x), Bystands(x)
  PROVE  KeptInv'
<1>1. RoomShape'
  BY DEF KeptInv, RoomShape, Bystands
<1>2. RespectsRoom(x) /\ ~Dooms(x)
  BY DEF RespectsRoom, Bystands, Dooms, Delicate, Closes
<1>3. InPlace(x)'
  BY DEF InPlace, Bystands, Delicate, Closes
<1>4. ASSUME NEW p \in Peers PROVE Keeps(x, p)
  <2>1. ~InHand(x, p)
    BY DEF InHand, Bystands, Delicate
  <2>2. InRoom(p) => InRoom(p)'
    BY DEF InRoom, Bystands
  <2>3. Open(p)' => Open(p)
    BY DEF Open, Bystands
  <2>4. QED  BY <2>1, <2>2, <2>3 DEF Keeps
<1>5. QED  BY <1>1, <1>2, <1>3, <1>4, KeptByStep

LEMMA KeptStutters ==
  ASSUME KeptInv, Shape',
         UNCHANGED <<present, closed, peerOf, made, dead, roomLock, pc, caller, arg, mine, victims>>
  PROVE  KeptInv'
<1>1. RoomShape' /\ AllInPlace'
  BY DEF KeptInv, RoomShape, AllInPlace, InPlace
<1>2. NothingLost'
  BY DEF KeptInv, NothingLost, Dooms, Open, InRoom, InHand
<1>3. QED  BY <1>1, <1>2 DEF KeptInv

LEMMA KeptInit == Init => KeptInv
<1> SUFFICES ASSUME Init PROVE KeptInv
  OBVIOUS
<1>1. Shape
  BY SilenceInit DEF SilenceInv
<1>2. RoomShape
  BY DEF Init, RoomShape
<1>3. AllInPlace
  BY DEF Init, AllInPlace, InPlace, Ensures, Closes
<1>4. \A p \in Peers : ~Open(p)
  BY DEF Init, Open, Peers, Owner
<1>5. QED  BY <1>1, <1>2, <1>3, <1>4 DEF KeptInv, NothingLost
-----------------------------------------------------------------------------
LEMMA JoinBystands ==
  ASSUME Shape, RoomShape, NEW x \in Users, Join(x)
  PROVE  Alone(x) /\ Bystands(x)
BY DEF Shape, RoomShape, Alone, Bystands, Delicate, Ensures, Goto, At, Join, roomVars, peerVars, lockVars, localVars

LEMMA ActivateBystands ==
  ASSUME Shape, RoomShape, NEW x \in Procs, Activate(x)
  PROVE  Alone(x) /\ Bystands(x)
BY DEF Shape, RoomShape, Alone, Bystands, Delicate, Ensures, Goto, At, Activate, roomVars, peerVars, lockVars, localVars

LEMMA NextTargetBystands ==
  ASSUME Shape, RoomShape, NEW x \in Procs, NextTarget(x)
  PROVE  Alone(x) /\ Bystands(x)
BY DEF Shape, RoomShape, Alone, Bystands, Delicate, Ensures, Goto, At, NextTarget, roomVars, peerVars, lockVars, localVars

LEMMA OfferBystands ==
  ASSUME Shape, RoomShape, NEW x \in Procs, Offer(x)
  PROVE  Alone(x) /\ Bystands(x)
BY DEF Shape, RoomShape, Alone, Bystands, Delicate, Ensures, Goto, At, Offer, roomVars, peerVars, lockVars, localVars

LEMMA PeerForBystands ==
  ASSUME Shape, RoomShape, NEW x \in Procs, PeerFor(x)
  PROVE  Alone(x) /\ Bystands(x)
BY DEF Shape, RoomShape, Alone, Bystands, Delicate, Ensures, Goto, At, PeerFor, roomVars, peerVars, lockVars, localVars

LEMMA HandleOfferBystands ==
  ASSUME Shape, RoomShape, NEW x \in Procs, HandleOffer(x)
  PROVE  Alone(x) /\ Bystands(x)
BY DEF Shape, RoomShape, Alone, Bystands, Delicate, Ensures, Goto, At, HandleOffer, roomVars, peerVars, lockVars, localVars

LEMMA AnswerBystands ==
  ASSUME Shape, RoomShape, NEW x \in Procs, Answer(x)
  PROVE  Alone(x) /\ Bystands(x)
BY DEF Shape, RoomShape, Alone, Bystands, Delicate, Ensures, Goto, At, Answer, roomVars, peerVars, lockVars, localVars

LEMMA AttachBystands ==
  ASSUME Shape, RoomShape, NEW x \in Procs, Attach(x)
  PROVE  Alone(x) /\ Bystands(x)
BY DEF Shape, RoomShape, Alone, Bystands, Delicate, Ensures, Goto, At, Attach, roomVars, peerVars, lockVars, localVars

LEMMA AttachPairBystands ==
  ASSUME Shape, RoomShape, NEW x \in Procs, AttachPair(x)
  PROVE  Alone(x) /\ Bystands(x)
BY DEF Shape, RoomShape, Alone, Bystands, Delicate, Ensures, Goto, At, AttachPair, roomVars, peerVars, lockVars, localVars

LEMMA OnTrackBystands ==
  ASSUME Shape, RoomShape, NEW x \in Procs, OnTrack(x)
  PROVE  Alone(x) /\ Bystands(x)
BY DEF Shape, RoomShape, Alone, Bystands, Delicate, Ensures, Goto, At, OnTrack, roomVars, peerVars, lockVars, localVars

LEMMA PublishBystands ==
  ASSUME Shape, RoomShape, NEW x \in Procs, Publish(x)
  PROVE  Alone(x) /\ Bystands(x)
BY DEF Shape, RoomShape, Alone, Bystands, Delicate, Ensures, Goto, At, Publish, roomVars, peerVars, lockVars, localVars

LEMMA AttachPublisherBystands ==
  ASSUME Shape, RoomShape, NEW x \in Procs, AttachPublisher(x)
  PROVE  Alone(x) /\ Bystands(x)
BY DEF Shape, RoomShape, Alone, Bystands, Delicate, Ensures, Goto, At, AttachPublisher, roomVars, peerVars, lockVars, localVars

LEMMA FanoutBystands ==
  ASSUME Shape, RoomShape, NEW x \in Procs, Fanout(x)
  PROVE  Alone(x) /\ Bystands(x)
BY DEF Shape, RoomShape, Alone, Bystands, Delicate, Ensures, Goto, At, Fanout, roomVars, peerVars, lockVars, localVars

LEMMA ForwardBystands ==
  ASSUME Shape, RoomShape, NEW x \in Procs, Forward(x)
  PROVE  Alone(x) /\ Bystands(x)
BY DEF Shape, RoomShape, Alone, Bystands, Delicate, Ensures, Goto, At, Forward, Forwarded, roomVars, peerVars, lockVars, localVars

LEMMA LabelBystands ==
  ASSUME Shape, RoomShape, NEW x \in Procs, Label(x)
  PROVE  Alone(x) /\ Bystands(x)
BY DEF Shape, RoomShape, Alone, Bystands, Delicate, Ensures, Goto, At, Label, roomVars, peerVars, lockVars, localVars

LEMMA AddRouteBystands ==
  ASSUME Shape, RoomShape, NEW x \in Procs, AddRoute(x)
  PROVE  Alone(x) /\ Bystands(x)
BY DEF Shape, RoomShape, Alone, Bystands, Delicate, Ensures, Goto, At, AddRoute, Forwarded, roomVars, peerVars, lockVars, localVars

LEMMA PumpEndsBystands ==
  ASSUME Shape, RoomShape, NEW x \in Procs, PumpEnds(x)
  PROVE  Alone(x) /\ Bystands(x)
BY DEF Shape, RoomShape, Alone, Bystands, Delicate, Ensures, Goto, At, PumpEnds, roomVars, peerVars, lockVars, localVars

LEMMA DropPublishedBystands ==
  ASSUME Shape, RoomShape, NEW x \in Procs, DropPublished(x)
  PROVE  Alone(x) /\ Bystands(x)
BY DEF Shape, RoomShape, Alone, Bystands, Delicate, Ensures, Goto, At, DropPublished, roomVars, peerVars, lockVars, localVars

LEMMA DetachBystands ==
  ASSUME Shape, RoomShape, NEW x \in Procs, Detach(x)
  PROVE  Alone(x) /\ Bystands(x)
BY DEF Shape, RoomShape, Alone, Bystands, Delicate, Ensures, Goto, At, Detach, roomVars, peerVars, lockVars, localVars

LEMMA RemoveForwardedBystands ==
  ASSUME Shape, RoomShape, NEW x \in Procs, RemoveForwarded(x)
  PROVE  Alone(x) /\ Bystands(x)
BY DEF Shape, RoomShape, Alone, Bystands, Delicate, Ensures, Goto, At, RemoveForwarded, roomVars, peerVars, lockVars, localVars

LEMMA RemoveRouteBystands ==
  ASSUME Shape, RoomShape, NEW x \in Procs, RemoveRoute(x)
  PROVE  Alone(x) /\ Bystands(x)
BY DEF Shape, RoomShape, Alone, Bystands, Delicate, Ensures, Goto, At, RemoveRoute, roomVars, peerVars, lockVars, localVars

LEMMA ForgetKeyBystands ==
  ASSUME Shape, RoomShape, NEW x \in Procs, ForgetKey(x)
  PROVE  Alone(x) /\ Bystands(x)
BY DEF Shape, RoomShape, Alone, Bystands, Delicate, Ensures, Goto, At, ForgetKey, roomVars, peerVars, lockVars, localVars

LEMMA DoneBystands ==
  ASSUME Shape, RoomShape, NEW x \in Procs, Done(x)
  PROVE  Alone(x) /\ Bystands(x)
BY DEF Shape, RoomShape, Alone, Bystands, Delicate, Ensures, Goto, At, Done, roomVars, peerVars, lockVars, localVars

-----------------------------------------------------------------------------
(* The steps of those who have.                                            *)

\* The room and the peers stay as they are, and x keeps what it has in hand.
LEMMA KeepsInHand ==
  ASSUME NEW x, NEW p, UNCHANGED <<present, peerOf, made, dead>>,
         InHand(x, p) => InHand(x, p)'
  PROVE  Keeps(x, p)
BY DEF Keeps, Open, InRoom

LEMMA EnsureKeeps ==
  ASSUME KeptInv, Shape', NEW x \in Procs, Ensure(x)
  PROVE  KeptInv'
<1>1. /\ pc[x] = "ensure" /\ caller[x] \in {"targets", "offer"}
      /\ UNCHANGED <<present, closed, peerOf, made, dead, victims>>
  BY DEF KeptInv, AllInPlace, InPlace, Ensures, Ensure, At, roomVars, peerVars
<1>2. Alone(x)
  BY DEF KeptInv, Shape, RoomShape, Alone, Ensure, NotEnsured, Goto
<1>3. RoomShape' /\ RespectsRoom(x) /\ ~Dooms(x)
  BY <1>1 DEF KeptInv, RoomShape, RespectsRoom, Dooms, Closes, Ensure, RoomFree
<1>4. InPlace(x)'
  BY <1>1 DEF KeptInv, Shape, InPlace, Ensures, Closes, Ensure, NotEnsured, Goto
<1>5. \A p \in Peers : Keeps(x, p)
  BY <1>1, KeepsInHand DEF InHand
<1>6. QED  BY <1>2, <1>3, <1>4, <1>5, KeptByStep

LEMMA LookKeeps ==
  ASSUME KeptInv, Shape', NEW x \in Procs, Look(x)
  PROVE  KeptInv'
<1>1. /\ pc[x] = "look" /\ caller[x] \in {"targets", "offer"} /\ roomLock = x
      /\ UNCHANGED <<present, closed, peerOf, made, dead, victims>>
  BY DEF KeptInv, AllInPlace, InPlace, Ensures, Look, At, roomVars, peerVars
<1>2. Alone(x)
  BY DEF KeptInv, Shape, RoomShape, Alone, Look, Ensured, Goto
<1>3. RoomShape' /\ RespectsRoom(x) /\ ~Dooms(x)
  BY <1>1 DEF KeptInv, RoomShape, RespectsRoom, Dooms, Closes
<1>4. InPlace(x)'
  BY <1>1 DEF KeptInv, Shape, InPlace, Ensures, Closes, Look, Ensured, Goto
<1>5. \A p \in Peers : Keeps(x, p)
  BY <1>1, KeepsInHand DEF InHand
<1>6. QED  BY <1>2, <1>3, <1>4, <1>5, KeptByStep

\* The new peer is the only one that is open now and was not, and x has it.
LEMMA MakeKeeps ==
  ASSUME KeptInv, Shape', NEW x \in Procs, Make(x)
  PROVE  KeptInv'
<1> DEFINE v == arg[x]
<1>1. /\ pc[x] = "make" /\ caller[x] \in {"targets", "offer"}
      /\ UNCHANGED <<present, closed, peerOf, roomLock, dead, victims>>
  BY DEF KeptInv, AllInPlace, InPlace, Ensures, Make, At, roomVars, lockVars
<1>2. Alone(x)
  BY DEF KeptInv, Shape, RoomShape, Alone, Make, NotEnsured, Goto
<1>3. RoomShape' /\ RespectsRoom(x) /\ ~Dooms(x)
  <2>1. made' \in [Users -> Nat]
    BY DEF KeptInv, RoomShape, Make
  <2>2. QED  BY <1>1, <2>1 DEF KeptInv, RoomShape, RespectsRoom, Dooms, Closes
<1>4. InPlace(x)'
  <2>1. CASE Goto(x, "store") /\ mine' = [mine EXCEPT ![x] = NewPeer(v)] /\ UNCHANGED <<caller, arg>>
    BY <1>1, <2>1 DEF KeptInv, Shape, InPlace, Ensures, Closes, Goto, NewPeer, Owner
  <2>2. CASE NotEnsured(x)
    BY <1>1, <2>2 DEF KeptInv, Shape, InPlace, Ensures, Closes, NotEnsured, Goto
  <2>3. QED  BY <2>1, <2>2 DEF Make
<1>5. ASSUME NEW p \in Peers PROVE Keeps(x, p)
  <2>1. CASE /\ made' = [made EXCEPT ![v] = @ + 1] /\ Goto(x, "store")
             /\ mine' = [mine EXCEPT ![x] = NewPeer(v)]
    <3>1. made \in [Users -> Nat] /\ Owner(p) \in Users /\ p = <<p[1], p[2]>> /\ p[2] \in Nat
      BY DEF KeptInv, RoomShape, Peers, Owner
    <3>2. CASE p = NewPeer(v)
      <4>1. InHand(x, p)'
        BY <2>1, <3>2 DEF InHand, Goto, KeptInv, Shape
      <4>2. QED  BY <4>1 DEF Keeps
    <3>3. CASE p # NewPeer(v)
      <4>1. Owner(p) = v => p[2] # made[v] + 1
        BY <3>1, <3>3 DEF NewPeer, Owner
      <4>2. Open(p)' => Open(p)
        <5>1. CASE Owner(p) = v
          BY <1>1, <2>1, <3>1, <4>1, <5>1 DEF Open
        <5>2. CASE Owner(p) # v
          BY <1>1, <2>1, <3>1, <5>2 DEF Open
        <5>3. QED  BY <5>1, <5>2
      <4>3. ~InHand(x, p) /\ (InRoom(p) => InRoom(p)')
        BY <1>1 DEF InHand, InRoom
      <4>4. QED  BY <4>2, <4>3 DEF Keeps
    <3>4. QED  BY <3>2, <3>3
  <2>2. CASE UNCHANGED made
    BY <1>1, <2>2, KeepsInHand DEF InHand
  <2>3. QED  BY <2>1, <2>2 DEF Make
<1>6. QED  BY <1>2, <1>3, <1>4, <1>5, KeptByStep

\* The entry that is written was empty, or held a closed peer; so the peer
\* that x made takes nobody's place.
LEMMA Enters ==
  ASSUME KeptInv, NEW x \in Procs, pc[x] \in {"store", "compare"}, NEW p \in Peers,
         arg[x] \in present,
         peerOf[arg[x]] = None \/ peerOf[arg[x]] \in dead,
         peerOf' = [peerOf EXCEPT ![arg[x]] = mine[x]],
         UNCHANGED <<present, made, dead>>
  PROVE  Keeps(x, p)
<1>1. arg[x] \in Users /\ Owner(mine[x]) = arg[x] /\ \A u \in Users : peerOf'[u] = IF u = arg[x] THEN mine[x] ELSE peerOf[u]
  BY DEF KeptInv, RoomShape, AllInPlace, InPlace
<1>2. p # None
  BY ProcsAssumption DEF Procs
<1>3. CASE p = mine[x]
  BY <1>1, <1>3 DEF Keeps, InRoom
<1>4. CASE p # mine[x]
  <2>1. ~InHand(x, p)
    BY <1>4 DEF InHand
  <2>2. Open(p)' => Open(p)
    BY DEF Open
  <2>3. InRoom(p) /\ Open(p) => InRoom(p)'
    BY <1>1, <1>2 DEF InRoom, Open, KeptInv, RoomShape
  <2>4. QED  BY <2>1, <2>2, <2>3 DEF Keeps
<1>5. QED  BY <1>3, <1>4

LEMMA StoreKeeps ==
  ASSUME KeptInv, Shape', NEW x \in Procs, Store(x)
  PROVE  KeptInv'
<1> DEFINE v == arg[x]
<1>1. /\ pc[x] = "store" /\ caller[x] \in {"targets", "offer"} /\ RoomFree
      /\ Owner(mine[x]) = v
      /\ UNCHANGED <<present, closed, made, dead>>
  BY DEF KeptInv, AllInPlace, InPlace, Ensures, Store, At, peerVars
<1>2. Alone(x)
  BY DEF KeptInv, Shape, RoomShape, Alone, Store, Ensured, Goto
<1>3. RoomShape' /\ RespectsRoom(x) /\ ~Dooms(x)
  BY <1>1 DEF KeptInv, RoomShape, RespectsRoom, Dooms, Closes, Store, RoomFree
<1>4. CASE /\ Goto(x, "discard") /\ victims' = [victims EXCEPT ![x] = {mine[x]}]
           /\ UNCHANGED <<peerOf, caller>>
  <2>1. InPlace(x)'
    BY <1>1, <1>4 DEF KeptInv, Shape, RoomShape, InPlace, Ensures, Closes, Goto
  <2>2. \A p \in Peers : InHand(x, p) => InHand(x, p)'
    BY <1>1, <1>4 DEF KeptInv, Shape, RoomShape, InHand, Goto
  <2>3. QED  BY <1>1, <1>2, <1>3, <1>4, <2>1, <2>2, KeepsInHand, KeptByStep
<1>5. CASE /\ v \in present /\ ~Taken(v) /\ Ensured(x, mine[x])
           /\ peerOf' = [peerOf EXCEPT ![v] = mine[x]]
  <2>1. InPlace(x)'
    BY <1>1, <1>5 DEF KeptInv, Shape, InPlace, Ensures, Closes, Ensured, Goto
  <2>2. \A p \in Peers : Keeps(x, p)
    BY <1>1, <1>5, Enters DEF Taken
  <2>3. QED  BY <1>2, <1>3, <2>1, <2>2, KeptByStep
<1>6. CASE /\ v \in present /\ Goto(x, "compare") /\ roomLock' = x
           /\ UNCHANGED <<peerOf, caller, arg, mine>>
  <2>1. InPlace(x)'
    BY <1>1, <1>6 DEF KeptInv, Shape, InPlace, Ensures, Closes, Goto
  <2>2. \A p \in Peers : InHand(x, p) => InHand(x, p)'
    BY <1>1, <1>6 DEF KeptInv, Shape, InHand, Goto
  <2>3. QED  BY <1>1, <1>2, <1>3, <1>6, <2>1, <2>2, KeepsInHand, KeptByStep
<1>7. QED  BY <1>4, <1>5, <1>6 DEF Store

\* The user is still there, because the room has been locked since Store.
LEMMA CompareKeeps ==
  ASSUME KeptInv, Shape', NEW x \in Procs, Compare(x)
  PROVE  KeptInv'
<1> DEFINE v == arg[x]
<1>1. /\ pc[x] = "compare" /\ caller[x] \in {"targets", "offer"} /\ roomLock = x
      /\ v \in present
      /\ UNCHANGED <<present, closed, made, dead>>
  BY DEF KeptInv, AllInPlace, InPlace, Ensures, Compare, At, peerVars
<1>2. Alone(x)
  BY DEF KeptInv, Shape, RoomShape, Alone, Compare, Ensured, Goto
<1>3. RoomShape' /\ RespectsRoom(x) /\ ~Dooms(x)
  BY <1>1 DEF KeptInv, RoomShape, RespectsRoom, Dooms, Closes, Compare
<1>4. CASE /\ Goto(x, "discard") /\ victims' = [victims EXCEPT ![x] = {mine[x]}]
           /\ UNCHANGED <<peerOf, caller>>
  <2>1. InPlace(x)'
    BY <1>1, <1>4 DEF KeptInv, Shape, RoomShape, InPlace, Ensures, Closes, Goto
  <2>2. \A p \in Peers : InHand(x, p) => InHand(x, p)'
    BY <1>1, <1>4 DEF KeptInv, Shape, RoomShape, InHand, Goto
  <2>3. QED  BY <1>1, <1>2, <1>3, <1>4, <2>1, <2>2, KeepsInHand, KeptByStep
<1>5. CASE /\ peerOf[v] \in dead /\ Ensured(x, mine[x])
           /\ peerOf' = [peerOf EXCEPT ![v] = mine[x]]
  <2>1. InPlace(x)'
    BY <1>1, <1>5 DEF KeptInv, Shape, InPlace, Ensures, Closes, Ensured, Goto
  <2>2. \A p \in Peers : Keeps(x, p)
    BY <1>1, <1>5, Enters
  <2>3. QED  BY <1>2, <1>3, <2>1, <2>2, KeptByStep
<1>6. QED  BY <1>4, <1>5 DEF Compare

\* What x gives up is closed.
LEMMA DiscardKeeps ==
  ASSUME KeptInv, Shape', NEW x \in Procs, Discard(x)
  PROVE  KeptInv'
<1>1. /\ pc[x] = "discard" /\ caller[x] \in {"targets", "offer"}
      /\ victims' = [victims EXCEPT ![x] = {}]
      /\ UNCHANGED <<present, closed, peerOf, made, roomLock>>
  BY DEF KeptInv, AllInPlace, InPlace, Ensures, Discard, At, roomVars, lockVars
<1>2. PICK q : victims[x] = {q} /\ dead' = dead \union {q}
  BY <1>1 DEF KeptInv, AllInPlace, InPlace, Discard
<1>3. Alone(x)
  BY DEF KeptInv, Shape, RoomShape, Alone, Discard, Ensured, NotEnsured, Goto
<1>4. RoomShape' /\ RespectsRoom(x) /\ ~Dooms(x)
  BY <1>1 DEF KeptInv, RoomShape, RespectsRoom, Dooms, Closes
<1>5. InPlace(x)'
  <2>1. pc'[x] \in {"targets", "offer", "idle"}
    BY <1>1 DEF KeptInv, Shape, Discard, Ensured, NotEnsured, Goto
  <2>2. QED  BY <2>1 DEF InPlace, Ensures, Closes
<1>6. ASSUME NEW p \in Peers PROVE Keeps(x, p)
  <2>1. InHand(x, p) => p = q
    BY <1>1, <1>2 DEF InHand
  <2>2. Open(p)' => Open(p) /\ p # q
    BY <1>1, <1>2 DEF Open
  <2>3. InRoom(p) => InRoom(p)'
    BY <1>1 DEF InRoom
  <2>4. QED  BY <2>1, <2>2, <2>3 DEF Keeps
<1>7. QED  BY <1>3, <1>4, <1>5, <1>6, KeptByStep

\* Who leaves takes his peer with him, to close it.
LEMMA LeaveKeeps ==
  ASSUME KeptInv, Shape', NEW x \in Users, Leave(x)
  PROVE  KeptInv'
<1>0. x \in Procs
  BY DEF Procs
<1>1. /\ pc[x] = "idle" /\ RoomFree /\ ~closed /\ closed' = (present = {x})
      /\ present' = present \ {x} /\ peerOf' = [peerOf EXCEPT ![x] = None]
      /\ victims' = [victims EXCEPT ![x] = {peerOf[x]} \ {None}]
      /\ Goto(x, "close")
      /\ UNCHANGED <<made, dead, roomLock, arg, mine>>
  BY DEF Leave, CloseAll, At, peerVars, lockVars
<1>2. caller' = [caller EXCEPT ![x] = caller'[x]] /\ (caller'[x] = "empty" => closed')
  BY <1>0, <1>1 DEF KeptInv, Shape, Leave, CloseAll
<1>3. Alone(x)
  BY <1>1, <1>2 DEF KeptInv, Shape, RoomShape, Alone, Goto
<1>4. RoomShape' /\ RespectsRoom(x) /\ ~Dooms(x)
  BY <1>1 DEF KeptInv, RoomShape, RespectsRoom, RoomFree, Dooms, Closes
<1>5. InPlace(x)'
  BY <1>0, <1>1, <1>2 DEF KeptInv, Shape, InPlace, Ensures, Closes, Goto
<1>6. ASSUME NEW p \in Peers PROVE Keeps(x, p)
  <2>1. p # None /\ Owner(p) \in Users
    BY ProcsAssumption DEF Procs, Peers, Owner
  <2>2. CASE p = peerOf[x]
    <3>1. InHand(x, p)'
      BY <1>0, <1>1, <2>1, <2>2 DEF KeptInv, Shape, RoomShape, InHand, Goto
    <3>2. QED  BY <3>1 DEF Keeps
  <2>3. CASE p # peerOf[x]
    <3>1. InRoom(p) => InRoom(p)'
      BY <1>1, <2>1, <2>3 DEF KeptInv, RoomShape, InRoom
    <3>2. ~InHand(x, p) /\ (Open(p)' => Open(p))
      BY <1>1 DEF InHand, Open
    <3>3. QED  BY <3>1, <3>2 DEF Keeps
  <2>4. QED  BY <2>2, <2>3
<1>7. QED  BY <1>0, <1>3, <1>4, <1>5, <1>6, KeptByStep

LEMMA IceFailsKeeps ==
  ASSUME KeptInv, Shape', NEW x \in Peers, IceFails(x)
  PROVE  KeptInv'
<1>0. x \in Procs
  BY DEF Procs
<1>1. /\ pc[x] = "idle" /\ Goto(x, "close") /\ caller' = [caller EXCEPT ![x] = "stay"]
      /\ victims' = [victims EXCEPT ![x] = {x} \ {None}]
      /\ UNCHANGED <<present, closed, peerOf, made, dead, roomLock, arg, mine>>
  BY DEF IceFails, CloseAll, At, roomVars, peerVars, lockVars
<1>2. Alone(x)
  BY <1>1 DEF KeptInv, Shape, RoomShape, Alone, Goto
<1>3. RoomShape' /\ RespectsRoom(x) /\ ~Dooms(x)
  BY <1>1 DEF KeptInv, RoomShape, RespectsRoom, Dooms, Closes
<1>4. InPlace(x)'
  BY <1>0, <1>1 DEF KeptInv, Shape, InPlace, Ensures, Closes, Goto
<1>5. \A p \in Peers : Keeps(x, p)
  BY <1>1, KeepsInHand DEF InHand
<1>6. QED  BY <1>0, <1>2, <1>3, <1>4, <1>5, KeptByStep

\* A call that is over has nothing to lose.
LEMMA EndKeeps ==
  ASSUME KeptInv, Shape', NEW x \in Procs, End(x)
  PROVE  KeptInv'
<1>1. /\ RoomFree /\ pc[x] \in {"idle", "end"} /\ closed'
      /\ UNCHANGED <<made, roomLock, arg, mine>>
  BY DEF End, At, peerVars, lockVars
<1>2. Alone(x)
  BY <1>1 DEF KeptInv, Shape, RoomShape, Alone, End, CloseAll, Goto
<1>3. RoomShape' /\ RespectsRoom(x)
  BY <1>1 DEF KeptInv, RoomShape, RespectsRoom, RoomFree, End, CloseAll
<1>4. InPlace(x)'
  BY <1>1 DEF KeptInv, Shape, InPlace, Ensures, Closes, End, CloseAll, Goto
<1>5. AllInPlace'
  BY <1>2, <1>3, <1>4, OthersInPlace DEF KeptInv
<1>6. QED  BY <1>1, <1>3, <1>5 DEF KeptInv, NothingLost

LEMMA ClosePeerKeeps ==
  ASSUME KeptInv, Shape', NEW x \in Procs, ClosePeer(x)
  PROVE  KeptInv'
<1>1. /\ pc[x] = "close" /\ pc'[x] \in {"close", "unleg"}
      /\ UNCHANGED <<present, closed, peerOf, made, roomLock, caller, arg, mine>>
  BY DEF KeptInv, Shape, ClosePeer, At, Goto, roomVars, lockVars
<1>2. PICK q \in victims[x] :
        /\ victims' = [victims EXCEPT ![x] = @ \ {q}]
        /\ dead \subseteq dead' /\ q \in dead'
  BY DEF ClosePeer
<1>3. Alone(x)
  BY <1>1, <1>2 DEF KeptInv, Shape, RoomShape, Alone, ClosePeer, Goto
<1>4. RoomShape' /\ RespectsRoom(x) /\ (Dooms(x) => Dooms(x)')
  BY <1>1, <1>2 DEF KeptInv, RoomShape, RespectsRoom, Dooms, Closes
<1>5. InPlace(x)'
  BY <1>1 DEF KeptInv, AllInPlace, InPlace, Ensures, Closes
<1>6. ASSUME NEW p \in Peers PROVE Keeps(x, p)
  <2>1. InHand(x, p) => p = q \/ InHand(x, p)'
    BY <1>1, <1>2 DEF KeptInv, RoomShape, InHand
  <2>2. Open(p)' => Open(p) /\ p # q
    BY <1>1, <1>2 DEF Open
  <2>3. InRoom(p) => InRoom(p)'
    BY <1>1 DEF InRoom
  <2>4. QED  BY <2>1, <2>2, <2>3 DEF Keeps
<1>7. QED  BY <1>3, <1>4, <1>5, <1>6, KeptByStep

LEMMA RemoveLegKeeps ==
  ASSUME KeptInv, Shape', NEW x \in Procs, RemoveLeg(x)
  PROVE  KeptInv'
<1>1. /\ pc[x] = "unleg" /\ pc'[x] \in {"close", "unleg"}
      /\ UNCHANGED <<present, closed, peerOf, made, dead, roomLock, caller, arg, mine, victims>>
  BY DEF KeptInv, Shape, RemoveLeg, At, Goto, peerVars, lockVars
<1>2. Alone(x)
  BY <1>1 DEF KeptInv, Shape, Alone, RemoveLeg, Goto
<1>3. RoomShape' /\ RespectsRoom(x) /\ (Dooms(x) => Dooms(x)')
  BY <1>1 DEF KeptInv, RoomShape, RespectsRoom, Dooms, Closes
<1>4. InPlace(x)'
  BY <1>1 DEF KeptInv, AllInPlace, InPlace, Ensures, Closes
<1>5. \A p \in Peers : Keeps(x, p)
  BY <1>1, KeepsInHand DEF InHand
<1>6. QED  BY <1>2, <1>3, <1>4, <1>5, KeptByStep

LEMMA SweepKeeps ==
  ASSUME KeptInv, Shape', NEW x \in Procs, Sweep(x)
  PROVE  KeptInv'
<1>1. /\ pc[x] = "close" /\ victims[x] = {}
      /\ pc' = [pc EXCEPT ![x] = IF caller[x] \in {"lonely", "empty"} THEN "caches" ELSE "over"]
      /\ UNCHANGED <<present, closed, peerOf, made, dead, roomLock, caller, arg, mine, victims>>
  BY DEF Sweep, At, Goto, peerVars, lockVars, localVars
<1>2. Alone(x)
  BY <1>1 DEF KeptInv, Shape, Alone
<1>3. pc'[x] = IF caller[x] \in {"lonely", "empty"} THEN "caches" ELSE "over"
  BY <1>1 DEF KeptInv, Shape
<1>4. RoomShape' /\ RespectsRoom(x) /\ (Dooms(x) => Dooms(x)')
  BY <1>1, <1>3 DEF KeptInv, RoomShape, RespectsRoom, Dooms, Closes
<1>5. InPlace(x)'
  BY <1>1, <1>3 DEF KeptInv, AllInPlace, InPlace, Ensures, Closes
<1>6. \A p \in Peers : Keeps(x, p)
  BY <1>1, KeepsInHand DEF InHand
<1>7. QED  BY <1>2, <1>4, <1>5, <1>6, KeptByStep

\* dropPeerCaches forgets peers that nobody closes; but it is called when the
\* call is over, or about to be ended by its caller.
LEMMA DropPeerCachesKeeps ==
  ASSUME KeptInv, Shape', NEW x \in Procs, DropPeerCaches(x)
  PROVE  KeptInv'
<1>1. /\ pc[x] = "caches" /\ RoomFree
      /\ peerOf' = [u \in Users |-> None]
      /\ pc' = [pc EXCEPT ![x] = IF caller[x] = "lonely" THEN "end" ELSE "over"]
      /\ UNCHANGED <<present, closed, made, dead, roomLock, caller, arg, mine, victims>>
  BY DEF DropPeerCaches, At, Goto, peerVars, lockVars, localVars
<1>2. Alone(x)
  BY <1>1 DEF KeptInv, Shape, Alone
<1>3. pc'[x] = IF caller[x] = "lonely" THEN "end" ELSE "over"
  BY <1>1 DEF KeptInv, Shape
<1>4. RoomShape' /\ RespectsRoom(x)
  BY <1>1 DEF KeptInv, RoomShape, RespectsRoom
<1>5. InPlace(x)'
  BY <1>3 DEF InPlace, Ensures, Closes
<1>6. AllInPlace'
  BY <1>2, <1>4, <1>5, OthersInPlace DEF KeptInv
<1>7. caller[x] = "lonely" \/ closed
  BY <1>1 DEF KeptInv, AllInPlace, InPlace, Closes
<1>8. NothingLost'
  BY <1>1, <1>3, <1>7 DEF NothingLost, Dooms
<1>9. QED  BY <1>4, <1>6, <1>8 DEF KeptInv
-----------------------------------------------------------------------------
LEMMA KeptBySession ==
  ASSUME KeptInv, Shape', NEW u \in Users, Client(u) \/ Session(u)
  PROVE  KeptInv'
<1>1. u \in Procs
  BY DEF Procs
<1>2. Shape /\ RoomShape
  BY DEF KeptInv
<1>3. CASE Client(u)
  BY <1>1, <1>2, <1>3, JoinBystands, OfferBystands, LeaveKeeps, BystanderKeeps DEF Client
<1>4. CASE Ensuring(u)
  BY <1>1, <1>4, EnsureKeeps, LookKeeps, MakeKeeps, StoreKeeps, CompareKeeps, DiscardKeeps DEF Ensuring
<1>5. CASE Activating(u)
  BY <1>1, <1>2, <1>5, ActivateBystands, NextTargetBystands, AttachBystands, AttachPairBystands,
     BystanderKeeps
  DEF Activating
<1>6. CASE Offering(u)
  BY <1>1, <1>2, <1>6, PeerForBystands, HandleOfferBystands, AnswerBystands, BystanderKeeps DEF Offering
<1>7. CASE Forwarding(u)
  BY <1>1, <1>2, <1>7, ForwardBystands, LabelBystands, AddRouteBystands, BystanderKeeps DEF Forwarding
<1>8. CASE Closing(u)
  BY <1>1, <1>8, ClosePeerKeeps, RemoveLegKeeps, SweepKeeps, DropPeerCachesKeeps, EndKeeps DEF Closing
<1>9. CASE Done(u)
  BY <1>1, <1>2, <1>9, DoneBystands, BystanderKeeps
<1>10. QED  BY <1>3, <1>4, <1>5, <1>6, <1>7, <1>8, <1>9 DEF Session

LEMMA KeptByTrack ==
  ASSUME KeptInv, Shape', NEW s \in Tracks,
         OnTrack(s) \/ Publishing(s) \/ Forwarding(s) \/ PumpEnds(s)
  PROVE  KeptInv'
<1>1. s \in Procs
  BY DEF Procs
<1>2. Shape /\ RoomShape
  BY DEF KeptInv
<1>3. CASE OnTrack(s) \/ PumpEnds(s)
  BY <1>1, <1>2, <1>3, OnTrackBystands, PumpEndsBystands, BystanderKeeps
<1>4. CASE Forwarding(s)
  BY <1>1, <1>2, <1>4, ForwardBystands, LabelBystands, AddRouteBystands, BystanderKeeps DEF Forwarding
<1>5. CASE Publish(s) \/ AttachPublisher(s) \/ Fanout(s)
  BY <1>1, <1>2, <1>5, PublishBystands, AttachPublisherBystands, FanoutBystands, BystanderKeeps
<1>6. CASE Detaching(s)
  BY <1>1, <1>2, <1>6, DropPublishedBystands, DetachBystands, RemoveForwardedBystands,
     RemoveRouteBystands, ForgetKeyBystands, BystanderKeeps
  DEF Detaching
<1>7. QED  BY <1>3, <1>4, <1>5, <1>6 DEF Publishing

LEMMA KeptNext == KeptInv /\ Shape' /\ [Next]_vars => KeptInv'
<1> SUFFICES ASSUME KeptInv, Shape', [Next]_vars PROVE KeptInv'
  OBVIOUS
<1>1. ASSUME NEW p \in Peers, Negotiating(p) \/ IceFails(p) \/ Closing(p) PROVE KeptInv'
  <2>1. p \in Procs
    BY DEF Procs
  <2>2. CASE Negotiating(p)
    <3>1. UNCHANGED <<present, closed, peerOf, made, dead, roomLock, pc, caller, arg, mine, victims>>
      BY <2>2 DEF Negotiating, Negotiate, ServerOffer, roomVars, peerVars, localVars
    <3>2. QED  BY <3>1, KeptStutters
  <2>3. CASE IceFails(p)
    BY <2>3, IceFailsKeeps
  <2>4. CASE Closing(p)
    BY <2>1, <2>4, ClosePeerKeeps, RemoveLegKeeps, SweepKeeps, DropPeerCachesKeeps, EndKeeps DEF Closing
  <2>5. QED  BY <1>1, <2>2, <2>3, <2>4
<1>2. CASE End(Server) \/ Closing(Server)
  <2>1. Server \in Procs
    BY DEF Procs
  <2>2. QED
    BY <1>2, <2>1, ClosePeerKeeps, RemoveLegKeeps, SweepKeeps, DropPeerCachesKeeps, EndKeeps DEF Closing
<1>3. CASE UNCHANGED vars
  BY <1>3, KeptStutters DEF vars, roomVars, peerVars, lockVars, localVars
<1>4. QED  BY <1>1, <1>2, <1>3, KeptBySession, KeptByTrack DEF Next

\* However sessions make peers for a user, all at once or while he leaves,
\* and failures and the shutdown close them: when no goroutine is at work and
\* the call goes on, every open peer is the one the room has for a participant
\* (hub.go 552 and 574; Leave, End and dropPeerCaches).
THEOREM NoPeerIsLost == Spec => []NoLostPeer
<1>1. KeptInv => NoLostPeer
  <2> SUFFICES ASSUME KeptInv, Quiet, ~closed, NEW p \in Peers, p[2] <= made[Owner(p)], p \notin dead
               PROVE  Owner(p) \in present /\ peerOf[Owner(p)] = p
    BY DEF NoLostPeer
  <2>1. \A x \in Procs : ~Dooms(x) /\ ~InHand(x, p)
    BY DEF Quiet, Dooms, InHand, Closes
  <2>2. QED  BY <2>1 DEF KeptInv, NothingLost, Open, InRoom
<1>2. SilenceInv /\ [Next]_vars => SilenceInv' /\ Shape'
  BY SilenceNext DEF SilenceInv
<1>3. QED  BY <1>1, <1>2, SilenceInit, KeptInit, KeptNext, PTL DEF Spec
-----------------------------------------------------------------------------
(* Everyone hears.  The promise: whoever can hear a track has a leg of it, or
   a goroutine is on its way to add it.  A track is listed before its handler
   looks for peers, and a peer stored before its session looks for tracks, so
   that whichever comes last finds the other; and nobody who has looked turns
   away with the leg not added.  The rest of the invariant says what a first
   track and a first peer are safe from: what ends with another track, another
   peer or another user takes nothing of theirs along.                       *)

Made(p) == p[2] <= made[Owner(p)]
Legs == Peers \X Tracks \X Procs

\* Where a session, a track and the other goroutines may be.
Sessions == {"idle", "activate", "targets", "attach", "pairs", "forward", "label", "route",
             "peerFor", "offer", "answer", "end", "over"} \union Ensures \union Closes
Handlers == {"idle", "publish", "peers", "fanout", "forward", "label", "route", "pump"} \union Ended
Closers == {"idle", "end", "over"} \union Closes

Kinds ==
  /\ \A u \in Users : pc[u] \in Sessions
  /\ \A s \in Tracks : pc[s] \in Handlers
  /\ \A x \in Procs \ (Users \union Tracks) : pc[x] \in Closers

Forwards == {"forward", "label", "route"}
Offers == {"peerFor", "offer", "answer"}

\* What goroutine x has in its locals, where it uses them.
Carries(x) ==
  /\ pc[x] \in Forwards \union {"unroute"} => arg[x] \in Legs
  /\ pc[x] = "unroute" => Key(arg[x]) = Publisher(x)
  /\ pc[x] \in Ensures => arg[x] \in Users
  /\ pc[x] \in Offers \union {"store", "compare"} => mine[x] \in Peers
  /\ pc[x] = "discard" => mine[x] \in Peers \union {None}
  /\ pc[x] \in {"discard", "close", "unleg"} => victims[x] \subseteq Peers
  /\ pc[x] = "targets" \/ (pc[x] \in Ensures /\ caller[x] = "targets") => todo[x] \subseteq Users
  /\ x \in Users /\ pc[x] \in {"pairs"} \union Forwards => todo[x] \subseteq Peers \X Peers
  /\ x \in Tracks /\ pc[x] \in {"fanout"} \union Forwards => todo[x] \subseteq Peers
  /\ pc[x] = "remove" \/ pc[x] = "unroute" => todo[x] \subseteq Peers
CarriesAll == \A x \in Procs : Carries(x)

\* The room has peers of its participants only, and a closed one has none.
RoomTyped ==
  /\ todo = [x \in Procs |-> todo[x]]
  /\ \A u \in Users : peerOf[u] # None =>
       peerOf[u] \in Peers /\ Owner(peerOf[u]) = u /\ u \in present
  /\ closed => present = {}
  /\ \A x \in Procs : pc[x] \in {"look", "compare"} => peerOf[arg[x]] # None
  /\ remote \subseteq Peers

Typed == Shape /\ RoomShape /\ AllInPlace /\ RoomTyped /\ Kinds /\ CarriesAll

\* Where a track is the one its peer publishes.
Listed == {"peers", "fanout", "pump"} \union Forwards

\* A track of a peer starts when the ones before it have ended ...
InOrder ==
  \A p \in Peers : \A k \in 1..MaxTracks : \A j \in 1..(k - 1) :
    pc[<<p, k>>] # "idle" => pc[<<p, j>>] \in Ended

\* ... and from then until it ends its open peer publishes it.
TracksInv ==
  /\ \A s \in Tracks : pc[s] # "idle" => sfu
  /\ remote # {} => sfu
  /\ InOrder
  /\ \A p \in Peers : published[p] # None =>
       /\ published[p] \in Tracks /\ published[p][1] = p
       /\ pc[published[p]] \notin {"idle", "publish"}
  /\ \A s \in Tracks : pc[s] \in Listed /\ s[1] \notin dead => published[s[1]] = s

\* A peer that only the goroutine that made it has, or that is yet to be made.
Fresh(p) == ~Made(p) \/ \E x \in Procs : pc[x] \in {"store", "compare"} /\ mine[x] = p
Sees(x, p) ==
  \/ pc[x] \in Offers \union {"discard"} /\ mine[x] = p
  \/ pc[x] \in Forwards /\ arg[x][1] = p
  \/ x \in Tracks /\ pc[x] \in {"fanout"} \union Forwards /\ p \in todo[x]
  \/ x \in Users /\ pc[x] \in {"pairs"} \union Forwards /\ \E q \in Peers : <<p, q>> \in todo[x]
  \/ x \in Tracks /\ pc[x] # "idle" /\ x[1] = p
Seen(p) ==
  \/ \E u \in Users : peerOf[u] = p
  \/ p \in remote
  \/ forwarded[p] # {}
  \/ \E x \in Procs : Sees(x, p)

\* Nobody else has seen a fresh peer.
FreshInv ==
  /\ \A x \in Procs : pc[x] \in {"store", "compare"} => Made(mine[x])
  /\ \A x, y \in Procs :
       pc[x] \in {"store", "compare"} /\ pc[y] \in {"store", "compare"} /\ mine[x] = mine[y] => x = y
  /\ \A p \in Peers : Fresh(p) => ~Seen(p)

\* Session x is in Activate, and has yet to look for tracks.
Attaches(x) ==
  \/ pc[x] \in {"activate", "targets", "attach"}
  \/ pc[x] \in Ensures /\ caller[x] = "targets"

\* Who is in Activate is in the call, and who closes peers in it closes those
\* of a user who left, or one that failed.
KnowsEnd(x) ==
  /\ Attaches(x) => x \in present \/ closed
  /\ pc[x] = "discard" /\ caller[x] = "targets" /\ mine[x] = None /\ arg[x] = x => closed
  /\ pc[x] \in {"close", "unleg"} /\ caller[x] = "ended" => closed
  /\ x \in Users /\ pc[x] \in {"close", "unleg"} => caller[x] = "ended" \/ x \notin present
  /\ x \in Peers /\ pc[x] # "idle" => Made(x)
  /\ x \in Peers => pc[x] \notin {"caches", "end"}
  /\ x \in Peers /\ pc[x] \in {"close", "unleg"} =>
       caller[x] = "stay" /\ (x \in dead \/ x \in victims[x])
  /\ x = Server /\ pc[x] \in {"close", "unleg"} => caller[x] = "ended"
ClosersInv == \A x \in Procs : KnowsEnd(x)

\* A leg is of a track that has begun, and a peer has one of a key.
LegOk(leg) == leg \in Legs /\ pc[leg[2]] \notin {"idle", "publish"}
LegsInv ==
  /\ \A leg \in routes : LegOk(leg)
  /\ \A q \in Peers : \A leg \in forwarded[q] : LegOk(leg) /\ leg[1] = q
  /\ \A x \in Procs : pc[x] \in Forwards => LegOk(arg[x])
  /\ \A x \in Procs : pc[x] = "unleg" => \A leg \in todo[x] : leg \in Legs /\ leg[1] \in dead
  /\ \A q \in Peers : \A l, m \in forwarded[q] : Key(l) = Key(m) => l = m
  /\ \A x \in Procs : pc[x] = "label" => ~HasLeg(arg[x][1], arg[x][2])

\* A first track of a first peer that has not ended, and a first peer that is
\* open and the one of its user.
Plays(s) == pc[s] \in Listed /\ s[1] \notin dead /\ s[2] = 1 /\ made[Publisher(s)] = 1
HasPlace(p) == peerOf[Owner(p)] = p
Listens(q) == made[Owner(q)] = 1 /\ q \notin dead /\ HasPlace(q)

\* Between the two the routes are the legs, but for those about to be added.
InRoutes(leg) == leg \in routes \/ \E x \in Procs : pc[x] = "route" /\ arg[x] = leg
RoutesInv ==
  /\ \A leg \in Legs :
       InRoutes(leg) /\ Plays(leg[2]) /\ leg[1] \notin dead => leg \in forwarded[leg[1]]
  /\ \A q \in Peers : \A leg \in forwarded[q] :
       Listens(q) /\ Plays(leg[2]) /\ HasPlace(leg[2][1]) => InRoutes(leg)

\* The call goes on, and no activation was cut short.
GoesOn == ~closed /\ ~skipped /\ \A x \in Procs : ~Dooms(x)

\* Goroutine x has yet to make a peer for v.
Awaits(x, v) ==
  \/ pc[x] = "activate"
  \/ pc[x] = "targets" /\ v \in todo[x]
  \/ pc[x] \in Ensures /\ caller[x] = "targets" /\ v \in todo[x]
  \/ pc[x] \in {"ensure", "make", "store"} /\ caller[x] = "targets" /\ arg[x] = v

\* A participant without a peer is to get one from an activation.
AwaitInv ==
  GoesOn /\ sfu => \A v \in present : peerOf[v] = None => \E x \in Procs : Awaits(x, v)

\* Goroutine x is on its way to add a leg of track s to peer q.
Brings(x, q, s) ==
  \/ pc[x] \in {"forward", "label"} /\ arg[x][1] = q /\ Key(arg[x]) = Publisher(s)
  \/ x = s /\ pc[x] \in {"fanout"} \union Forwards /\ q \in todo[x]
  \/ x \in Users /\ pc[x] \in {"pairs"} \union Forwards /\ <<q, s[1]>> \in todo[x]
  \/ Attaches(x)

\* Peer q is to have track s.
Hears(q, s) ==
  Plays(s) /\ pc[s] # "peers" /\ HasPlace(s[1]) /\ Listens(q) /\ Owner(q) # Publisher(s)

\* The promise.
PromiseInv ==
  GoesOn => \A s \in Tracks : \A q \in Peers :
    Hears(q, s) => HasLeg(q, s) \/ \E x \in Procs : Brings(x, q, s)

\* The inductive invariant, beside KeptInv and LockInv.
HearInv ==
  /\ RoomTyped /\ Kinds /\ CarriesAll
  /\ TracksInv /\ FreshInv /\ ClosersInv /\ LegsInv /\ RoutesInv /\ AwaitInv /\ PromiseInv
-----------------------------------------------------------------------------
\* A step of x leaves what is the others' alone.
Solo(x) == Alone(x) /\ \A y \in Procs \ {x} : todo'[y] = todo[y]

LEMMA SoloEnsuring ==
  ASSUME Shape, RoomShape, RoomTyped, NEW x \in Procs, Ensuring(x)
  PROVE  Solo(x)
BY DEF Shape, RoomShape, RoomTyped, Solo, Alone, Ensuring, Ensure, Look, Make, Store, Compare,
       Discard, Ensured, NotEnsured, Goto, localVars

LEMMA SoloUser ==
  ASSUME Shape, RoomShape, RoomTyped,
         NEW x \in Procs, Activating(x) \/ Offering(x) \/ Done(x) \/ Client(x)
  PROVE  Solo(x)
BY DEF Shape, RoomShape, RoomTyped, Solo, Alone, Activating, Activate, NextTarget, Attach,
       AttachPair, Offering, PeerFor, HandleOffer, Answer, Done, Client, Join, Offer, Leave,
       CloseAll, Goto, localVars

LEMMA SoloForwarding ==
  ASSUME Shape, RoomShape, RoomTyped, NEW x \in Procs, Forwarding(x)
  PROVE  Solo(x)
BY DEF Shape, RoomShape, RoomTyped, Solo, Alone, Forwarding, Forward, Label, AddRoute, Forwarded,
       Goto, localVars

LEMMA SoloTrack ==
  ASSUME Shape, RoomShape, RoomTyped, NEW x \in Procs, Publishing(x) \/ OnTrack(x) \/ PumpEnds(x)
  PROVE  Solo(x)
BY DEF Shape, RoomShape, RoomTyped, Solo, Alone, Publishing, Publish, AttachPublisher, Fanout,
       Detaching, DropPublished, Detach, RemoveForwarded, RemoveRoute, ForgetKey, OnTrack,
       PumpEnds, Goto, localVars

LEMMA SoloClosing ==
  ASSUME Shape, RoomShape, RoomTyped, NEW x \in Procs, Closing(x) \/ IceFails(x) \/ End(x)
  PROVE  Solo(x)
BY DEF Shape, RoomShape, RoomTyped, Solo, Alone, Closing, ClosePeer, RemoveLeg, Sweep,
       DropPeerCaches, End, IceFails, CloseAll, Goto, localVars
-----------------------------------------------------------------------------
\* Goroutines of different kinds are different, and none of them is None.
LEMMA Apart ==
  /\ Users \subseteq Procs /\ Tracks \subseteq Procs /\ Peers \subseteq Procs /\ Server \in Procs
  /\ Users \intersect Tracks = {} /\ Users \intersect Peers = {} 
  /\ Server \notin Users /\ Server \notin Tracks /\ Server \notin Peers
  /\ None \notin Users /\ None \notin Tracks /\ None \notin Peers
BY ProcsAssumption DEF Procs

LEMMA TracksNotPeers == Tracks \intersect Peers = {}
BY ProcsAssumption DEF Tracks, Peers

LEMMA EnsuringTyped ==
  ASSUME Typed, NEW x \in Users, Ensuring(x)
  PROVE  pc'[x] \in Sessions /\ Carries(x)'
<1>1. x \in Procs /\ x \notin Tracks
  BY Apart
<1>2. CASE Ensure(x)
  BY <1>1, <1>2
  DEF Typed, Shape, RoomShape, RoomTyped, AllInPlace, InPlace, CarriesAll, Carries, Sessions,
      Ensures, Forwards, Offers, At, Goto, Ensure, NotEnsured
<1>3. CASE Look(x)
  BY <1>1, <1>3
  DEF Typed, Shape, RoomShape, RoomTyped, AllInPlace, InPlace, CarriesAll, Carries, Sessions,
      Ensures, Forwards, Offers, At, Goto, Look, Ensured
<1>4. CASE Make(x)
  <2>1. made[arg[x]] < MaxPeers => NewPeer(arg[x]) \in Peers
    BY <1>1, <1>4, MediaAssumption
    DEF Typed, RoomShape, CarriesAll, Carries, Ensures, NewPeer, Peers, Make, At
  <2>2. QED
    BY <1>1, <1>4, <2>1
    DEF Typed, Shape, RoomShape, RoomTyped, AllInPlace, InPlace, CarriesAll, Carries, Sessions,
        Ensures, Forwards, Offers, At, Goto, Make, NotEnsured
<1>5. CASE Store(x)
  BY <1>1, <1>5
  DEF Typed, Shape, RoomShape, RoomTyped, AllInPlace, InPlace, CarriesAll, Carries, Sessions,
      Ensures, Forwards, Offers, At, Goto, Store, Ensured
<1>6. CASE Compare(x)
  BY <1>1, <1>6
  DEF Typed, Shape, RoomShape, RoomTyped, AllInPlace, InPlace, CarriesAll, Carries, Sessions,
      Ensures, Forwards, Offers, At, Goto, Compare, Ensured
<1>7. CASE Discard(x)
  BY <1>1, <1>7
  DEF Typed, Shape, RoomShape, RoomTyped, AllInPlace, InPlace, CarriesAll, Carries, Sessions,
      Ensures, Forwards, Offers, At, Goto, Discard, Ensured, NotEnsured
<1>8. QED  BY <1>2, <1>3, <1>4, <1>5, <1>6, <1>7 DEF Ensuring

LEMMA UserTyped ==
  ASSUME Typed,
         NEW x \in Users,
         Activate(x) \/ NextTarget(x) \/ Offering(x) \/ Done(x) \/ Join(x) \/ Offer(x) \/ Leave(x)
  PROVE  pc'[x] \in Sessions /\ Carries(x)'
<1>1. x \in Procs /\ x \notin Tracks
  BY Apart
<1> QED
  BY <1>1
DEF Typed, Shape, RoomShape, RoomTyped, CarriesAll, Carries, Sessions, Ensures, Closes, Forwards,
    Offers, At, Goto, Activate, NextTarget, Offering, PeerFor, HandleOffer, Answer, Done, Join,
    Offer, Leave, CloseAll, localVars

LEMMA AttachingTyped ==
  ASSUME Typed, TracksInv, NEW x \in Users, Attach(x) \/ AttachPair(x)
  PROVE  pc'[x] \in Sessions /\ Carries(x)'
<1>1. x \in Procs /\ x \notin Tracks
  BY Apart
<1>2. CASE Attach(x)
 BY <1>1, <1>2
 DEF Typed, Shape, RoomShape, RoomTyped, CarriesAll, Carries, Sessions, Ensures, Closes, Forwards,
     Offers, At, Goto, Attach, Live, localVars
<1>3. CASE AttachPair(x)
  <2>1. /\ todo[x] \subseteq Peers \X Peers /\ todo' = [todo EXCEPT ![x] = todo'[x]]
        /\ todo'[x] \subseteq todo[x]
    BY <1>1, <1>3 DEF Typed, RoomTyped, CarriesAll, Carries, AttachPair, At
  <2>2. CASE Goto(x, "forward") /\ arg' = [arg EXCEPT ![x] = arg'[x]] /\ arg'[x] \in Legs
    BY <1>1, <1>3, <2>1, <2>2
    DEF Typed, Shape, Carries, Sessions, Ensures, Closes, Forwards, Offers, Goto
  <2>3. CASE UNCHANGED <<pc, arg>>
    BY <1>1, <1>3, <2>1, <2>3
    DEF Typed, Shape, Carries, Sessions, Ensures, Closes, Forwards, Offers, AttachPair, At
  <2>4. CASE Goto(x, "idle") /\ UNCHANGED arg
    BY <1>1, <1>3, <2>4
    DEF Typed, Shape, Carries, Sessions, Ensures, Closes, Forwards, Offers, Goto
  <2>5. ASSUME NEW pair \in todo[x], published[pair[2]] # None,
               arg' = [arg EXCEPT ![x] = Leg(pair[1], published[pair[2]], x)]
        PROVE  arg' = [arg EXCEPT ![x] = arg'[x]] /\ arg'[x] \in Legs
    BY <1>1, <2>1, <2>5 DEF Typed, Shape, TracksInv, Leg, Legs
  <2>6. QED  BY <1>3, <2>2, <2>3, <2>4, <2>5 DEF AttachPair
<1> QED  BY <1>2, <1>3

LEMMA ForwardingTyped ==
  ASSUME Typed, NEW x \in Procs, Forwarding(x)
  PROVE  (x \in Users => pc'[x] \in Sessions) /\ (x \in Tracks => pc'[x] \in Handlers) /\ Carries(x)'
<1>1. x \in Users => x \notin Tracks
  BY Apart
<1> QED
  BY <1>1
DEF Typed, Shape, RoomShape, RoomTyped, CarriesAll, Carries, Sessions, Handlers, Ensures, Closes,
    Forwards, Offers, At, Goto, Forwarding, Forward, Label, AddRoute, Forwarded, localVars

LEMMA TrackTyped ==
  ASSUME Typed, LegsInv, NEW x \in Tracks, Publishing(x) \/ OnTrack(x) \/ PumpEnds(x)
  PROVE  pc'[x] \in Handlers /\ Carries(x)'
<1>1. x \in Procs /\ x \notin Users
  BY Apart
<1>2. CASE RemoveForwarded(x)
  <2>1. pc[x] = "remove" /\ todo[x] \subseteq Peers /\ UNCHANGED <<caller, mine>>
    BY <1>1, <1>2 DEF Typed, CarriesAll, Carries, RemoveForwarded, At
  <2>2. todo' = [todo EXCEPT ![x] = todo'[x]] /\ todo'[x] \subseteq Peers
    BY <1>1, <1>2, <2>1 DEF Typed, RoomTyped, RemoveForwarded
  <2>3. CASE UNCHANGED <<pc, arg>>
    BY <1>1, <2>1, <2>2, <2>3 DEF Carries, Handlers, Ended, Ensures, Forwards, Offers
  <2>4. ASSUME NEW q \in todo[x], NEW leg \in forwarded[q], Key(leg) = Publisher(x),
               arg' = [arg EXCEPT ![x] = leg], Goto(x, "unroute")
        PROVE  pc'[x] \in Handlers /\ Carries(x)'
    <3>1. leg \in Legs
      BY <2>1, <2>4 DEF LegsInv, LegOk
    <3>2. arg'[x] = leg /\ pc'[x] = "unroute"
      BY <1>1, <2>4 DEF Typed, Shape, Goto
    <3>3. QED
      BY <1>1, <2>1, <2>2, <2>4, <3>1, <3>2
      DEF Carries, Handlers, Ended, Ensures, Forwards, Offers, Key, Publisher, Owner
  <2>5. QED  BY <1>2, <2>3, <2>4 DEF RemoveForwarded
<1>3. CASE AttachPublisher(x) \/ Fanout(x) \/ Detach(x)
  BY <1>1, <1>3
  DEF LegsInv, LegOk, Typed, Shape, RoomShape, RoomTyped, CarriesAll, Carries, Handlers, Ended,
      Ensures, Forwards, Offers, At, Goto, AttachPublisher, Fanout, Detach, Live, Leg, Legs,
      localVars
<1>4. CASE \/ OnTrack(x)
           \/ PumpEnds(x)
           \/ Publish(x)
           \/ DropPublished(x)
           \/ RemoveRoute(x)
           \/ ForgetKey(x)
  BY <1>1, <1>4
  DEF LegsInv, LegOk, Typed, Shape, RoomShape, RoomTyped, CarriesAll, Carries, Handlers, Ended,
      Ensures, Forwards, Offers, At, Goto, OnTrack, PumpEnds, Publish, DropPublished, RemoveRoute,
      ForgetKey, localVars
<1> QED  BY <1>2, <1>3, <1>4 DEF Publishing, Detaching

LEMMA ClosingTyped ==
  ASSUME Typed, NEW x \in Procs, Closing(x) \/ IceFails(x) \/ (End(x) /\ x = Server)
  PROVE  pc'[x] \in Closers /\ Carries(x)'
<1>1. pc'[x] \in Closers /\ (pc'[x] \in {"close", "unleg"} => victims'[x] \subseteq Peers)
  <2>1. CASE ClosePeer(x) \/ RemoveLeg(x) \/ Sweep(x) \/ DropPeerCaches(x)
    BY <2>1
    DEF Typed, Shape, RoomShape, CarriesAll, Carries, Closers, Closes, At, Goto, ClosePeer,
        RemoveLeg, Sweep, DropPeerCaches, localVars
  <2>2. CASE IceFails(x)
    BY <2>2 DEF Typed, Shape, RoomShape, RoomTyped, Closers, Closes, Goto, IceFails, CloseAll
  <2>3. CASE End(x)
    BY <2>3 DEF Typed, Shape, RoomShape, RoomTyped, Closers, Closes, Goto, End, CloseAll, Live
  <2>4. QED  BY <2>1, <2>2, <2>3 DEF Closing
<1>2. QED  BY <1>1 DEF Closers, Closes, Ensures, Forwards, Offers, Carries
-----------------------------------------------------------------------------
\* The room is left alone, and x does not lock it.
LEMMA RoomStays ==
  ASSUME Typed, NEW x \in Procs, Solo(x), todo' = [y \in Procs |-> todo'[y]],
         UNCHANGED <<present, closed, peerOf>>, remote' \subseteq Peers,
         pc'[x] \in {"look", "compare"} => peerOf[arg'[x]] # None
  PROVE  RoomTyped'
BY DEF Typed, RoomTyped, Solo, Alone

LEMMA EnsuringRoom ==
  ASSUME Typed, NEW x \in Users, Ensuring(x)
  PROVE  RoomTyped'
<1>1. x \in Procs
  BY Apart
<1>2. Solo(x)
  BY <1>1, SoloEnsuring DEF Typed
<1>3. CASE Ensure(x) \/ Look(x) \/ Make(x) \/ Discard(x)
  <2>1. todo' = [y \in Procs |-> todo'[y]] /\ UNCHANGED <<present, closed, peerOf, remote>>
    BY <1>1, <1>3
    DEF Typed, RoomTyped, Ensure, Look, Make, Discard, Ensured, NotEnsured, roomVars, peerVars
  <2>2. pc'[x] \in {"look", "compare"} => peerOf[arg'[x]] # None
    BY <1>1, <1>3
    DEF Typed, Shape, AllInPlace, InPlace, Ensures, At, Goto, Ensure, Look, Make, Discard,
        Ensured, NotEnsured
  <2>3. QED  BY <1>1, <1>2, <2>1, <2>2, RoomStays DEF Typed, RoomTyped
<1>4. CASE Store(x) \/ Compare(x)
  <2>1. /\ todo' = [y \in Procs |-> todo'[y]] /\ UNCHANGED <<present, closed, remote>>
        /\ pc[x] \in {"store", "compare"}
    BY <1>1, <1>4 DEF Typed, RoomTyped, Store, Compare, Ensured, peerVars, At
  <2>2. CASE UNCHANGED peerOf
    <3>1. pc'[x] \in {"look", "compare"} => peerOf[arg'[x]] # None
      BY <1>1, <1>4, <2>2
      DEF Typed, Shape, AllInPlace, InPlace, Ensures, At, Goto, Store, Compare, Ensured, Taken
    <3>2. QED  BY <1>1, <1>2, <2>1, <2>2, <3>1, RoomStays DEF Typed, RoomTyped
  <2>3. CASE /\ peerOf' = [peerOf EXCEPT ![arg[x]] = mine[x]] /\ Ensured(x, mine[x])
             /\ arg[x] \in present
    <3>1. mine[x] \in Peers /\ Owner(mine[x]) = arg[x] /\ mine[x] # None
      BY <1>1, <2>1, Apart DEF Typed, CarriesAll, Carries, AllInPlace, InPlace
    <3>2. \A u \in Users : peerOf'[u] = IF u = arg[x] THEN mine[x] ELSE peerOf[u]
      BY <2>3 DEF Typed, RoomShape
    <3>3. pc'[x] \in {"targets", "offer"}
      BY <1>1, <2>1, <2>3 DEF Typed, Shape, AllInPlace, InPlace, Ensures, Ensured, Goto
    <3>4. ASSUME NEW y \in Procs, pc'[y] \in {"look", "compare"} PROVE peerOf'[arg'[y]] # None
      <4>1. y # x /\ pc[y] \in {"look", "compare"} /\ arg'[y] = arg[y]
        BY <1>2, <3>3, <3>4 DEF Solo, Alone
      <4>2. arg[y] \in Users /\ peerOf[arg[y]] # None
        BY <4>1 DEF Typed, RoomTyped, CarriesAll, Carries, Ensures
      <4>3. QED  BY <3>1, <3>2, <4>1, <4>2
    <3>5. QED  BY <2>1, <2>3, <3>1, <3>2, <3>4 DEF Typed, RoomTyped
  <2>4. QED  BY <1>1, <1>4, <2>2, <2>3 DEF Store, Compare, Typed, AllInPlace, InPlace, At
<1>5. QED  BY <1>3, <1>4 DEF Ensuring

LEMMA UserRoom ==
  ASSUME Typed, NEW x \in Users, Activating(x) \/ Offering(x) \/ Done(x) \/ Offer(x) \/ Join(x)
  PROVE  RoomTyped'
<1>1. x \in Procs
  BY Apart
<1>2. Solo(x)
  BY <1>1, SoloUser DEF Typed, Client
<1>3. CASE Activating(x) \/ Offering(x) \/ Done(x) \/ Offer(x)
  <2>1. todo' = [y \in Procs |-> todo'[y]] /\ UNCHANGED <<present, closed, peerOf>>
    BY <1>1, <1>3
    DEF Typed, RoomTyped, Activating, Activate, NextTarget, Attach, AttachPair, Offering, PeerFor,
        HandleOffer, Answer, Done, Offer, roomVars, localVars
  <2>2. pc'[x] \notin {"look", "compare"}
    BY <1>1, <1>3
    DEF Typed, Shape, At, Goto, Activating, Activate, NextTarget, Attach, AttachPair, Offering,
        PeerFor, HandleOffer, Answer, Done, Offer
  <2>3. remote' \subseteq Peers
    BY <1>1, <1>3
    DEF Typed, RoomTyped, CarriesAll, Carries, Offers, At, Activating, Activate, NextTarget,
        Attach, AttachPair, Offering, PeerFor, HandleOffer, Answer, Done, Offer, peerVars
  <2>4. QED  BY <1>1, <1>2, <2>1, <2>2, <2>3, RoomStays
<1>4. CASE Join(x)
  BY <1>1, <1>2, <1>4
  DEF Typed, Shape, RoomTyped, Solo, Alone, Join, Goto, At, peerVars, localVars
<1>5. QED  BY <1>3, <1>4

LEMMA ForwardingRoom ==
  ASSUME Typed, NEW x \in Procs, Forwarding(x)
  PROVE  RoomTyped'
<1>1. UNCHANGED <<present, closed, peerOf, remote, todo>> /\ Solo(x)
  BY SoloForwarding DEF Typed, Forwarding, Forward, Label, AddRoute, roomVars, peerVars, localVars
<1>2. pc'[x] \notin {"look", "compare"}
  BY DEF Typed, Shape, Forwarding, Forward, Label, AddRoute, Forwarded, Goto, At
<1>3. QED  BY <1>1, <1>2, RoomStays DEF Typed, RoomTyped

LEMMA TrackRoom ==
  ASSUME Typed, NEW x \in Tracks, Publishing(x) \/ OnTrack(x) \/ PumpEnds(x)
  PROVE  RoomTyped'
<1>0. x \in Procs
  BY Apart
<1>1. /\ UNCHANGED <<present, closed, peerOf, remote>> /\ Solo(x)
      /\ todo' = [y \in Procs |-> todo'[y]]
  BY <1>0, SoloTrack
  DEF Typed, RoomTyped, Publishing, Publish, AttachPublisher, Fanout, Detaching, DropPublished,
      Detach, RemoveForwarded, RemoveRoute, ForgetKey, OnTrack, PumpEnds, roomVars, peerVars,
      localVars
<1>2. pc'[x] \notin {"look", "compare"}
  BY <1>0
  DEF Typed, Shape, Publishing, Publish, AttachPublisher, Fanout, Detaching, DropPublished,
      Detach, RemoveForwarded, RemoveRoute, ForgetKey, OnTrack, PumpEnds, Goto, At
<1>3. QED  BY <1>0, <1>1, <1>2, RoomStays DEF Typed, RoomTyped

\* Peers are only taken out while nobody looks at them.
LEMMA RoomEmpties ==
  ASSUME Typed, NEW x \in Procs, Solo(x), RoomFree, pc'[x] \notin {"look", "compare"},
         UNCHANGED <<todo, remote>>,
         peerOf' = [u \in Users |-> peerOf'[u]],
         \A u \in Users : peerOf'[u] # None => peerOf'[u] = peerOf[u] /\ u \in present',
         closed' => present' = {}
  PROVE  RoomTyped'
<1>1. \A y \in Procs : pc[y] \notin {"look", "compare"}
  BY ProcsAssumption DEF Typed, AllInPlace, InPlace, RoomFree
<1>2. \A y \in Procs : pc'[y] \notin {"look", "compare"}
  BY <1>1 DEF Solo, Alone
<1>3. QED  BY <1>2 DEF Typed, RoomTyped

LEMMA ClosingRoom ==
  ASSUME Typed, NEW x \in Procs, Closing(x) \/ IceFails(x) \/ End(x) \/ (Leave(x) /\ x \in Users)
  PROVE  RoomTyped'
<1>1. Solo(x)
  BY SoloClosing, SoloUser DEF Typed, Client
<1>2. pc'[x] \notin {"look", "compare"}
  BY DEF Typed, Shape, Closing, ClosePeer, RemoveLeg, Sweep, DropPeerCaches, End, IceFails, Leave,
         CloseAll, Goto, At
<1>3. CASE ClosePeer(x) \/ RemoveLeg(x) \/ Sweep(x) \/ IceFails(x)
  <2>1. /\ UNCHANGED <<present, closed, peerOf>> /\ remote' \subseteq remote
        /\ todo' = [y \in Procs |-> todo'[y]]
    BY <1>3
    DEF Typed, RoomTyped, ClosePeer, RemoveLeg, Sweep, IceFails, roomVars, peerVars, localVars
  <2>2. QED  BY <1>1, <1>2, <2>1, RoomStays DEF Typed, RoomTyped
<1>4. CASE DropPeerCaches(x) \/ End(x) \/ (Leave(x) /\ x \in Users)
  <2>1. /\ RoomFree /\ UNCHANGED <<todo, remote>> /\ peerOf' = [u \in Users |-> peerOf'[u]]
        /\ closed' => present' = {}
        /\ \A u \in Users : peerOf'[u] # None => peerOf'[u] = peerOf[u] /\ u \in present'
    <3>1. CASE DropPeerCaches(x)
      BY <3>1 DEF Typed, RoomTyped, DropPeerCaches, peerVars, localVars
    <3>2. CASE End(x)
      BY <3>2 DEF Typed, RoomShape, RoomTyped, End, peerVars
    <3>3. CASE Leave(x) /\ x \in Users
      BY <3>3 DEF Typed, RoomShape, RoomTyped, Leave, peerVars
    <3>4. QED  BY <1>4, <3>1, <3>2, <3>3
  <2>2. QED  BY <1>1, <1>2, <2>1, RoomEmpties
<1>5. QED  BY <1>3, <1>4 DEF Closing
-----------------------------------------------------------------------------
\* No track moves, and only closed peers lose what they have published.
LEMMA TracksStay ==
  ASSUME TracksInv, \A s \in Tracks : pc'[s] = pc[s],
         \A p \in Peers : published'[p] = published[p] \/ (published'[p] = None /\ p \in dead'),
         dead \subseteq dead', sfu => sfu', remote' # {} => sfu'
  PROVE  TracksInv'
<1>1. \A p \in Peers : \A k \in 1..MaxTracks : <<p, k>> \in Tracks
  BY DEF Tracks
<1>2. \A p \in Peers : \A k \in 1..MaxTracks : \A j \in 1..(k - 1) : <<p, j>> \in Tracks
  BY MediaAssumption DEF Tracks
<1>3. \A s \in Tracks : s[1] \in Peers
  BY DEF Tracks
<1>4. QED  BY <1>1, <1>2, <1>3 DEF TracksInv, InOrder

\* The tracks of a peer follow each other.
LEMMA StaysInOrder ==
  ASSUME InOrder, NEW x \in Tracks, \A s \in Tracks \ {x} : pc'[s] = pc[s],
         pc[x] \in Ended => pc'[x] \in Ended,
         pc[x] # "idle" \/ \A k \in 1..(x[2] - 1) : pc[<<x[1], k>>] \in Ended
  PROVE  InOrder'
<1> SUFFICES ASSUME NEW p \in Peers, NEW k \in 1..MaxTracks, NEW j \in 1..(k - 1),
                    pc'[<<p, k>>] # "idle"
             PROVE  pc'[<<p, j>>] \in Ended
  BY DEF InOrder
<1>1. <<p, k>> \in Tracks /\ <<p, j>> \in Tracks
  BY MediaAssumption DEF Tracks
<1>2. pc[<<p, j>>] \in Ended
  BY <1>1 DEF InOrder
<1>3. QED  BY <1>1, <1>2

\* A track that is under way moves on.
LEMMA TrackMoves ==
  ASSUME TracksInv, NEW x \in Tracks, \A s \in Tracks \ {x} : pc'[s] = pc[s],
         pc[x] # "idle", pc'[x] \notin {"idle", "publish"},
         pc[x] \in Ended => pc'[x] \in Ended,
         UNCHANGED <<published, dead, sfu, remote>>,
         pc'[x] \in Listed => pc[x] \in Listed
  PROVE  TracksInv'
<1>3. InOrder'
  BY StaysInOrder DEF TracksInv
<1>4. \A s \in Tracks :
        /\ pc'[s] # "idle" => sfu'
        /\ pc'[s] \in Listed /\ s[1] \notin dead' => published'[s[1]] = s
  BY DEF TracksInv
<1>5. \A p \in Peers : published'[p] # None =>
       published'[p] \in Tracks /\ published'[p][1] = p /\ pc'[published'[p]] \notin {"idle", "publish"}
  BY DEF TracksInv
<1>6. QED  BY <1>3, <1>4, <1>5 DEF TracksInv

LEMMA OnTrackTracks ==
  ASSUME Typed, TracksInv, NEW x \in Tracks, OnTrack(x)
  PROVE  TracksInv'
<1>1. x \in Procs /\ x[1] \in Peers /\ x[2] \in 1..MaxTracks /\ x = <<x[1], x[2]>>
  BY Apart DEF Tracks
<1>2. /\ pc[x] = "idle" /\ \A s \in Tracks : pc'[s] = IF s = x THEN "publish" ELSE pc[s]
      /\ sfu /\ \A k \in 1..(x[2] - 1) : pc[<<x[1], k>>] \in Ended
      /\ UNCHANGED <<published, dead, sfu, remote>>
  BY <1>1, Apart DEF Typed, Shape, TracksInv, OnTrack, At, Goto, roomVars, peerVars
<1>3. InOrder'
  BY <1>1, <1>2, StaysInOrder DEF TracksInv, Ended
<1>4. \A s \in Tracks :
        /\ pc'[s] # "idle" => sfu'
        /\ pc'[s] \in Listed /\ s[1] \notin dead' => published'[s[1]] = s
  BY <1>2 DEF TracksInv, Listed, Forwards
<1>5. \A p \in Peers : published'[p] # None =>
       published'[p] \in Tracks /\ published'[p][1] = p /\ pc'[published'[p]] \notin {"idle", "publish"}
  BY <1>2 DEF TracksInv
<1>6. QED  BY <1>2, <1>3, <1>4, <1>5 DEF TracksInv

LEMMA PublishTracks ==
  ASSUME Typed, TracksInv, NEW x \in Tracks, Publish(x)
  PROVE  TracksInv'
<1>1. x \in Procs /\ x[1] \in Peers /\ x[2] \in 1..MaxTracks /\ x = <<x[1], x[2]>>
  BY Apart DEF Tracks
<1>2. /\ pc[x] = "publish" /\ \A s \in Tracks \ {x} : pc'[s] = pc[s]
      /\ pc'[x] \in {"over", "peers"} /\ UNCHANGED <<dead, sfu, remote>>
  BY <1>1, Apart DEF Typed, Shape, TracksInv, Publish, At, Goto, roomVars
<1>3. InOrder'
  BY <1>1, <1>2, StaysInOrder DEF TracksInv, Ended
<1>4. CASE x[1] \in dead /\ pc'[x] = "over" /\ UNCHANGED published
  <2>1. \A s \in Tracks :
          /\ pc'[s] # "idle" => sfu'
          /\ pc'[s] \in Listed /\ s[1] \notin dead' => published'[s[1]] = s
    BY <1>2, <1>4 DEF TracksInv, Listed, Forwards
  <2>2. \A p \in Peers : published'[p] # None =>
         published'[p] \in Tracks /\ published'[p][1] = p /\ pc'[published'[p]] \notin {"idle", "publish"}
    BY <1>2, <1>4 DEF TracksInv
  <2>3. QED  BY <1>2, <1>3, <2>1, <2>2 DEF TracksInv
<1>5. CASE x[1] \notin dead /\ pc'[x] = "peers" /\ published' = [published EXCEPT ![x[1]] = x]
  <2>0. \A p \in Peers : published'[p] = IF p = x[1] THEN x ELSE published[p]
    BY <1>5 DEF Typed, Shape
  <2>1. ASSUME NEW s \in Tracks, s # x, s[1] = x[1] PROVE pc[s] \notin Listed
    <3>1. s = <<s[1], s[2]>> /\ s[2] \in 1..MaxTracks
      BY DEF Tracks
    <3>2. s[2] \in 1..(x[2] - 1) \/ x[2] \in 1..(s[2] - 1)
      BY <1>1, <2>1, <3>1, MediaAssumption
    <3>3. x[2] \notin 1..(s[2] - 1) \/ pc[s] = "idle"
      BY <1>1, <1>2, <2>1, <3>1 DEF TracksInv, InOrder, Ended
    <3>4. s[2] \in 1..(x[2] - 1) => pc[s] \in Ended
      BY <1>1, <1>2, <2>1, <3>1 DEF TracksInv, InOrder
    <3>5. QED  BY <3>2, <3>3, <3>4 DEF Listed, Forwards, Ended
  <2>2. \A s \in Tracks :
          /\ pc'[s] # "idle" => sfu'
          /\ pc'[s] \in Listed /\ s[1] \notin dead' => published'[s[1]] = s
    <3> SUFFICES ASSUME NEW s \in Tracks
                 PROVE  /\ pc'[s] # "idle" => sfu'
                        /\ pc'[s] \in Listed /\ s[1] \notin dead' => published'[s[1]] = s
      OBVIOUS
    <3>1. s[1] \in Peers
      BY DEF Tracks
    <3>2. QED  BY <1>1, <1>2, <2>0, <2>1, <3>1 DEF TracksInv
  <2>3. \A p \in Peers : published'[p] # None =>
         published'[p] \in Tracks /\ published'[p][1] = p /\ pc'[published'[p]] \notin {"idle", "publish"}
    BY <1>2, <1>5, <2>0 DEF TracksInv
  <2>4. QED  BY <1>2, <1>3, <2>2, <2>3 DEF TracksInv
<1>6. QED
  BY <1>1, <1>4, <1>5 DEF Typed, Shape, Publish, Goto

LEMMA DropPublishedTracks ==
  ASSUME Typed, TracksInv, NEW x \in Tracks, DropPublished(x)
  PROVE  TracksInv'
<1>1. x \in Procs /\ x[1] \in Peers /\ \A s \in Tracks : s[1] \in Peers
  BY Apart DEF Tracks
<1>2. /\ pc[x] = "drop" /\ pc'[x] = "detach" /\ UNCHANGED <<dead, sfu, remote>>
      /\ \A s \in Tracks \ {x} : pc'[s] = pc[s]
      /\ \A p \in Peers : published'[p] = IF p = x[1] /\ published[p] = x THEN None ELSE published[p]
  BY <1>1, Apart DEF Typed, Shape, DropPublished, At, Goto, roomVars
<1>3. InOrder'
  BY <1>1, <1>2, StaysInOrder DEF TracksInv, Ended
<1>4. \A s \in Tracks :
        /\ pc'[s] # "idle" => sfu'
        /\ pc'[s] \in Listed /\ s[1] \notin dead' => published'[s[1]] = s
  BY <1>1, <1>2 DEF TracksInv, Listed, Forwards
<1>5. \A p \in Peers : published'[p] # None =>
       published'[p] \in Tracks /\ published'[p][1] = p /\ pc'[published'[p]] \notin {"idle", "publish"}
  BY <1>2 DEF TracksInv
<1>6. QED  BY <1>2, <1>3, <1>4, <1>5 DEF TracksInv
\* Only closed peers lose what they have published.
LEMMA NoTrackMoves ==
  ASSUME Typed, TracksInv, NEW x \in Procs \ Tracks, Solo(x),
         \A p \in Peers : published'[p] = published[p] \/ (published'[p] = None /\ p \in dead'),
         dead \subseteq dead', sfu => sfu', remote' # {} => sfu'
  PROVE  TracksInv'
BY Apart, TracksStay DEF Solo, Alone

LEMMA EnsuringTracks ==
  ASSUME Typed, TracksInv, NEW x \in Users, Ensuring(x)
  PROVE  TracksInv'
<1>1. x \in Procs \ Tracks /\ Solo(x)
  BY Apart, SoloEnsuring DEF Typed
<1>2. UNCHANGED <<sfu, remote>> /\ dead \subseteq dead'
  BY DEF Ensuring, Ensure, Look, Make, Store, Compare, Discard, roomVars, peerVars
<1>3. \A p \in Peers : published'[p] = published[p] \/ (published'[p] = None /\ p \in dead')
  BY DEF Typed, Shape, Ensuring, Ensure, Look, Make, Store, Compare, Discard, peerVars
<1>4. QED  BY <1>1, <1>2, <1>3, NoTrackMoves DEF TracksInv

LEMMA UserTracks ==
  ASSUME Typed, TracksInv, NEW x \in Users, Activating(x) \/ Offering(x) \/ Done(x) \/ Client(x)
  PROVE  TracksInv'
<1>1. x \in Procs \ Tracks /\ Solo(x)
  BY Apart, SoloUser DEF Typed
<1>2. UNCHANGED <<published, dead>> /\ (sfu => sfu') /\ (remote' # remote => sfu')
  <2>1. CASE Join(x)
    BY <2>1 DEF Join, peerVars
  <2>2. CASE HandleOffer(x)
    BY <2>2 DEF HandleOffer, roomVars
  <2>3. CASE Activating(x) \/ PeerFor(x) \/ Answer(x) \/ Done(x) \/ Offer(x) \/ Leave(x)
    BY <2>3
    DEF Activating, Activate, NextTarget, Attach, AttachPair, PeerFor, Answer, Done, Offer, Leave,
        roomVars, peerVars
  <2>4. QED  BY <2>1, <2>2, <2>3 DEF Offering, Client
<1>3. QED  BY <1>1, <1>2, NoTrackMoves DEF TracksInv

LEMMA ForwardingTracks ==
  ASSUME Typed, TracksInv, NEW x \in Procs, Forwarding(x)
  PROVE  TracksInv'
<1>1. Solo(x) /\ UNCHANGED <<published, dead, sfu, remote>>
  BY SoloForwarding DEF Typed, Forwarding, Forward, Label, AddRoute, roomVars, peerVars
<1>2. CASE x \in Tracks
  <2>1. pc[x] \in Forwards /\ pc'[x] \in Forwards \union {"fanout"}
    BY <1>2 DEF Typed, Shape, Forwarding, Forward, Label, AddRoute, Forwarded, Goto, At, Forwards
  <2>2. \A s \in Tracks \ {x} : pc'[s] = pc[s]
    BY <1>1, Apart DEF Solo, Alone
  <2>3. QED  BY <1>1, <1>2, <2>1, <2>2, TrackMoves DEF Forwards, Listed, Ended
<1>3. CASE x \notin Tracks
  BY <1>1, <1>3, NoTrackMoves DEF TracksInv
<1>4. QED  BY <1>2, <1>3

LEMMA TrackTracks ==
  ASSUME Typed, TracksInv, NEW x \in Tracks, Publishing(x) \/ OnTrack(x) \/ PumpEnds(x)
  PROVE  TracksInv'
<1>1. CASE \/ AttachPublisher(x)
           \/ Fanout(x)
           \/ PumpEnds(x)
           \/ Detach(x)
           \/ RemoveForwarded(x)
           \/ RemoveRoute(x)
           \/ ForgetKey(x)
  <2>1. x \in Procs /\ \A s \in Tracks \ {x} : pc'[s] = pc[s]
    BY <1>1, Apart, SoloTrack DEF Typed, Solo, Alone, Publishing, Detaching
  <2>2. UNCHANGED <<published, dead, sfu, remote>>
    BY <1>1
    DEF AttachPublisher, Fanout, PumpEnds, Detach, RemoveForwarded, RemoveRoute, ForgetKey,
        roomVars, peerVars
  <2>3. \/ pc[x] \in {"peers", "fanout"} /\ pc'[x] \in Listed
        \/ pc[x] \in {"pump"} \union Ended /\ pc'[x] \in Ended
    BY <1>1, <2>1
    DEF Typed, Shape, Listed, Forwards, Ended, At, Goto, AttachPublisher, Fanout, PumpEnds,
        Detach, RemoveForwarded, RemoveRoute, ForgetKey
  <2>4. QED  BY <2>1, <2>2, <2>3, TrackMoves DEF Listed, Forwards, Ended
<1>2. QED  BY <1>1, OnTrackTracks, PublishTracks, DropPublishedTracks DEF Publishing, Detaching

LEMMA ClosingTracks ==
  ASSUME Typed, TracksInv, NEW x \in Procs \ Tracks, Closing(x) \/ IceFails(x) \/ End(x)
  PROVE  TracksInv'
<1>1. Solo(x)
  BY SoloClosing DEF Typed
<1>2. UNCHANGED sfu /\ dead \subseteq dead' /\ remote' \subseteq remote
  BY DEF Closing, ClosePeer, RemoveLeg, Sweep, DropPeerCaches, End, IceFails, roomVars, peerVars
<1>3. \A p \in Peers : published'[p] = published[p] \/ (published'[p] = None /\ p \in dead')
  BY DEF Typed, Shape, Closing, ClosePeer, RemoveLeg, Sweep, DropPeerCaches, End, IceFails,
         peerVars
<1>4. QED  BY <1>1, <1>2, <1>3, NoTrackMoves DEF TracksInv
-----------------------------------------------------------------------------
\* What has been started stays started.
StaysStarted == \A s \in Tracks : pc[s] \notin {"idle", "publish"} => pc'[s] \notin {"idle", "publish"}

LEMMA LegStaysOk ==
  ASSUME StaysStarted, NEW leg, LegOk(leg)
  PROVE  LegOk(leg)'
<1>1. leg[2] \in Tracks
  BY DEF LegOk, Legs
<1>2. QED  BY <1>1 DEF LegOk, StaysStarted

\* Peers lose legs, and x minds its own.
LEMMA LegsStay ==
  ASSUME LegsInv, NEW x \in Procs, Solo(x), StaysStarted,
         dead \subseteq dead', \A leg \in routes' : leg \in routes \/ LegOk(leg),
         \A q \in Peers : forwarded'[q] \subseteq forwarded[q],
         pc'[x] \in Forwards => LegOk(arg'[x]),
         pc'[x] = "label" => arg'[x][1] \in Peers /\ ~HasLeg(arg'[x][1], arg'[x][2]),
         pc'[x] = "unleg" => \A leg \in todo'[x] : leg \in Legs /\ leg[1] \in dead'
  PROVE  LegsInv'
<1>1. \A leg \in routes' : LegOk(leg)'
  BY LegStaysOk DEF LegsInv
<1>2. ASSUME NEW q \in Peers, NEW leg \in forwarded'[q] PROVE LegOk(leg)' /\ leg[1] = q
  BY <1>2, LegStaysOk DEF LegsInv
<1>3. ASSUME NEW y \in Procs PROVE pc'[y] \in Forwards => LegOk(arg[y])'
  <2>1. pc'[y] \in Forwards => LegOk(arg'[y])
    BY DEF LegsInv, Solo, Alone
  <2>2. QED  BY <2>1 DEF LegOk, Legs, StaysStarted
<1>4. ASSUME NEW y \in Procs, pc'[y] = "unleg"
      PROVE  \A leg \in todo'[y] : leg \in Legs /\ leg[1] \in dead'
  BY <1>4 DEF LegsInv, Solo, Alone
<1>5. \A q \in Peers : \A l, m \in forwarded'[q] : Key(l) = Key(m) => l = m
  BY DEF LegsInv
<1>6. ASSUME NEW y \in Procs, pc'[y] = "label" PROVE ~HasLeg(arg[y][1], arg[y][2])'
  <2>1. ~HasLeg(arg'[y][1], arg'[y][2]) /\ arg'[y][1] \in Peers
    <3>1. CASE y = x
      BY <1>6, <3>1 DEF Forwards
    <3>2. CASE y # x
      <4>1. pc[y] = "label" /\ arg'[y] = arg[y]
        BY <1>6, <3>2 DEF Solo, Alone
      <4>2. QED  BY <4>1 DEF LegsInv, LegOk, Legs, Forwards
    <3>3. QED  BY <3>1, <3>2
  <2>2. QED  BY <2>1 DEF HasLeg
<1>7. QED  BY <1>1, <1>2, <1>3, <1>4, <1>5, <1>6 DEF LegsInv

\* The peer is locked while its new leg is labelled.
LEMMA LabelLegs ==
  ASSUME Typed, LockInv, LegsInv, NEW x \in Procs, Label(x)
  PROVE  LegsInv'
<1> DEFINE a == arg[x]
           q0 == a[1]
<1>1. /\ pc[x] = "label" /\ pc'[x] = "route" /\ UNCHANGED <<arg, todo, routes, dead>>
      /\ \A q \in Peers : forwarded'[q] = IF q = q0 THEN forwarded[q] \union {a} ELSE forwarded[q]
      /\ Solo(x)
  BY SoloForwarding DEF Typed, Shape, Label, At, Goto, Forwarding, roomVars, localVars
<1>2. LegOk(a) /\ q0 \in Peers /\ ~HasLeg(q0, a[2])
  BY <1>1 DEF LegsInv, Forwards, LegOk, Legs
<1>3. StaysStarted
  BY <1>1, Apart DEF StaysStarted, Solo, Alone
<1>4. \A leg \in routes' : LegOk(leg)'
  BY <1>1, <1>3, LegStaysOk DEF LegsInv
<1>5. ASSUME NEW q \in Peers, NEW leg \in forwarded'[q] PROVE LegOk(leg)' /\ leg[1] = q
  <2>1. LegOk(leg) /\ leg[1] = q
    <3>1. leg \in forwarded[q] \/ (leg = a /\ q = q0)
      BY <1>1, <1>5
    <3>2. leg \in forwarded[q] => LegOk(leg) /\ leg[1] = q
      BY DEF LegsInv
    <3>3. QED  BY <1>2, <3>1, <3>2
  <2>2. QED  BY <1>3, <2>1, LegStaysOk
<1>6. ASSUME NEW y \in Procs PROVE pc'[y] \in Forwards => LegOk(arg[y])'
  <2>1. pc'[y] \in Forwards => LegOk(arg'[y])
    BY <1>1, <1>2 DEF LegsInv, Solo, Alone
  <2>2. QED  BY <1>3, <2>1 DEF LegOk, Legs, StaysStarted
<1>7. ASSUME NEW y \in Procs, pc'[y] = "unleg"
      PROVE  \A leg \in todo'[y] : leg \in Legs /\ leg[1] \in dead'
  BY <1>1, <1>7 DEF LegsInv, Solo, Alone
<1>8. ASSUME NEW q \in Peers, NEW l \in forwarded'[q], NEW m \in forwarded'[q], Key(l) = Key(m)
      PROVE  l = m
  <2>1. ASSUME NEW k \in forwarded[q0] PROVE Key(k) # Key(a)
    BY <1>2, <2>1 DEF HasLeg, Key
  <2>2. CASE l \in forwarded[q] /\ m \in forwarded[q]
    BY <1>8, <2>2 DEF LegsInv
  <2>3. CASE q = q0 /\ (l = a \/ m = a)
    BY <1>1, <1>8, <2>1, <2>3
  <2>4. QED  BY <1>1, <2>2, <2>3
<1>9. ASSUME NEW y \in Procs, pc'[y] = "label" PROVE ~HasLeg(arg[y][1], arg[y][2])'
  <2>1. y # x /\ pc[y] = "label" /\ arg'[y] = arg[y]
    BY <1>1, <1>9 DEF Solo, Alone
  <2>2. arg[y][1] \in Peers /\ ~HasLeg(arg[y][1], arg[y][2])
    BY <2>1 DEF LegsInv, LegOk, Legs, Forwards
  <2>3. arg[y][1] # q0
    BY <1>1, <1>2, <2>1, <2>2 DEF LockInv, WorksOn, At
  <2>4. QED  BY <1>1, <2>1, <2>2, <2>3 DEF HasLeg
<1>10. QED  BY <1>4, <1>5, <1>6, <1>7, <1>8, <1>9 DEF LegsInv

LEMMA EnsuringLegs ==
  ASSUME Typed, LegsInv, NEW x \in Users, Ensuring(x)
  PROVE  LegsInv'
<1>1. x \in Procs /\ Solo(x) /\ StaysStarted
  BY Apart, SoloEnsuring DEF Typed, Solo, Alone, StaysStarted
<1>2. /\ UNCHANGED routes /\ dead \subseteq dead'
      /\ \A q \in Peers : forwarded'[q] \subseteq forwarded[q]
  BY DEF Typed, Shape, Ensuring, Ensure, Look, Make, Store, Compare, Discard, roomVars, peerVars
<1>3. pc'[x] \notin Forwards \union {"unleg"}
  BY <1>1
  DEF Typed, Shape, AllInPlace, InPlace, Ensures, Forwards, Ensuring, Ensure, Look, Make, Store,
      Compare, Discard, Ensured, NotEnsured, Goto, At
<1>4. QED  BY <1>1, <1>2, <1>3, LegsStay DEF Forwards

LEMMA UserLegs ==
  ASSUME Typed, TracksInv, LegsInv,
         NEW x \in Users, Activating(x) \/ Offering(x) \/ Done(x) \/ Client(x)
  PROVE  LegsInv'
<1>1. x \in Procs /\ Solo(x) /\ StaysStarted
  BY Apart, SoloUser DEF Typed, Solo, Alone, StaysStarted
<1>2. UNCHANGED <<routes, dead, forwarded>>
  BY DEF Activating, Activate, NextTarget, Attach, AttachPair, Offering, PeerFor, HandleOffer,
         Answer, Done, Client, Offer, Join, Leave, roomVars, peerVars
<1>3. pc'[x] \notin Forwards \union {"unleg"} \/ AttachPair(x)
  BY <1>1
  DEF Typed, Shape, Forwards, Goto, At, Activating, Activate, NextTarget, Attach, Offering,
      PeerFor, HandleOffer, Answer, Done, Client, Offer, Join, Leave, CloseAll
<1>4. AttachPair(x) /\ pc'[x] \in Forwards \union {"unleg"} => pc'[x] = "forward" /\ LegOk(arg'[x])
  <2> SUFFICES ASSUME AttachPair(x), pc'[x] \in Forwards \union {"unleg"}
               PROVE  pc'[x] = "forward" /\ LegOk(arg'[x])
    OBVIOUS
  <2>1. PICK pair \in todo[x] :
          /\ published[pair[2]] # None /\ Goto(x, "forward")
          /\ arg' = [arg EXCEPT ![x] = Leg(pair[1], published[pair[2]], x)]
    BY DEF AttachPair, Typed, Shape, Goto, At, Forwards
  <2>2. pair \in Peers \X Peers
    BY <1>1, <2>1 DEF Typed, CarriesAll, Carries, AttachPair, At
  <2>3. QED  BY <1>1, <2>1, <2>2 DEF TracksInv, LegOk, Leg, Legs, Typed, Shape, Goto
<1>5. QED  BY <1>1, <1>2, <1>3, <1>4, LegsStay DEF Forwards

LEMMA ForwardingLegs ==
  ASSUME Typed, LockInv, LegsInv, NEW x \in Procs, Forwarding(x)
  PROVE  LegsInv'
<1>1. CASE Forward(x) \/ AddRoute(x)
  <2>1. Solo(x) /\ pc[x] \in Forwards /\ pc'[x] \in {"fanout", "pairs", "label"}
    BY <1>1, SoloForwarding
    DEF Typed, Shape, Forwarding, Forward, AddRoute, Forwarded, Forwards, Goto, At
  <2>2. StaysStarted
    BY <2>1, Apart DEF StaysStarted, Solo, Alone
  <2>3. UNCHANGED <<dead, forwarded>> /\ \A leg \in routes' : leg \in routes \/ LegOk(leg)
    BY <1>1, <2>1 DEF LegsInv, Forward, AddRoute, roomVars, peerVars
  <2>4. pc'[x] = "label" => LegOk(arg'[x]) /\ arg'[x][1] \in Peers /\ ~HasLeg(arg'[x][1], arg'[x][2])
    BY <1>1, <2>1 DEF LegsInv, LegOk, Legs, Forward, AddRoute, Forwarded, Typed, Shape, Goto
  <2>5. QED  BY <2>1, <2>2, <2>3, <2>4, LegsStay DEF Forwards
<1>2. QED  BY <1>1, LabelLegs DEF Forwarding

LEMMA TrackLegs ==
  ASSUME Typed, LegsInv, NEW x \in Tracks, Publishing(x) \/ OnTrack(x) \/ PumpEnds(x)
  PROVE  LegsInv'
<1>1. x \in Procs /\ Solo(x)
  BY Apart, SoloTrack DEF Typed
<1>2. StaysStarted
  <2>1. pc[x] \notin {"idle", "publish"} => pc'[x] \notin {"idle", "publish"}
    BY <1>1
    DEF Typed, Shape, Publishing, Publish, AttachPublisher, Fanout, Detaching, DropPublished,
        Detach, RemoveForwarded, RemoveRoute, ForgetKey, OnTrack, PumpEnds, Goto, At
  <2>2. QED  BY <1>1, <2>1, Apart DEF Solo, Alone, StaysStarted
<1>3. /\ UNCHANGED dead /\ routes' \subseteq routes
      /\ \A q \in Peers : forwarded'[q] \subseteq forwarded[q]
  BY DEF Typed, Shape, Publishing, Publish, AttachPublisher, Fanout, Detaching, DropPublished,
         Detach, RemoveForwarded, RemoveRoute, ForgetKey, OnTrack, PumpEnds, roomVars, peerVars
<1>4. pc'[x] \notin Forwards \union {"unleg"} \/ (Fanout(x) /\ pc'[x] = "forward")
  BY <1>1
  DEF Typed, Shape, Forwards, Publishing, Publish, AttachPublisher, Fanout, Detaching,
      DropPublished, Detach, RemoveForwarded, RemoveRoute, ForgetKey, OnTrack, PumpEnds, Goto, At
<1>5. Fanout(x) /\ pc'[x] = "forward" => LegOk(arg'[x])
  BY <1>1 DEF Typed, Shape, CarriesAll, Carries, Fanout, LegOk, Leg, Legs, Goto, At
<1>6. QED  BY <1>1, <1>2, <1>3, <1>4, <1>5, LegsStay DEF Forwards

LEMMA ClosingLegs ==
  ASSUME Typed, LegsInv, NEW x \in Procs \ Tracks, Closing(x) \/ IceFails(x) \/ End(x)
  PROVE  LegsInv'
<1>1. Solo(x) /\ StaysStarted
  BY Apart, SoloClosing DEF Typed, Solo, Alone, StaysStarted
<1>2. /\ dead \subseteq dead' /\ routes' \subseteq routes
      /\ \A q \in Peers : forwarded'[q] \subseteq forwarded[q]
  BY DEF Typed, Shape, Closing, ClosePeer, RemoveLeg, Sweep, DropPeerCaches, End, IceFails,
         roomVars, peerVars
<1>3. pc'[x] \notin Forwards
  BY DEF Typed, Shape, Forwards, Closing, ClosePeer, RemoveLeg, Sweep, DropPeerCaches, End,
         IceFails, CloseAll, Goto, At
<1>4. ASSUME pc'[x] = "unleg" PROVE \A leg \in todo'[x] : leg \in Legs /\ leg[1] \in dead'
  <2>1. ClosePeer(x) \/ RemoveLeg(x)
    BY <1>4 DEF Typed, Shape, Closing, Sweep, DropPeerCaches, End, IceFails, CloseAll, Goto, At
  <2>2. CASE ClosePeer(x)
    <3>1. PICK p \in victims[x] :
            todo' = [todo EXCEPT ![x] = forwarded[p]] /\ dead' = dead \union {p}
      BY <1>4, <2>2 DEF ClosePeer, At
    <3>2. p \in Peers
      BY <2>2 DEF Typed, CarriesAll, Carries, ClosePeer, At
    <3>3. QED  BY <3>1, <3>2 DEF Typed, RoomTyped, LegsInv, LegOk
  <2>3. CASE RemoveLeg(x)
    BY <1>4, <2>3 DEF Typed, RoomTyped, LegsInv, RemoveLeg, At, peerVars
  <2>4. QED  BY <2>1, <2>2, <2>3
<1>5. QED  BY <1>1, <1>2, <1>3, <1>4, LegsStay DEF Forwards
-----------------------------------------------------------------------------
\* Goroutine x has made a peer and not yet given it away.
HasMade(x) == pc[x] \in {"store", "compare"}

\* What x sees after its step was seen before, but for the peer it gives away.
Reveals(x) ==
  \A p \in Peers :
    \/ HasMade(x) /\ ~HasMade(x)' /\ p = mine[x]
    \/ Seen(p)
    \/ /\ \A u \in Users : peerOf'[u] # p
       /\ p \notin remote' /\ forwarded'[p] = {} /\ ~Sees(x, p)'

LEMMA FreshStays ==
  ASSUME Typed, FreshInv, NEW x \in Procs, Solo(x), UNCHANGED made,
         HasMade(x)' => HasMade(x) /\ mine'[x] = mine[x], Reveals(x)
  PROVE  FreshInv'
<1>1. \A y \in Procs : HasMade(y)' => HasMade(y) /\ mine'[y] = mine[y]
  BY DEF Solo, Alone, HasMade
<1>2. \A y \in Procs : HasMade(y)' => Made(mine[y])'
  BY <1>1 DEF FreshInv, HasMade, Made
<1>3. \A y, z \in Procs : HasMade(y)' /\ HasMade(z)' /\ mine'[y] = mine'[z] => y = z
  BY <1>1 DEF FreshInv, HasMade
<1>4. ASSUME NEW p \in Peers, Fresh(p)' PROVE ~Seen(p)'
  <2>1. ~Made(p) \/ \E y \in Procs : HasMade(y)' /\ HasMade(y) /\ mine[y] = p
    BY <1>1, <1>4 DEF Fresh, HasMade, Made
  <2>2. ~Seen(p)
    BY <2>1 DEF Fresh, HasMade, FreshInv
  <2>3. ~(HasMade(x) /\ ~HasMade(x)' /\ p = mine[x])
    BY <2>1 DEF FreshInv, HasMade
  <2>4. \A y \in Procs \ {x} : Sees(y, p)' => Sees(y, p)
    BY DEF Solo, Alone, Sees
  <2>5. QED  BY <2>2, <2>3, <2>4 DEF Reveals, Seen
<1>5. QED  BY <1>2, <1>3, <1>4 DEF FreshInv, HasMade

LEMMA MakeFresh ==
  ASSUME Typed, FreshInv, NEW x \in Users, Make(x)
  PROVE  FreshInv'
<1> DEFINE v == arg[x]
<1>1. x \in Procs /\ x \notin Tracks /\ Solo(x) /\ v \in Users /\ pc[x] = "make"
  BY Apart, SoloEnsuring DEF Typed, Ensuring, CarriesAll, Carries, Make, At, Ensures
<1>2. CASE made[v] = MaxPeers /\ NotEnsured(x) /\ UNCHANGED made
  <2>1. pc'[x] \in {"targets", "idle"}
    BY <1>1, <1>2 DEF NotEnsured, Goto, Typed, Shape
  <2>2. UNCHANGED <<peerOf, remote, forwarded>>
    BY DEF Make, roomVars
  <2>3. Reveals(x)
    BY <1>1, <2>1, <2>2 DEF Reveals, Seen, Sees, Offers, Forwards
  <2>4. QED  BY <1>1, <1>2, <2>1, <2>3, FreshStays DEF HasMade
<1>3. CASE /\ made[v] < MaxPeers /\ Goto(x, "store")
           /\ made' = [made EXCEPT ![v] = @ + 1] /\ mine' = [mine EXCEPT ![x] = NewPeer(v)]
  <2>0. made[v] \in Nat /\ made'[v] = made[v] + 1 /\ mine'[x] = NewPeer(v) /\ pc'[x] = "store"
    BY <1>1, <1>3 DEF Typed, Shape, RoomShape, Goto
  <2>9. PICK new \in Peers : new = NewPeer(v)
    BY <1>1, <1>3, <2>0, MediaAssumption DEF NewPeer, Peers
  <2>1. ~Made(new) /\ Made(new)' /\ mine'[x] = new
    BY <2>0, <2>9 DEF NewPeer, Made, Owner
  <2>2. \A p \in Peers : Made(p) => Made(p)'
    BY <1>1, <1>3 DEF Typed, RoomShape, Peers, Made, Owner
  <2>3. ASSUME NEW y \in Procs, y # x, HasMade(y)'
        PROVE  HasMade(y) /\ mine'[y] = mine[y] /\ mine[y] \in Peers /\ Made(mine[y])
    BY <1>1, <2>3 DEF Solo, Alone, HasMade, FreshInv, Typed, CarriesAll, Carries
  <2>4. ASSUME NEW y \in Procs, HasMade(y)' PROVE Made(mine[y])'
    <3>1. CASE y = x
      BY <2>1, <3>1 DEF Made
    <3>2. CASE y # x
      BY <2>2, <2>3, <2>4, <3>2 DEF Made
    <3>3. QED  BY <3>1, <3>2
  <2>5. ASSUME NEW y \in Procs, NEW z \in Procs, HasMade(y)', HasMade(z)', mine'[y] = mine'[z]
        PROVE  y = z
    BY <2>1, <2>3, <2>5 DEF FreshInv, HasMade
  <2>6. ASSUME NEW p \in Peers, Fresh(p)' PROVE ~Seen(p)'
    <3>1. Fresh(p)
      <4>1. CASE ~Made(p)'
        BY <2>2, <4>1 DEF Fresh
      <4>2. CASE \E y \in Procs : HasMade(y)' /\ mine'[y] = p
        BY <2>1, <2>3, <4>2 DEF Fresh, HasMade
      <4>3. QED  BY <2>6, <4>1, <4>2 DEF Fresh, HasMade
    <3>2. UNCHANGED <<peerOf, remote, forwarded>> /\ ~Sees(x, p)'
      BY <1>1, <2>0 DEF Make, roomVars, Sees, Offers, Forwards
    <3>3. \A y \in Procs \ {x} : Sees(y, p)' => Sees(y, p)
      BY <1>1 DEF Solo, Alone, Sees
    <3>4. QED  BY <3>1, <3>2, <3>3 DEF FreshInv, Seen
  <2>7. QED  BY <2>4, <2>5, <2>6 DEF FreshInv, HasMade
<1>4. QED  BY <1>2, <1>3 DEF Make

LEMMA EnsuringFresh ==
  ASSUME Typed, FreshInv, NEW x \in Users, Ensuring(x)
  PROVE  FreshInv'
<1>1. x \in Procs /\ x \notin Tracks /\ Solo(x) 
  BY Apart, SoloEnsuring DEF Typed
<1>2. CASE Ensure(x)
  <2>1. /\ UNCHANGED <<peerOf, remote, forwarded, made>>
        /\ pc'[x] \in {"targets", "idle", "make", "look"}
    BY <1>1, <1>2 DEF Ensure, NotEnsured, Goto, Typed, Shape, roomVars, peerVars
  <2>2. Reveals(x)
    BY <1>1, <2>1 DEF Reveals, Seen, Sees, Offers, Forwards
  <2>3. QED  BY <1>1, <2>1, <2>2, FreshStays DEF HasMade
<1>3. CASE Look(x)
  <2>1. /\ UNCHANGED <<peerOf, remote, forwarded, made>> /\ arg[x] \in Users
        /\ pc'[x] \in {"targets", "make"} \/ (pc'[x] = "offer" /\ mine'[x] = peerOf[arg[x]])
    BY <1>1, <1>3
    DEF Look, Ensured, Goto, Typed, Shape, AllInPlace, InPlace, CarriesAll, Carries, Ensures, At,
        roomVars, peerVars
  <2>2. Reveals(x)
    BY <1>1, <2>1 DEF Reveals, Seen, Sees, Offers, Forwards
  <2>3. QED  BY <1>1, <2>1, <2>2, FreshStays DEF HasMade
<1>4. CASE Store(x) \/ Compare(x)
  <2>1. UNCHANGED <<remote, forwarded, made>> /\ HasMade(x) /\ arg[x] \in Users
    BY <1>1, <1>4 DEF Store, Compare, HasMade, At, peerVars, Typed, CarriesAll, Carries, Ensures
  <2>2. CASE Goto(x, "compare") /\ UNCHANGED <<peerOf, mine>>
    <3>1. pc'[x] = "compare"
      BY <1>1, <2>2 DEF Typed, Shape, Goto
    <3>2. Reveals(x)
      BY <1>1, <2>1, <2>2, <3>1 DEF Reveals, Seen, Sees, Offers, Forwards
    <3>3. QED  BY <1>1, <2>1, <2>2, <3>1, <3>2, FreshStays
  <2>3. CASE Goto(x, "discard") /\ UNCHANGED peerOf /\ mine'[x] \in {None, peerOf[arg[x]]}
    <3>1. pc'[x] = "discard"
      BY <1>1, <2>3 DEF Typed, Shape, Goto
    <3>2. Reveals(x)
      BY <1>1, <2>1, <2>3, <3>1, Apart DEF Reveals, Seen, Sees, Offers, Forwards
    <3>3. QED  BY <1>1, <2>1, <2>3, <3>1, <3>2, FreshStays DEF HasMade
  <2>4. CASE Ensured(x, mine[x]) /\ peerOf' = [peerOf EXCEPT ![arg[x]] = mine[x]]
    <3>1. pc'[x] = "targets" \/ (pc'[x] = "offer" /\ mine'[x] = mine[x])
      BY <1>1, <2>1, <2>4 DEF Typed, Shape, AllInPlace, InPlace, Ensures, HasMade, Ensured, Goto
    <3>2. \A u \in Users : peerOf'[u] = IF u = arg[x] THEN mine[x] ELSE peerOf[u]
      BY <2>4 DEF Typed, RoomShape
    <3>3. Reveals(x)
      BY <1>1, <2>1, <3>1, <3>2 DEF Reveals, Seen, Sees, Offers, Forwards, HasMade
    <3>4. QED  BY <1>1, <2>1, <3>1, <3>3, FreshStays DEF HasMade
  <2>5. QED  BY <1>1, <1>4, <2>2, <2>3, <2>4 DEF Store, Compare, Typed, Shape
<1>5. CASE Discard(x)
  <2>1. /\ UNCHANGED <<peerOf, remote, made>> /\ pc[x] = "discard"
        /\ \A p \in Peers : forwarded'[p] \subseteq forwarded[p]
        /\ pc'[x] \in {"targets", "idle"} \/ (pc'[x] = "offer" /\ mine'[x] = mine[x])
    BY <1>1, <1>5
    DEF Discard, Ensured, NotEnsured, Goto, At, Typed, Shape, AllInPlace, InPlace, Ensures,
        roomVars
  <2>2. Reveals(x)
    BY <1>1, <2>1 DEF Reveals, Seen, Sees, Offers, Forwards
  <2>3. QED  BY <1>1, <2>1, <2>2, FreshStays DEF HasMade
<1>6. QED  BY <1>2, <1>3, <1>4, <1>5, MakeFresh DEF Ensuring
LEMMA OfferingFresh ==
  ASSUME Typed, FreshInv, NEW x \in Users, Offering(x) \/ Offer(x)
  PROVE  FreshInv'
<1>1. x \in Procs /\ x \notin Tracks /\ Solo(x) 
  BY Apart, SoloUser DEF Typed, Client
<1>2. UNCHANGED <<peerOf, forwarded, made>> /\ ~HasMade(x)'
  BY <1>1
  DEF Typed, Shape, Offering, Offer, PeerFor, HandleOffer, Answer, HasMade, Goto, At, roomVars,
      peerVars
<1>3. CASE Offer(x)
  <2>1. UNCHANGED remote /\ (pc'[x] = "ensure" \/ (pc'[x] = "peerFor" /\ mine'[x] = peerOf[x]))
    BY <1>1, <1>3 DEF Offer, Goto, Typed, Shape, peerVars
  <2>2. Reveals(x)
    BY <1>1, <1>2, <2>1 DEF Reveals, Seen, Sees, Offers, Forwards
  <2>3. QED  BY <1>1, <1>2, <2>2, FreshStays
<1>4. CASE Offering(x)
  <2>1. /\ pc[x] \in Offers
        /\ pc'[x] \in {"idle", "ensure"} \/ (pc'[x] \in Offers /\ mine'[x] = mine[x])
        /\ remote' \subseteq remote \union {mine[x]}
    BY <1>1, <1>4
    DEF Offering, PeerFor, HandleOffer, Answer, Offers, Goto, At, Typed, Shape, peerVars
  <2>2. Reveals(x)
    BY <1>1, <1>2, <2>1 DEF Reveals, Seen, Sees, Offers, Forwards
  <2>3. QED  BY <1>1, <1>2, <2>2, FreshStays
<1>5. QED  BY <1>3, <1>4

LEMMA ActivatingFresh ==
  ASSUME Typed, FreshInv, NEW x \in Users, Activating(x)
  PROVE  FreshInv'
<1>1. x \in Procs /\ x \notin Tracks /\ Solo(x) 
  BY Apart, SoloUser DEF Typed
<1>2. UNCHANGED <<peerOf, forwarded, made, remote>> /\ ~HasMade(x)'
  BY <1>1
  DEF Typed, Shape, Activating, Activate, NextTarget, Attach, AttachPair, HasMade, Goto, At,
      roomVars, peerVars
<1>3. CASE Activate(x) \/ NextTarget(x)
  <2>1. pc'[x] \in {"idle", "targets", "ensure", "attach"}
    BY <1>1, <1>3 DEF Activate, NextTarget, Goto, Typed, Shape
  <2>2. Reveals(x)
    BY <1>1, <1>2, <2>1 DEF Reveals, Seen, Sees, Offers, Forwards
  <2>3. QED  BY <1>1, <1>2, <2>2, FreshStays
<1>4. CASE Attach(x)
  <2>1. pc'[x] = "pairs" /\ todo'[x] \subseteq Live \X Live
    BY <1>1, <1>4 DEF Attach, Goto, Typed, Shape, RoomTyped
  <2>2. Reveals(x)
    BY <1>1, <1>2, <2>1 DEF Reveals, Seen, Sees, Offers, Forwards, Live
  <2>3. QED  BY <1>1, <1>2, <2>2, FreshStays
<1>5. CASE AttachPair(x)
  <2>1. /\ pc[x] = "pairs" /\ todo[x] \subseteq Peers \X Peers
        /\ pc'[x] \in {"idle", "forward", "pairs"} /\ todo'[x] \subseteq todo[x]
    BY <1>1, <1>5 DEF AttachPair, Goto, At, Typed, Shape, RoomTyped, CarriesAll, Carries
  <2>2. pc'[x] = "forward" => \E pair \in todo[x] : arg'[x][1] = pair[1]
    BY <1>1, <1>5 DEF AttachPair, At, Goto, Typed, Shape, Leg
  <2>3. ASSUME NEW p \in Peers, Sees(x, p)' PROVE Sees(x, p)
    <3>1. CASE pc'[x] = "forward" /\ arg'[x][1] = p
      <4>1. PICK pair \in todo[x] : p = pair[1]
        BY <2>2, <3>1
      <4>2. pair = <<p, pair[2]>> /\ pair[2] \in Peers
        BY <2>1, <4>1
      <4>3. QED  BY <2>1, <4>1, <4>2 DEF Sees
    <3>2. CASE \E q \in Peers : <<p, q>> \in todo'[x]
      BY <2>1, <3>2 DEF Sees
    <3>3. QED  BY <1>1, <2>1, <2>3, <3>1, <3>2 DEF Sees, Offers, Forwards
  <2>4. Reveals(x)
    BY <1>1, <1>2, <2>3 DEF Reveals, Seen
  <2>5. QED  BY <1>1, <1>2, <2>4, FreshStays
<1>6. QED  BY <1>3, <1>4, <1>5 DEF Activating

\* Nothing is seen of any peer by a goroutine that idles or closes.
LEMMA IdlersFresh ==
  ASSUME Typed, FreshInv,
         NEW x \in Procs \ Tracks, Solo(x),
         pc'[x] \in Sessions \ (Ensures \union Offers \union Forwards \union {"pairs"}),
         UNCHANGED made, remote' \subseteq remote, \A p \in Peers : forwarded'[p] \subseteq forwarded[p],
         \A u \in Users : peerOf'[u] \in {peerOf[u], None}
  PROVE  FreshInv'
<1>1. Reveals(x)
  BY Apart DEF Reveals, Seen, Sees, Ensures, Offers, Forwards
<1>2. QED  BY <1>1, FreshStays DEF HasMade, Ensures

LEMMA ClosingFresh ==
  ASSUME Typed, FreshInv, NEW x \in Procs \ Tracks, Closing(x) \/ IceFails(x) \/ End(x)
  PROVE  FreshInv'
<1>1. Solo(x) /\ UNCHANGED made /\ remote' \subseteq remote
  BY SoloClosing
  DEF Typed, Closing, ClosePeer, RemoveLeg, Sweep, DropPeerCaches, End, IceFails, peerVars
<1>2. pc'[x] \in Sessions \ (Ensures \union Offers \union Forwards \union {"pairs"})
  BY DEF Typed, Shape, Sessions, Ensures, Offers, Forwards, Closes, Closing, ClosePeer, RemoveLeg,
         Sweep, DropPeerCaches, End, IceFails, CloseAll, Goto, At
<1>3. \A p \in Peers : forwarded'[p] \subseteq forwarded[p]
  BY DEF Typed, Shape, Closing, ClosePeer, RemoveLeg, Sweep, DropPeerCaches, End, IceFails,
         peerVars
<1>4. \A u \in Users : peerOf'[u] \in {peerOf[u], None}
  BY DEF Typed, RoomShape, Closing, ClosePeer, RemoveLeg, Sweep, DropPeerCaches, End, IceFails,
         roomVars
<1>5. QED  BY <1>1, <1>2, <1>3, <1>4, IdlersFresh

LEMMA JoinLeaveFresh ==
  ASSUME Typed, FreshInv, NEW x \in Users, Join(x) \/ Leave(x) \/ Done(x)
  PROVE  FreshInv'
<1>1. x \in Procs \ Tracks /\ Solo(x) /\ UNCHANGED <<made, remote, forwarded>>
  BY Apart, SoloUser DEF Typed, Client, Join, Leave, Done, peerVars
<1>2. pc'[x] \in Sessions \ (Ensures \union Offers \union Forwards \union {"pairs"})
  BY <1>1
  DEF Typed, Shape, Sessions, Ensures, Offers, Forwards, Closes, Join, Leave, Done, CloseAll,
      Goto, At
<1>3. \A u \in Users : peerOf'[u] \in {peerOf[u], None}
  BY DEF Typed, RoomShape, Join, Leave, Done, roomVars
<1>4. QED  BY <1>1, <1>2, <1>3, IdlersFresh

LEMMA ForwardingFresh ==
  ASSUME Typed, FreshInv, NEW x \in Procs, Forwarding(x)
  PROVE  FreshInv'
<1>1. /\ Solo(x) /\ UNCHANGED <<made, remote, peerOf, todo>> /\ ~HasMade(x)'
      /\ pc[x] \in Forwards /\ pc'[x] \in {"pairs", "fanout"} \union Forwards
      /\ pc'[x] \in Forwards => arg'[x] = arg[x]
      /\ pc'[x] = "pairs" => x \notin Tracks
  BY SoloForwarding
  DEF Typed, Shape, Forwards, HasMade, Forwarding, Forward, Label, AddRoute, Forwarded, Goto, At,
      roomVars, peerVars, localVars
<1>2. \A p \in Peers : forwarded'[p] # {} => forwarded[p] # {} \/ p = arg[x][1]
  BY DEF Typed, Shape, Forwarding, Forward, Label, AddRoute, peerVars
<1>3. \A p \in Peers : Sees(x, p)' => Sees(x, p)
  BY <1>1, Apart DEF Sees, Forwards, Offers
<1>4. Reveals(x)
  BY <1>1, <1>2, <1>3 DEF Reveals, Seen, Sees
<1>5. QED  BY <1>1, <1>4, FreshStays

LEMMA TrackFresh ==
  ASSUME Typed, FreshInv, NEW x \in Tracks, Publishing(x) \/ OnTrack(x) \/ PumpEnds(x)
  PROVE  FreshInv'
<1>0. x \in Procs /\ x \notin Users /\ Solo(x)
  BY Apart, SoloTrack DEF Typed
<1>1. /\ UNCHANGED <<made, remote, peerOf>> /\ ~HasMade(x)'
      /\ \A p \in Peers : forwarded'[p] \subseteq forwarded[p]
  <2>1. UNCHANGED <<made, remote, peerOf>>
    BY DEF Publishing, Publish, AttachPublisher, Fanout, Detaching, DropPublished, Detach,
           RemoveForwarded, RemoveRoute, ForgetKey, OnTrack, PumpEnds, roomVars, peerVars
  <2>2. ~HasMade(x)'
    BY <1>0
    DEF Typed, Shape, HasMade, Publishing, Publish, AttachPublisher, Fanout, Detaching,
        DropPublished, Detach, RemoveForwarded, RemoveRoute, ForgetKey, OnTrack, PumpEnds, Goto,
        At
  <2>3. \A p \in Peers : forwarded'[p] \subseteq forwarded[p]
    BY DEF Typed, Shape, Publishing, Publish, AttachPublisher, Fanout, Detaching, DropPublished,
           Detach, RemoveForwarded, RemoveRoute, ForgetKey, OnTrack, PumpEnds, peerVars
  <2>4. QED  BY <2>1, <2>2, <2>3
<1>2. CASE OnTrack(x)
  <2>1. x[1] \in remote /\ pc'[x] = "publish"
    BY <1>0, <1>1, <1>2 DEF OnTrack, Typed, Shape, Goto
  <2>2. Reveals(x)
    BY <1>0, <1>1, <2>1 DEF Reveals, Seen, Sees, Offers, Forwards
  <2>3. QED  BY <1>0, <1>1, <2>2, FreshStays
<1>3. CASE AttachPublisher(x)
  <2>1. pc[x] # "idle" /\ pc'[x] = "fanout" /\ todo'[x] \subseteq Live
    BY <1>0, <1>1, <1>3 DEF AttachPublisher, Typed, Shape, RoomTyped, Goto, At
  <2>2. Reveals(x)
    BY <1>0, <1>1, <2>1 DEF Reveals, Seen, Sees, Offers, Forwards, Live
  <2>3. QED  BY <1>0, <1>1, <2>2, FreshStays
<1>4. CASE Fanout(x)
  <2>1. /\ pc[x] = "fanout" /\ todo'[x] \subseteq todo[x]
        /\ pc'[x] = "pump" \/ (pc'[x] = "forward" /\ arg'[x][1] \in todo[x])
    BY <1>0, <1>1, <1>4 DEF Fanout, Typed, Shape, RoomTyped, Goto, At, Leg
  <2>2. Reveals(x)
    BY <1>0, <1>1, <2>1 DEF Reveals, Seen, Sees, Offers, Forwards
  <2>3. QED  BY <1>0, <1>1, <2>2, FreshStays
<1>5. CASE Publish(x) \/ Detaching(x) \/ PumpEnds(x)
  <2>1. pc[x] # "idle" /\ pc'[x] \in {"peers"} \union Ended
    BY <1>0, <1>1, <1>5
    DEF Publish, Detaching, DropPublished, Detach, RemoveForwarded, RemoveRoute, ForgetKey,
        PumpEnds, Typed, Shape, Goto, At, Ended
  <2>2. Reveals(x)
    BY <1>0, <1>1, <2>1 DEF Reveals, Seen, Sees, Offers, Forwards, Ended
  <2>3. QED  BY <1>0, <1>1, <2>2, FreshStays
<1>6. QED  BY <1>2, <1>3, <1>4, <1>5 DEF Publishing
-----------------------------------------------------------------------------
LEMMA ClosersStay ==
  ASSUME ClosersInv, NEW x \in Procs, Solo(x), closed => closed',
         \A u \in present : u \in present' \/ closed' \/ u = x,
         \A u \in present' : u \in present \/ u = x,
         dead \subseteq dead', \A p \in Peers : Made(p) => Made(p)', KnowsEnd(x)'
  PROVE  ClosersInv'
<1> SUFFICES ASSUME NEW y \in Procs, y # x PROVE KnowsEnd(y)'
  BY DEF ClosersInv
<1>1. KnowsEnd(y)
  BY DEF ClosersInv
<1>2. /\ pc'[y] = pc[y] /\ caller'[y] = caller[y] /\ arg'[y] = arg[y]
      /\ mine'[y] = mine[y] /\ victims'[y] = victims[y]
  BY DEF Solo, Alone
<1>3. Attaches(y)' => y \in present' \/ closed'
  BY <1>1, <1>2 DEF KnowsEnd, Attaches
<1>4. y \in Peers /\ pc'[y] # "idle" => Made(y)'
  BY <1>1, <1>2 DEF KnowsEnd
<1>5. QED  BY <1>1, <1>2, <1>3, <1>4 DEF KnowsEnd

LEMMA EnsuringClosers ==
  ASSUME Typed, ClosersInv, NEW x \in Users, Ensuring(x)
  PROVE  ClosersInv'
<1>1. x \in Procs /\ x # Server /\ x \notin Peers /\ Solo(x)
  BY Apart, SoloEnsuring DEF Typed
<1>2. UNCHANGED <<present, closed>> /\ dead \subseteq dead'
  BY DEF Ensuring, Ensure, Look, Make, Store, Compare, Discard, roomVars, peerVars
<1>3. \A p \in Peers : Made(p) => Made(p)'
  <2>1. CASE Make(x)
    BY <2>1 DEF Typed, RoomShape, Peers, Made, Owner, Make
  <2>2. CASE UNCHANGED made
    BY <2>2 DEF Made
  <2>3. QED  BY <2>1, <2>2 DEF Ensuring, Ensure, Look, Store, Compare, Discard, peerVars
<1>4. /\ pc[x] \in Ensures /\ pc'[x] \in Ensures \union {"targets", "offer", "idle"}
      /\ pc'[x] \in Ensures => caller'[x] = caller[x]
      /\ pc'[x] = "targets" => caller[x] = "targets"
  BY <1>1
  DEF Typed, Shape, AllInPlace, InPlace, Ensures, Ensuring, Ensure, Look, Make, Store, Compare,
      Discard, Ensured, NotEnsured, Goto, At
<1>5. Attaches(x) => x \in present \/ closed
  BY <1>1 DEF ClosersInv, KnowsEnd
<1>6. Attaches(x)' => x \in present' \/ closed'
  BY <1>2, <1>4, <1>5 DEF Attaches, Ensures
<1>7. ASSUME pc'[x] = "discard", caller'[x] = "targets", mine'[x] = None, arg'[x] = x
      PROVE  closed'
  <2>1. Store(x) \/ Compare(x)
    BY <1>1, <1>7
    DEF Typed, Shape, AllInPlace, InPlace, Ensures, Ensuring, Ensure, Look, Make, Discard,
        Ensured, NotEnsured, Goto, At
  <2>2. ~Compare(x)
    BY <1>1, <1>7, Apart
    DEF Compare, At, Goto, Ensured, Typed, Shape, RoomTyped, AllInPlace, InPlace, Ensures
  <2>3. caller[x] = "targets" /\ arg[x] = x /\ (closed \/ x \notin present)
    BY <1>1, <1>4, <1>7, <2>1, <2>2
    DEF Store, At, Goto, Ensured, Typed, Shape, AllInPlace, InPlace, Ensures
  <2>4. QED  BY <1>2, <1>4, <1>5, <2>3 DEF Attaches
<1>8. KnowsEnd(x)'
  BY <1>1, <1>4, <1>6, <1>7 DEF KnowsEnd, Ensures
<1>9. QED  BY <1>1, <1>2, <1>3, <1>8, ClosersStay

LEMMA UserClosers ==
  ASSUME Typed, ClosersInv, NEW x \in Users, Activating(x) \/ Offering(x) \/ Done(x) \/ Client(x)
  PROVE  ClosersInv'
<1>1. x \in Procs /\ x # Server /\ x \notin Peers /\ Solo(x)
  BY Apart, SoloUser DEF Typed
<1>2. UNCHANGED <<dead, made>>
  BY DEF Activating, Activate, NextTarget, Attach, AttachPair, Offering, PeerFor, HandleOffer,
         Answer, Done, Client, Offer, Join, Leave, peerVars
<1>3. /\ closed => closed'
      /\ \A u \in present : u \in present' \/ closed' \/ u = x
      /\ \A u \in present' : u \in present \/ u = x
  <2>1. CASE Join(x) \/ Leave(x)
    BY <2>1 DEF Join, Leave
  <2>2. CASE UNCHANGED <<present, closed>>
    BY <2>2
  <2>3. QED
    BY <2>1, <2>2
    DEF Activating, Activate, NextTarget, Attach, AttachPair, Offering, PeerFor, HandleOffer,
        Answer, Done, Client, Offer, roomVars
<1>4. KnowsEnd(x)'
  <2>1. KnowsEnd(x)
    BY <1>1 DEF ClosersInv
  <2>2. CASE Activating(x)
    <3>1. /\ UNCHANGED <<present, closed>>
          /\ \/ Attaches(x) /\ pc'[x] \in {"idle", "targets", "attach", "pairs"}
             \/ Attaches(x) /\ pc'[x] = "ensure"
             \/ pc'[x] \in {"pairs", "forward", "idle"}
      BY <1>1, <2>2
      DEF Attaches, Activating, Activate, NextTarget, Attach, AttachPair, Typed, Shape, Goto, At,
          roomVars
    <3>2. QED  BY <1>1, <2>1, <3>1 DEF KnowsEnd, Attaches, Ensures
  <2>3. CASE Offering(x) \/ Done(x) \/ Offer(x)
    <3>1. \/ pc'[x] \in {"idle", "offer", "peerFor", "answer"}
          \/ (pc'[x] = "ensure" /\ caller'[x] = "offer")
      BY <1>1, <2>3
      DEF Offering, PeerFor, HandleOffer, Answer, Done, Offer, Typed, Shape, Goto, At
    <3>2. QED  BY <1>1, <3>1 DEF KnowsEnd, Attaches, Ensures
  <2>4. CASE Join(x)
    <3>1. pc'[x] \in {"idle", "activate"} /\ x \in present'
      BY <1>1, <2>4 DEF Join, Typed, Shape, Goto, At
    <3>2. QED  BY <1>1, <3>1 DEF KnowsEnd, Attaches, Ensures
  <2>5. CASE Leave(x)
    <3>1. pc'[x] = "close" /\ x \notin present' /\ caller'[x] # "ended"
      BY <1>1, <2>5 DEF Leave, CloseAll, Typed, Shape, Goto, At
    <3>2. QED  BY <1>1, <3>1 DEF KnowsEnd, Attaches, Ensures
  <2>6. QED  BY <2>2, <2>3, <2>4, <2>5 DEF Client
<1>5. QED  BY <1>1, <1>2, <1>3, <1>4, ClosersStay DEF Made

LEMMA WorkingClosers ==
  ASSUME Typed, ClosersInv,
         NEW x \in Users \union Tracks,
         Forwarding(x) \/ (x \in Tracks /\ (Publishing(x) \/ OnTrack(x) \/ PumpEnds(x)))
  PROVE  ClosersInv'
<1>1. x \in Procs /\ x # Server /\ x \notin Peers /\ Solo(x)
  BY Apart, TracksNotPeers, SoloForwarding, SoloTrack DEF Typed
<1>2. UNCHANGED <<dead, made, present, closed>>
  BY DEF Forwarding, Forward, Label, AddRoute, Publishing, Publish, AttachPublisher, Fanout,
         Detaching, DropPublished, Detach, RemoveForwarded, RemoveRoute, ForgetKey, OnTrack,
         PumpEnds, roomVars, peerVars
<1>3. pc'[x] \in {"pairs"} \union Forwards \union (Handlers \ {"idle"})
  BY <1>1
  DEF Typed, Shape, Handlers, Forwards, Ended, Forwarding, Forward, Label, AddRoute, Forwarded,
      Publishing, Publish, AttachPublisher, Fanout, Detaching, DropPublished, Detach,
      RemoveForwarded, RemoveRoute, ForgetKey, OnTrack, PumpEnds, Goto, At
<1>4. KnowsEnd(x)'
  BY <1>1, <1>3 DEF KnowsEnd, Attaches, Forwards, Handlers, Ended, Ensures
<1>5. QED  BY <1>1, <1>2, <1>4, ClosersStay DEF Made

LEMMA ClosingClosers ==
  ASSUME Typed, FreshInv, ClosersInv, NEW x \in Procs \ Tracks,
         Closing(x) \/ (x \in Peers /\ IceFails(x)) \/ (x = Server /\ End(x))
  PROVE  ClosersInv'
<1>1. Solo(x) /\ UNCHANGED made /\ dead \subseteq dead'
  BY SoloClosing
  DEF Typed, Closing, ClosePeer, RemoveLeg, Sweep, DropPeerCaches, End, IceFails, peerVars
<1>2. closed => closed'
  BY DEF Closing, ClosePeer, RemoveLeg, Sweep, DropPeerCaches, End, IceFails, roomVars
<1>3. present' \subseteq present /\ (present' = present \/ closed')
  BY DEF Closing, ClosePeer, RemoveLeg, Sweep, DropPeerCaches, End, IceFails, roomVars
<1>4. KnowsEnd(x) /\ x \notin Tracks
  BY DEF ClosersInv
<1>5. KnowsEnd(x)'
  <2>1. CASE ClosePeer(x)
    <3>1. /\ pc[x] = "close" /\ pc'[x] \in {"close", "unleg"}
          /\ UNCHANGED <<caller, present, closed>>
          /\ x \in victims[x] => x \in victims'[x] \/ x \in dead'
      BY <2>1 DEF Typed, Shape, RoomShape, ClosePeer, Goto, At, roomVars
    <3>2. QED  BY <1>1, <1>4, <3>1 DEF KnowsEnd, Attaches, Ensures, Made
  <2>2. CASE RemoveLeg(x)
    <3>1. /\ pc[x] = "unleg" /\ pc'[x] \in {"close", "unleg"}
          /\ UNCHANGED <<caller, present, closed, victims>>
      BY <2>2 DEF Typed, Shape, RemoveLeg, Goto, At
    <3>2. QED  BY <1>1, <1>4, <3>1 DEF KnowsEnd, Attaches, Ensures, Made
  <2>3. CASE Sweep(x) \/ DropPeerCaches(x)
    <3>1. /\ pc[x] \in {"close", "caches"} /\ pc'[x] \in {"caches", "end", "over"}
          /\ pc[x] = "close" /\ caller[x] = "stay" => pc'[x] = "over"
      BY <2>3 DEF Typed, Shape, Sweep, DropPeerCaches, Goto, At
    <3>2. QED  BY <1>1, <1>4, <3>1 DEF KnowsEnd, Attaches, Ensures, Made
  <2>4. CASE x \in Peers /\ IceFails(x)
    <3>1. pc'[x] = "close" /\ caller'[x] = "stay" /\ x \in victims'[x] /\ x \in remote
      BY <2>4, Apart DEF Typed, Shape, RoomShape, IceFails, CloseAll, Goto
    <3>2. Made(x)
      BY <2>4, <3>1 DEF FreshInv, Seen, Fresh
    <3>3. QED  BY <1>1, <2>4, <3>1, <3>2, Apart DEF KnowsEnd, Attaches, Ensures, Made
  <2>5. CASE End(x) /\ (x = Server \/ At(x, "end"))
    <3>1. pc'[x] = "over" \/ (pc'[x] = "close" /\ caller'[x] = "ended" /\ closed')
      BY <2>5 DEF Typed, Shape, End, CloseAll, Goto
    <3>2. x \in Peers => x # Server /\ pc[x] = "end"
      BY <2>5, Apart DEF At
    <3>3. QED  BY <1>1, <1>4, <3>1, <3>2 DEF KnowsEnd, Attaches, Ensures, Made
  <2>6. QED  BY <2>1, <2>2, <2>3, <2>4, <2>5 DEF Closing
<1>6. QED  BY <1>1, <1>2, <1>3, <1>5, ClosersStay DEF Made
-----------------------------------------------------------------------------
LEMMA SeenIsMade ==
  ASSUME FreshInv, NEW p \in Peers, Seen(p)
  PROVE  Made(p)
BY DEF FreshInv, Fresh

LEMMA StartedIsSeen ==
  ASSUME NEW s \in Tracks, pc[s] # "idle"
  PROVE  s[1] \in Peers /\ Seen(s[1])
BY Apart DEF Tracks, Seen, Sees

\* A first track that plays is the only one of its publisher.
LEMMA OnlyTrack ==
  ASSUME TracksInv, FreshInv, NEW s \in Tracks, NEW t \in Tracks,
         Plays(s), Publisher(t) = Publisher(s), pc[t] # "idle"
  PROVE  t = s
<1>1. /\ s = <<s[1], s[2]>> /\ t = <<t[1], t[2]>> /\ s[1] \in Peers /\ t[1] \in Peers
      /\ s[1] = <<s[1][1], s[1][2]>> /\ t[1] = <<t[1][1], t[1][2]>>
      /\ s[1][2] \in 1..MaxPeers /\ t[1][2] \in 1..MaxPeers
      /\ s[2] \in 1..MaxTracks /\ t[2] \in 1..MaxTracks
  BY DEF Tracks, Peers
<1>2. Made(s[1]) /\ Made(t[1])
  BY StartedIsSeen, SeenIsMade DEF Plays, Listed, Forwards
<1>3. s[1] = t[1]
  BY <1>1, <1>2, MediaAssumption DEF Plays, Made, Owner, Publisher
<1>4. t[2] # 1 => pc[s] \in Ended
  BY <1>1, <1>3, MediaAssumption DEF TracksInv, InOrder, Plays
<1>5. QED  BY <1>1, <1>3, <1>4 DEF Plays, Listed, Forwards, Ended

\* A step neither brings back what plays nor who listens.
Steady(x) ==
  /\ Solo(x) /\ dead \subseteq dead'
  /\ \A p \in Peers : Seen(p) =>
       (HasPlace(p)' => HasPlace(p)) /\ (made'[Owner(p)] = 1 => made[Owner(p)] = 1)
  /\ \A s \in Tracks : pc[s] \notin {"idle", "publish"} /\ pc'[s] \in Listed => pc[s] \in Listed

LEMMA SteadyPlays ==
  ASSUME NEW x \in Procs, Steady(x), NEW s \in Tracks, pc[s] \notin {"idle", "publish"}, Plays(s)'
  PROVE  Plays(s)
BY StartedIsSeen DEF Steady, Plays, Publisher

LEMMA SteadyListens ==
  ASSUME NEW x \in Procs, Steady(x), NEW p \in Peers, Seen(p), Listens(p)'
  PROVE  Listens(p)
BY DEF Steady, Listens

\* A leg of a track that plays stays as long as its peer is open.
KeepsLegs ==
  \A q \in Peers : \A leg \in forwarded[q] : Plays(leg[2]) /\ q \notin dead' => leg \in forwarded'[q]

LEMMA RoutesStay ==
  ASSUME LegsInv, RoutesInv, NEW x \in Procs, Steady(x),
         \A leg \in Legs : InRoutes(leg)' => InRoutes(leg) \/ leg \in forwarded'[leg[1]],
         KeepsLegs,
         \A q \in Peers : \A leg \in forwarded'[q] : leg \in forwarded[q] \/ InRoutes(leg)',
         \A leg \in Legs : InRoutes(leg) /\ Listens(leg[1]) /\ Plays(leg[2]) /\ HasPlace(leg[2][1])
                             /\ leg[1] \notin dead' => InRoutes(leg)'
  PROVE  RoutesInv'
<1>1. ASSUME NEW leg \in Legs, InRoutes(leg)', Plays(leg[2])', leg[1] \notin dead'
      PROVE  leg \in forwarded'[leg[1]]
  <2>1. leg[1] \in Peers /\ leg[2] \in Tracks
    BY DEF Legs
  <2>2. CASE InRoutes(leg)
    <3>1. pc[leg[2]] \notin {"idle", "publish"}
      BY <2>2 DEF InRoutes, LegsInv, LegOk, Forwards
    <3>2. Plays(leg[2]) /\ leg[1] \notin dead
      BY <1>1, <2>1, <3>1, SteadyPlays DEF Steady
    <3>3. leg \in forwarded[leg[1]]
      BY <2>2, <3>2 DEF RoutesInv
    <3>4. QED  BY <1>1, <2>1, <3>2, <3>3 DEF KeepsLegs
  <2>3. QED  BY <1>1, <2>2
<1>2. ASSUME NEW q \in Peers, NEW leg \in forwarded'[q], Listens(q)', Plays(leg[2])',
             HasPlace(leg[2][1])'
      PROVE  InRoutes(leg)'
  <2>1. CASE leg \in forwarded[q]
    <3>1. leg \in Legs /\ leg[1] = q /\ leg[2] \in Tracks /\ pc[leg[2]] \notin {"idle", "publish"}
      BY <2>1 DEF LegsInv, LegOk, Legs
    <3>2. Plays(leg[2])
      BY <1>2, <3>1, SteadyPlays
    <3>3. Listens(q)
      BY <1>2, <2>1, SteadyListens DEF Seen
    <3>4. HasPlace(leg[2][1])
      BY <1>2, <3>1, StartedIsSeen DEF Steady
    <3>5. InRoutes(leg)
      BY <2>1, <3>2, <3>3, <3>4 DEF RoutesInv
    <3>6. q \notin dead'
      BY <1>2 DEF Listens
    <3>7. QED  BY <3>1, <3>2, <3>3, <3>4, <3>5, <3>6
  <2>2. QED  BY <1>2, <2>1
<1>3. QED  BY <1>1, <1>2 DEF RoutesInv
\* The room gets no peer that was seen before, and nobody starts to play.
LEMMA SteadyStep ==
  ASSUME NEW x \in Procs, Solo(x), dead \subseteq dead', UNCHANGED made,
         \A u \in Users : peerOf'[u] \in {peerOf[u], None},
         x \notin Tracks \/ pc'[x] \notin Listed \/ pc[x] \in Listed \union {"idle", "publish"}
  PROVE  Steady(x)
<1>1. \A p \in Peers : HasPlace(p)' => HasPlace(p)
  BY Apart DEF HasPlace, Owner, Peers
<1>2. QED  BY <1>1, Apart DEF Steady, Solo, Alone

LEMMA EnsuringSteady ==
  ASSUME Typed, FreshInv, NEW x \in Users, Ensuring(x)
  PROVE  Steady(x)
<1>1. x \in Procs /\ x \notin Tracks /\ Solo(x)
  BY Apart, SoloEnsuring DEF Typed
<1>2. dead \subseteq dead'
  BY DEF Ensuring, Ensure, Look, Make, Store, Compare, Discard, peerVars
<1>3. CASE UNCHANGED <<made, peerOf>>
  BY <1>1, <1>2, <1>3, SteadyStep
<1>4. CASE Make(x)
  <2>1. ASSUME NEW p \in Peers, Seen(p), made'[Owner(p)] = 1 PROVE made[Owner(p)] = 1
    <3>1. /\ made[Owner(p)] \in Nat /\ p[2] \in Nat /\ 1 <= p[2]
          /\ made'[Owner(p)] \in {made[Owner(p)], made[Owner(p)] + 1}
      BY <1>4, MediaAssumption DEF Typed, RoomShape, Peers, Owner, Make
    <3>2. p[2] <= made[Owner(p)]
      BY <2>1, SeenIsMade DEF Made
    <3>3. QED  BY <2>1, <3>1, <3>2
  <2>2. UNCHANGED peerOf
    BY <1>4 DEF Make, roomVars
  <2>3. QED  BY <1>1, <1>2, <2>1, <2>2, Apart DEF Steady, Solo, Alone, HasPlace
<1>5. CASE (Store(x) \/ Compare(x)) /\ peerOf' = [peerOf EXCEPT ![arg[x]] = mine[x]]
  <2>1. UNCHANGED made /\ HasMade(x)
    BY <1>5 DEF Store, Compare, HasMade, At, peerVars
  <2>2. ASSUME NEW p \in Peers, Seen(p), HasPlace(p)' PROVE HasPlace(p)
    <3>1. p # mine[x]
      BY <1>1, <2>1, <2>2 DEF HasMade, FreshInv, Fresh
    <3>2. QED  BY <1>5, <2>2, <3>1 DEF HasPlace, Typed, RoomShape, Owner, Peers
  <2>3. QED  BY <1>1, <1>2, <2>1, <2>2, Apart DEF Steady, Solo, Alone
<1>6. QED
  BY <1>3, <1>4, <1>5 DEF Ensuring, Ensure, Look, Store, Compare, Discard, roomVars, peerVars

LEMMA UserSteady ==
  ASSUME Typed, NEW x \in Users, Activating(x) \/ Offering(x) \/ Done(x) \/ Client(x)
  PROVE  Steady(x)
<1>1. x \in Procs /\ x \notin Tracks /\ Solo(x)
  BY Apart, SoloUser DEF Typed
<1>2. UNCHANGED <<dead, made>>
  BY DEF Activating, Activate, NextTarget, Attach, AttachPair, Offering, PeerFor, HandleOffer,
         Answer, Done, Client, Offer, Join, Leave, peerVars
<1>3. \A u \in Users : peerOf'[u] \in {peerOf[u], None}
  BY DEF Typed, RoomShape, Activating, Activate, NextTarget, Attach, AttachPair, Offering,
         PeerFor, HandleOffer, Answer, Done, Client, Offer, Join, Leave, roomVars
<1>4. QED  BY <1>1, <1>2, <1>3, SteadyStep

LEMMA ForwardingSteady ==
  ASSUME Typed, NEW x \in Procs, Forwarding(x)
  PROVE  Steady(x)
<1>1. Solo(x) /\ UNCHANGED <<dead, made, peerOf>> /\ pc[x] \in Forwards
  BY SoloForwarding
  DEF Typed, Forwards, Forwarding, Forward, Label, AddRoute, At, roomVars, peerVars
<1>2. QED  BY <1>1, SteadyStep DEF Listed

LEMMA TrackSteady ==
  ASSUME Typed, NEW x \in Tracks, Publishing(x) \/ OnTrack(x) \/ PumpEnds(x)
  PROVE  Steady(x)
<1>1. x \in Procs /\ Solo(x)
  BY Apart, SoloTrack DEF Typed
<1>2. UNCHANGED <<dead, made, peerOf>>
  BY DEF Publishing, Publish, AttachPublisher, Fanout, Detaching, DropPublished, Detach,
         RemoveForwarded, RemoveRoute, ForgetKey, OnTrack, PumpEnds, roomVars, peerVars
<1>3. pc'[x] \notin Listed \/ pc[x] \in Listed \union {"idle", "publish"}
  BY <1>1
  DEF Typed, Shape, Listed, Forwards, Publishing, Publish, AttachPublisher, Fanout, Detaching,
      DropPublished, Detach, RemoveForwarded, RemoveRoute, ForgetKey, OnTrack, PumpEnds, Goto, At
<1>4. QED  BY <1>1, <1>2, <1>3, SteadyStep

LEMMA ClosingSteady ==
  ASSUME Typed, NEW x \in Procs \ Tracks, Closing(x) \/ IceFails(x) \/ End(x)
  PROVE  Steady(x)
<1>1. Solo(x) /\ UNCHANGED made /\ dead \subseteq dead'
  BY SoloClosing
  DEF Typed, Closing, ClosePeer, RemoveLeg, Sweep, DropPeerCaches, End, IceFails, peerVars
<1>2. \A u \in Users : peerOf'[u] \in {peerOf[u], None}
  BY DEF Typed, RoomShape, Closing, ClosePeer, RemoveLeg, Sweep, DropPeerCaches, End, IceFails,
         roomVars
<1>3. QED  BY <1>1, <1>2, SteadyStep
-----------------------------------------------------------------------------
\* Neither the legs nor the routes change, and x is at none.
LEMMA RoutesAlone ==
  ASSUME LegsInv, RoutesInv, NEW x \in Procs, Steady(x), UNCHANGED routes,
         \A q \in Peers : forwarded'[q] = forwarded[q] \/ (q \in dead' /\ forwarded'[q] \subseteq forwarded[q]),
         pc[x] # "route", pc'[x] # "route"
  PROVE  RoutesInv'
<1>1. ASSUME NEW leg PROVE InRoutes(leg)' <=> InRoutes(leg)
  BY DEF InRoutes, Steady, Solo, Alone
<1>2. KeepsLegs
  BY DEF KeepsLegs
<1>3. QED  BY <1>1, <1>2, RoutesStay DEF LegsInv

LEMMA EnsuringRoutes ==
  ASSUME Typed, FreshInv, LegsInv, RoutesInv, NEW x \in Users, Ensuring(x)
  PROVE  RoutesInv'
<1>1. x \in Procs /\ Steady(x)
  BY Apart, EnsuringSteady
<1>2. UNCHANGED routes
  BY DEF Ensuring, Ensure, Look, Make, Store, Compare, Discard, roomVars
<1>3. \A q \in Peers : forwarded'[q] = forwarded[q] \/ (q \in dead' /\ forwarded'[q] \subseteq forwarded[q])
  BY DEF Typed, Shape, Ensuring, Ensure, Look, Make, Store, Compare, Discard, peerVars
<1>4. pc[x] # "route" /\ pc'[x] # "route"
  BY <1>1
  DEF Typed, Shape, AllInPlace, InPlace, Ensures, Ensuring, Ensure, Look, Make, Store, Compare,
      Discard, Ensured, NotEnsured, Goto, At
<1>5. QED  BY <1>1, <1>2, <1>3, <1>4, RoutesAlone

LEMMA UserRoutes ==
  ASSUME Typed, LegsInv, RoutesInv,
         NEW x \in Users, Activating(x) \/ Offering(x) \/ Done(x) \/ Client(x)
  PROVE  RoutesInv'
<1>1. x \in Procs /\ Steady(x)
  BY Apart, UserSteady
<1>2. UNCHANGED <<routes, forwarded>>
  BY DEF Activating, Activate, NextTarget, Attach, AttachPair, Offering, PeerFor, HandleOffer,
         Answer, Done, Client, Offer, Join, Leave, roomVars, peerVars
<1>3. pc[x] # "route" /\ pc'[x] # "route"
  BY <1>1
  DEF Typed, Shape, Activating, Activate, NextTarget, Attach, AttachPair, Offering, PeerFor,
      HandleOffer, Answer, Done, Client, Offer, Join, Leave, CloseAll, Goto, At
<1>4. QED  BY <1>1, <1>2, <1>3, RoutesAlone

LEMMA ForwardingRoutes ==
  ASSUME Typed, LegsInv, RoutesInv, NEW x \in Procs, Forwarding(x)
  PROVE  RoutesInv'
<1>1. Steady(x)
  BY ForwardingSteady
<1>2. CASE Forward(x)
  <2>1. UNCHANGED <<routes, forwarded>> /\ pc[x] # "route" /\ pc'[x] # "route"
    BY <1>2 DEF Typed, Shape, Forward, Forwarded, Goto, At, roomVars, peerVars
  <2>2. QED  BY <1>1, <2>1, RoutesAlone
<1>3. CASE Label(x)
  <2>1. /\ UNCHANGED <<routes, arg>> /\ pc[x] = "label" /\ pc'[x] = "route"
        /\ \A q \in Peers : forwarded'[q] =
             IF q = arg[x][1] THEN forwarded[q] \union {arg[x]} ELSE forwarded[q]
    BY <1>3 DEF Typed, Shape, Label, Goto, At, roomVars, localVars
  <2>2. arg[x] \in Legs /\ arg[x][1] \in Peers
    BY <2>1 DEF Typed, CarriesAll, Carries, Forwards, Legs
  <2>3. ASSUME NEW leg PROVE InRoutes(leg)' <=> InRoutes(leg) \/ leg = arg[x]
    BY <1>1, <2>1 DEF InRoutes, Steady, Solo, Alone
  <2>4. \A leg \in Legs : InRoutes(leg)' => InRoutes(leg) \/ leg \in forwarded'[leg[1]]
    BY <2>1, <2>2, <2>3
  <2>5. \A q \in Peers : \A leg \in forwarded'[q] : leg \in forwarded[q] \/ InRoutes(leg)'
    BY <2>1, <2>3
  <2>6. KeepsLegs
    BY <2>1 DEF KeepsLegs
  <2>7. QED  BY <1>1, <2>3, <2>4, <2>5, <2>6, RoutesStay
<1>4. CASE AddRoute(x)
  <2>1. /\ routes' = routes \union {arg[x]} /\ UNCHANGED forwarded
        /\ pc[x] = "route" /\ pc'[x] # "route"
    BY <1>4 DEF Typed, Shape, AddRoute, Forwarded, Goto, At, peerVars
  <2>2. ASSUME NEW leg PROVE InRoutes(leg)' <=> InRoutes(leg)
    BY <1>1, <2>1 DEF InRoutes, Steady, Solo, Alone
  <2>3. KeepsLegs
    BY <2>1 DEF KeepsLegs
  <2>4. QED  BY <1>1, <2>1, <2>2, <2>3, RoutesStay
<1>5. QED  BY <1>2, <1>3, <1>4 DEF Forwarding
\* What a track takes away when it ends belongs to no track that plays.
LEMMA EndedSpares ==
  ASSUME TracksInv, FreshInv, NEW x \in Tracks, pc[x] \in Ended,
         NEW leg \in Legs, Plays(leg[2])
  PROVE  Key(leg) # Publisher(x)
<1>1. leg[2] \in Tracks
  BY DEF Legs
<1>2. QED  BY <1>1, OnlyTrack DEF Key, Plays, Listed, Forwards, Ended

LEMMA TrackKeepsLegs ==
  ASSUME Typed, TracksInv, FreshInv, LegsInv,
         NEW x \in Tracks, Publishing(x) \/ OnTrack(x) \/ PumpEnds(x)
  PROVE  KeepsLegs
<1>1. CASE UNCHANGED forwarded
  BY <1>1 DEF KeepsLegs
<1>2. CASE RemoveForwarded(x) /\ forwarded' # forwarded
  <2>1. PICK q0 \in todo[x] :
          \E leg \in forwarded[q0] :
            Key(leg) = Publisher(x) /\ forwarded' = [forwarded EXCEPT ![q0] = @ \ {leg}]
    BY <1>2 DEF RemoveForwarded
  <2>2. PICK gone \in forwarded[q0] :
          Key(gone) = Publisher(x) /\ forwarded' = [forwarded EXCEPT ![q0] = @ \ {gone}]
    BY <2>1
  <2>3. pc[x] \in Ended
    BY <1>2 DEF RemoveForwarded, At, Ended
  <2>4. \A q \in Peers : forwarded'[q] = IF q = q0 THEN forwarded[q] \ {gone} ELSE forwarded[q]
    BY <2>2 DEF Typed, Shape
  <2>5. ASSUME NEW q \in Peers, NEW leg \in forwarded[q], Plays(leg[2])
        PROVE  leg \in forwarded'[q]
    <3>1. leg \in Legs
      BY DEF LegsInv, LegOk
    <3>2. leg # gone
      BY <2>2, <2>3, <2>5, <3>1, EndedSpares
    <3>3. QED  BY <2>4, <3>2
  <2>6. QED  BY <2>5 DEF KeepsLegs
<1>3. QED
  BY <1>1, <1>2
  DEF Publishing, Publish, AttachPublisher, Fanout, Detaching, DropPublished, Detach,
      RemoveForwarded, RemoveRoute, ForgetKey, OnTrack, PumpEnds, peerVars

LEMMA TrackRoutes ==
  ASSUME Typed, TracksInv, FreshInv, LegsInv, RoutesInv,
         NEW x \in Tracks, Publishing(x) \/ OnTrack(x) \/ PumpEnds(x)
  PROVE  RoutesInv'
<1>1. x \in Procs /\ Steady(x)
  BY Apart, TrackSteady
<1>2. pc[x] # "route" /\ pc'[x] # "route"
  BY <1>1
  DEF Typed, Shape, Publishing, Publish, AttachPublisher, Fanout, Detaching, DropPublished,
      Detach, RemoveForwarded, RemoveRoute, ForgetKey, OnTrack, PumpEnds, Goto, At
<1>3. CASE UNCHANGED <<routes, forwarded>>
  BY <1>1, <1>2, <1>3, RoutesAlone
<1>4. CASE RemoveForwarded(x)
  <2>1. UNCHANGED routes
    BY <1>4 DEF RemoveForwarded, roomVars
  <2>2. ASSUME NEW leg PROVE InRoutes(leg)' <=> InRoutes(leg)
    BY <1>1, <1>2, <2>1 DEF InRoutes, Steady, Solo, Alone
  <2>3. \A q \in Peers : forwarded'[q] \subseteq forwarded[q]
    BY <1>4 DEF RemoveForwarded, Typed, Shape
  <2>4. QED  BY <1>1, <2>2, <2>3, TrackKeepsLegs, RoutesStay
<1>5. CASE RemoveRoute(x) \/ ForgetKey(x)
  <2>1. pc[x] \in Ended /\ UNCHANGED forwarded
    BY <1>5 DEF RemoveRoute, ForgetKey, At, Ended, peerVars
  <2>2. \A leg \in Legs : leg \in routes' => leg \in routes
    BY <1>5 DEF RemoveRoute, ForgetKey
  <2>3. \A leg \in Legs : leg \in routes /\ Key(leg) # Publisher(x) => leg \in routes'
    BY <1>5, <1>1 DEF RemoveRoute, ForgetKey, Typed, CarriesAll, Carries, At
  <2>4. ASSUME NEW leg \in Legs, InRoutes(leg)' PROVE InRoutes(leg)
    BY <1>1, <1>2, <2>2, <2>4 DEF InRoutes, Steady, Solo, Alone
  <2>5. ASSUME NEW leg \in Legs, InRoutes(leg), Plays(leg[2]) PROVE InRoutes(leg)'
    <3>1. Key(leg) # Publisher(x)
      BY <2>1, <2>5, EndedSpares
    <3>2. QED  BY <1>1, <1>2, <2>3, <2>5, <3>1 DEF InRoutes, Steady, Solo, Alone
  <2>6. QED  BY <1>1, <2>1, <2>4, <2>5, TrackKeepsLegs, RoutesStay
<1>6. QED
  BY <1>3, <1>4, <1>5
  DEF Publishing, Publish, AttachPublisher, Fanout, Detaching, DropPublished, Detach, OnTrack,
      PumpEnds, roomVars, peerVars

\* removeRoutesFor spares the routes between the first peers of others.
LEMMA SweepSpares ==
  ASSUME Typed, TracksInv, FreshInv, ClosersInv, NEW x \in Procs \ Tracks, Sweep(x),
         NEW leg \in routes, leg \in Legs, Listens(leg[1]), Plays(leg[2]), HasPlace(leg[2][1])
  PROVE  leg \in routes'
<1>1. /\ leg[1] \in Peers /\ leg[2] \in Tracks /\ leg[2][1] \in Peers
      /\ leg[1] = <<Owner(leg[1]), leg[1][2]>> /\ leg[2][1] = <<Key(leg), leg[2][1][2]>>
      /\ Owner(leg[1]) \in Users /\ Key(leg) \in Users
      /\ leg[1][2] \in 1..MaxPeers /\ leg[2][1][2] \in 1..MaxPeers
  BY DEF Legs, Tracks, Peers, Owner, Key, Publisher
<1>2. pc[x] = "close" /\ victims[x] = {} /\ KnowsEnd(x) /\ x \notin Tracks
  BY DEF Sweep, At, ClosersInv
<1>3. leg[1] # None /\ leg[2][1] # None
  BY <1>1, Apart
<1>4. Owner(leg[1]) \in present /\ Key(leg) \in present /\ ~closed
  BY <1>1, <1>3 DEF Listens, HasPlace, Typed, RoomTyped, Key, Publisher
<1>5. caller[x] # "ended" /\ x # Server
  BY <1>2, <1>4 DEF KnowsEnd
<1>6. CASE x \in Users
  <2>1. x \notin present
    BY <1>2, <1>5, <1>6 DEF KnowsEnd
  <2>2. QED  BY <1>4, <1>5, <1>6, <2>1 DEF Sweep, LegsOf
<1>7. CASE x \in Peers
  <2>1. x \in dead /\ Made(x) /\ x \notin Users /\ x = <<Owner(x), x[2]>> /\ x[2] \in 1..MaxPeers
    BY <1>2, <1>7, Apart DEF KnowsEnd, Peers, Owner
  <2>2. Made(leg[1]) /\ Made(leg[2][1])
    BY <1>1, SeenIsMade DEF Listens, HasPlace, Seen, Owner, Key, Publisher
  <2>3. Owner(leg[1]) # Owner(x)
    BY <1>1, <2>1, <2>2, MediaAssumption DEF Listens, Made
  <2>4. Key(leg) # Owner(x)
    BY <1>1, <2>1, <2>2, MediaAssumption DEF Plays, Made, Key, Publisher, Owner
  <2>5. QED  BY <1>5, <2>1, <2>3, <2>4 DEF Sweep, LegsOf
<1>8. QED  BY <1>5, <1>6, <1>7 DEF Procs

LEMMA ClosingRoutes ==
  ASSUME Typed, TracksInv, FreshInv, ClosersInv, LegsInv, RoutesInv, NEW x \in Procs \ Tracks,
         Closing(x) \/ IceFails(x) \/ End(x)
  PROVE  RoutesInv'
<1>1. Steady(x)
  BY ClosingSteady
<1>2. pc[x] # "route" /\ pc'[x] # "route"
  BY <1>1
  DEF Typed, Shape, Closing, ClosePeer, RemoveLeg, Sweep, DropPeerCaches, End, IceFails, CloseAll,
      Goto, At
<1>3. CASE DropPeerCaches(x) \/ IceFails(x) \/ End(x) \/ ClosePeer(x)
  <2>1. UNCHANGED routes
    BY <1>3 DEF ClosePeer, DropPeerCaches, End, IceFails, roomVars
  <2>2. \A q \in Peers : forwarded'[q] = forwarded[q] \/ (q \in dead' /\ forwarded'[q] \subseteq forwarded[q])
    BY <1>3 DEF Typed, Shape, ClosePeer, DropPeerCaches, End, IceFails, peerVars
  <2>3. QED  BY <1>1, <1>2, <2>1, <2>2, RoutesAlone
<1>4. CASE RemoveLeg(x) \/ Sweep(x)
  <2>1. UNCHANGED <<forwarded, dead>> /\ routes' \subseteq routes
    BY <1>4 DEF RemoveLeg, Sweep, peerVars
  <2>2. ASSUME NEW leg PROVE InRoutes(leg)' => InRoutes(leg)
    BY <1>1, <1>2, <2>1 DEF InRoutes, Steady, Solo, Alone
  <2>3. ASSUME NEW leg \in Legs, InRoutes(leg), Listens(leg[1]), Plays(leg[2]),
               HasPlace(leg[2][1])
        PROVE  InRoutes(leg)'
    <3>1. leg \in routes => leg \in routes'
      <4>1. CASE Sweep(x)
        BY <2>3, <4>1, SweepSpares
      <4>2. CASE RemoveLeg(x)
        <5>1. pc[x] = "unleg" => \A l \in todo[x] : l[1] \in dead
          BY DEF LegsInv
        <5>2. QED  BY <2>3, <4>2, <5>1 DEF RemoveLeg, At, Listens
      <4>3. QED  BY <1>4, <4>1, <4>2
    <3>2. QED  BY <1>1, <1>2, <2>3, <3>1 DEF InRoutes, Steady, Solo, Alone
  <2>4. KeepsLegs
    BY <2>1 DEF KeepsLegs
  <2>5. QED  BY <1>1, <2>1, <2>2, <2>3, <2>4, RoutesStay
<1>5. QED  BY <1>3, <1>4 DEF Closing
-----------------------------------------------------------------------------
\* A call that goes on after a step went on before.
Lasts(x) ==
  /\ closed => closed'
  /\ skipped => skipped'
  /\ Dooms(x) => Dooms(x)' \/ closed'

LEMMA WentOn ==
  ASSUME NEW x \in Procs, Solo(x), Lasts(x), GoesOn'
  PROVE  GoesOn
<1>1. \A y \in Procs \ {x} : Dooms(y) => Dooms(y)'
  BY DEF Solo, Alone, Dooms
<1>2. QED  BY <1>1 DEF GoesOn, Lasts

LEMMA EnsuringLasts ==
  ASSUME Typed, NEW x \in Users, Ensuring(x)
  PROVE  Lasts(x)
<1>1. UNCHANGED closed
  BY DEF Ensuring, Ensure, Look, Make, Store, Compare, Discard, roomVars
<1>2. skipped => skipped'
  <2>1. CASE Make(x)
    BY <2>1 DEF Make
  <2>2. CASE ~Make(x)
    BY <2>2 DEF Ensuring, Ensure, Look, Store, Compare, Discard, boundVars
  <2>3. QED  BY <2>1, <2>2
<1>3. ~Dooms(x)
  BY DEF Dooms, Closes, Ensuring, Ensure, Look, Make, Store, Compare, Discard, At
<1>4. QED  BY <1>1, <1>2, <1>3 DEF Lasts

LEMMA UserLasts ==
  ASSUME Typed, NEW x \in Users, Activating(x) \/ Offering(x) \/ Done(x) \/ Client(x)
  PROVE  Lasts(x)
<1>1. (closed => closed') /\ (skipped => skipped')
  <2>1. CASE Join(x)
    <3>1. /\ closed' = closed
          /\ UNCHANGED skipped \/ (skipped' <=> skipped \/ sfu')
      BY <2>1, Zenon DEF Join
    <3>2. QED  BY <3>1
  <2>2. CASE ~Join(x)
    BY <2>2
    DEF Activating, Activate, NextTarget, Attach, AttachPair, Offering, PeerFor, HandleOffer,
        Answer, Done, Client, Offer, Leave, roomVars, boundVars
  <2>3. QED  BY <2>1, <2>2
<1>2. ~Dooms(x)
  BY DEF Dooms, Closes, Activating, Activate, NextTarget, Attach, AttachPair, Offering, PeerFor,
         HandleOffer, Answer, Done, Client, Offer, Join, Leave, At
<1>3. QED  BY <1>1, <1>2 DEF Lasts

LEMMA WorkingLasts ==
  ASSUME Typed,
         NEW x \in Procs,
         Forwarding(x) \/ (x \in Tracks /\ (Publishing(x) \/ OnTrack(x) \/ PumpEnds(x)))
  PROVE  Lasts(x)
<1>1. UNCHANGED <<closed, skipped>>
  BY DEF Forwarding, Forward, Label, AddRoute, Publishing, Publish, AttachPublisher, Fanout,
         Detaching, DropPublished, Detach, RemoveForwarded, RemoveRoute, ForgetKey, OnTrack,
         PumpEnds, roomVars, boundVars
<1>2. ~Dooms(x)
  BY DEF Dooms, Closes, Forwarding, Forward, Label, AddRoute, Publishing, Publish,
         AttachPublisher, Fanout, Detaching, DropPublished, Detach, RemoveForwarded, RemoveRoute,
         ForgetKey, OnTrack, PumpEnds, At
<1>3. QED  BY <1>1, <1>2 DEF Lasts

LEMMA ClosingLasts ==
  ASSUME Typed, NEW x \in Procs, Closing(x) \/ IceFails(x) \/ (x = Server /\ End(x))
  PROVE  Lasts(x)
<1>1. (closed => closed') /\ UNCHANGED skipped
  BY DEF Closing, ClosePeer, RemoveLeg, Sweep, DropPeerCaches, End, IceFails, roomVars, boundVars
<1>2. Dooms(x) => Dooms(x)' \/ closed'
  <2>1. CASE End(x) \/ IceFails(x)
    BY <2>1 DEF Dooms, Closes, End, IceFails, At, roomVars
  <2>2. CASE ClosePeer(x) \/ RemoveLeg(x) \/ Sweep(x) \/ DropPeerCaches(x)
    BY <2>2
    DEF Typed, Shape, Dooms, Closes, ClosePeer, RemoveLeg, Sweep, DropPeerCaches, Goto, At,
        localVars
  <2>3. QED  BY <2>1, <2>2 DEF Closing
<1>3. QED  BY <1>1, <1>2 DEF Lasts
-----------------------------------------------------------------------------
\* Nobody new has to be awaited, and x goes on awaiting.
LEMMA AwaitStays ==
  ASSUME AwaitInv, NEW x \in Procs, Solo(x), Lasts(x), sfu' => sfu,
         GoesOn /\ GoesOn' /\ sfu => \A v \in present' : peerOf'[v] = None =>
                                /\ v \in present /\ peerOf[v] = None
                                /\ Awaits(x, v) => Awaits(x, v)'
  PROVE  AwaitInv'
<1> SUFFICES ASSUME GoesOn', sfu', NEW v \in present', peerOf'[v] = None
             PROVE  \E y \in Procs : Awaits(y, v)'
  BY DEF AwaitInv
<1>1. GoesOn
  BY WentOn
<1>2. PICK y \in Procs : Awaits(y, v)
  BY <1>1 DEF AwaitInv
<1>3. CASE y = x
  BY <1>1, <1>2, <1>3
<1>4. CASE y # x
  BY <1>2, <1>4 DEF Solo, Alone, Awaits
<1>5. QED  BY <1>3, <1>4

\* An activation goes on until it is done, unless that is recorded.
LEMMA EnsuringAttaches ==
  ASSUME Typed, ClosersInv, NEW x \in Users, Ensuring(x), GoesOn', Attaches(x)
  PROVE  Attaches(x)'
<1>1. x \in Procs /\ KnowsEnd(x)
  BY Apart DEF ClosersInv
<1>2. pc[x] \in Ensures /\ caller[x] = "targets"
  BY DEF Attaches, Ensuring, Ensure, Look, Make, Store, Compare, Discard, At, Ensures
<1>3. ~closed /\ ~closed' /\ ~skipped'
  BY DEF GoesOn, Ensuring, Ensure, Look, Make, Store, Compare, Discard, roomVars
<1>4. ~NotEnsured(x) \/ arg[x] # x
  BY <1>1, <1>2, <1>3
  DEF KnowsEnd, Ensuring, Ensure, Look, Make, Store, Compare, Discard, Ensured, NotEnsured, At,
      Goto, Typed, Shape
<1>5. QED
  BY <1>1, <1>2, <1>4
  DEF Attaches, Ensures, Ensuring, Ensure, Look, Make, Store, Compare, Discard, Ensured,
      NotEnsured, Goto, Typed, Shape

LEMMA EnsuringAwaits ==
  ASSUME Typed, ClosersInv, AwaitInv, NEW x \in Users, Ensuring(x)
  PROVE  AwaitInv'
<1>1. x \in Procs /\ Solo(x) /\ Lasts(x)
  BY Apart, SoloEnsuring, EnsuringLasts DEF Typed
<1>2. UNCHANGED <<sfu, present, closed>>
  BY DEF Ensuring, Ensure, Look, Make, Store, Compare, Discard, roomVars
<1>3. \A v \in present : peerOf'[v] = None => peerOf[v] = None
  <2>1. CASE UNCHANGED peerOf
    BY <2>1
  <2>2. CASE (Store(x) \/ Compare(x)) /\ peerOf' = [peerOf EXCEPT ![arg[x]] = mine[x]]
    <3>1. mine[x] # None
      BY <1>1, <2>2, Apart DEF Typed, CarriesAll, Carries, Store, Compare, At
    <3>2. QED  BY <2>2, <3>1 DEF Typed, RoomShape
  <2>3. QED  BY <2>1, <2>2 DEF Ensuring, Ensure, Look, Make, Store, Compare, Discard, roomVars
<1>4. ASSUME GoesOn, GoesOn', NEW v \in present, peerOf'[v] = None, Awaits(x, v)
      PROVE  Awaits(x, v)'
  <2>1. pc[x] \in Ensures /\ caller[x] = "targets"
    BY <1>4 DEF Awaits, Ensuring, Ensure, Look, Make, Store, Compare, Discard, At, Ensures
  <2>2. Attaches(x)'
    BY <1>4, <2>1, EnsuringAttaches DEF Attaches
  <2>3. CASE v \in todo[x]
    <3>1. v \in todo'[x]
      BY <1>1, <2>1, <2>2, <2>3
      DEF Typed, Shape, RoomTyped, Attaches, Ensures, Ensuring, Ensure, Look, Make, Store,
          Compare, Discard, Ensured, NotEnsured, Goto
    <3>2. QED
      BY <1>1, <2>1, <2>2, <3>1
      DEF Typed, Shape, Attaches, Awaits, Ensures, Ensuring, Ensure, Look, Make, Store, Compare,
          Discard, Ensured, NotEnsured, Goto
  <2>4. CASE pc[x] \in {"ensure", "make", "store"} /\ arg[x] = v
    <3>1. v \in Users /\ ~closed /\ ~skipped' /\ peerOf[v] = None
      BY <1>3, <1>4 DEF GoesOn, Typed, RoomShape
    <3>2. ~Store(x)
      <4>1. ASSUME Store(x) PROVE peerOf' = [peerOf EXCEPT ![v] = mine[x]] /\ mine[x] # None
        BY <1>1, <1>4, <2>4, <3>1, <4>1, Apart DEF Store, Taken, Typed, CarriesAll, Carries, At
      <4>2. QED  BY <1>4, <3>1, <4>1 DEF Typed, RoomShape
    <3>3. Ensure(x) \/ Make(x)
      BY <2>4, <3>2 DEF Ensuring, Look, Compare, Discard, At
    <3>4. pc'[x] \in {"make", "store"} /\ UNCHANGED <<arg, caller>>
      BY <1>1, <2>1, <2>4, <3>1, <3>3 DEF Ensure, Make, Goto, Typed, Shape
    <3>5. QED  BY <2>1, <2>4, <3>4 DEF Awaits
  <2>5. QED  BY <1>4, <2>1, <2>3, <2>4 DEF Awaits, Ensures
<1>5. QED  BY <1>1, <1>2, <1>3, <1>4, AwaitStays

LEMMA UserAwaits ==
  ASSUME Typed, AwaitInv, NEW x \in Users, Activating(x) \/ Offering(x) \/ Done(x) \/ Client(x)
  PROVE  AwaitInv'
<1>1. x \in Procs /\ Solo(x) /\ Lasts(x)
  BY Apart, SoloUser, UserLasts DEF Typed
<1>2. CASE Join(x)
  <2>1. CASE Goto(x, "activate")
    BY <1>1, <2>1 DEF AwaitInv, Awaits, Goto, Typed, Shape
  <2>2. CASE skipped' = (skipped \/ sfu')
    <3>1. GoesOn' => ~skipped'
      BY DEF GoesOn
    <3>2. QED  BY <2>2, <3>1, Zenon DEF AwaitInv
  <2>3. QED  BY <1>2, <2>1, <2>2 DEF Join
<1>3. CASE Activating(x)
  <2>1. UNCHANGED <<sfu, present, closed, peerOf>>
    BY <1>3 DEF Activating, Activate, NextTarget, Attach, AttachPair, roomVars
  <2>2. ASSUME GoesOn, sfu, NEW v \in present, Awaits(x, v) PROVE Awaits(x, v)'
    BY <1>1, <1>3, <2>2
    DEF Awaits, GoesOn, Ensures, Activating, Activate, NextTarget, Attach, AttachPair, Goto, At,
        Typed, Shape, RoomTyped
  <2>3. QED  BY <1>1, <2>1, <2>2, AwaitStays
<1>4. CASE Offering(x) \/ Done(x) \/ Offer(x) \/ Leave(x)
  <2>1. UNCHANGED sfu /\ \A v \in present' : v \in present /\ peerOf'[v] = peerOf[v]
    BY <1>4
    DEF Typed, RoomShape, Offering, PeerFor, HandleOffer, Answer, Done, Offer, Leave, roomVars
  <2>2. \A v : ~Awaits(x, v)
    BY <1>4 DEF Awaits, Ensures, Offering, PeerFor, HandleOffer, Answer, Done, Offer, Leave, At
  <2>3. QED  BY <1>1, <2>1, <2>2, AwaitStays
<1>5. QED  BY <1>2, <1>3, <1>4 DEF Client

LEMMA WorkingAwaits ==
  ASSUME Typed, AwaitInv, NEW x \in Procs,
         Forwarding(x) \/ (x \in Tracks /\ (Publishing(x) \/ OnTrack(x) \/ PumpEnds(x)))
  PROVE  AwaitInv'
<1>1. Solo(x) /\ Lasts(x)
  BY SoloForwarding, SoloTrack, WorkingLasts DEF Typed
<1>2. UNCHANGED <<sfu, present, peerOf>>
  BY DEF Forwarding, Forward, Label, AddRoute, Publishing, Publish, AttachPublisher, Fanout,
         Detaching, DropPublished, Detach, RemoveForwarded, RemoveRoute, ForgetKey, OnTrack,
         PumpEnds, roomVars
<1>3. \A v : ~Awaits(x, v)
  BY DEF Awaits, Ensures, Forwarding, Forward, Label, AddRoute, Publishing, Publish,
         AttachPublisher, Fanout, Detaching, DropPublished, Detach, RemoveForwarded, RemoveRoute,
         ForgetKey, OnTrack, PumpEnds, At
<1>4. QED  BY <1>1, <1>2, <1>3, AwaitStays

LEMMA ClosingAwaits ==
  ASSUME Typed, AwaitInv, NEW x \in Procs, Closing(x) \/ IceFails(x) \/ (x = Server /\ End(x))
  PROVE  AwaitInv'
<1>1. Solo(x) /\ Lasts(x)
  BY SoloClosing, ClosingLasts DEF Typed
<1>2. CASE ClosePeer(x) \/ RemoveLeg(x) \/ Sweep(x) \/ IceFails(x)
  <2>1. UNCHANGED <<sfu, present, peerOf>>
    BY <1>2 DEF ClosePeer, RemoveLeg, Sweep, IceFails, roomVars
  <2>2. \A v : ~Awaits(x, v)
    BY <1>2 DEF Awaits, Ensures, ClosePeer, RemoveLeg, Sweep, IceFails, At
  <2>3. QED  BY <1>1, <2>1, <2>2, AwaitStays
<1>3. CASE End(x)
  <2>1. closed'
    BY <1>3 DEF End
  <2>2. QED  BY <2>1 DEF AwaitInv, GoesOn
<1>4. CASE DropPeerCaches(x)
  <2>1. closed \/ Dooms(x)
    BY <1>4 DEF DropPeerCaches, At, Typed, AllInPlace, InPlace, Dooms, Closes
  <2>2. ~GoesOn'
    BY <1>1, <2>1, WentOn DEF GoesOn
  <2>3. QED  BY <2>2 DEF AwaitInv
<1>5. QED  BY <1>2, <1>3, <1>4 DEF Closing
-----------------------------------------------------------------------------
\* What x was to bring is there, or still to come.
Delivers(x) ==
  GoesOn' => \A s \in Tracks : \A q \in Peers :
    Hears(q, s) /\ Hears(q, s)' /\ Brings(x, q, s) => HasLeg(q, s)' \/ Brings(x, q, s)'

\* Whoever begins to hear a track has its leg, or somebody is to bring it.
Promises ==
  GoesOn /\ GoesOn' => \A s \in Tracks : \A q \in Peers :
    Hears(q, s)' => Hears(q, s) \/ \E y \in Procs : Brings(y, q, s)'

LEMMA PromiseStays ==
  ASSUME TracksInv, FreshInv, LegsInv, PromiseInv, NEW x \in Procs, Steady(x), Lasts(x),
         KeepsLegs, Delivers(x), Promises
  PROVE  PromiseInv'
<1> SUFFICES ASSUME GoesOn', NEW s \in Tracks, NEW q \in Peers, Hears(q, s)'
             PROVE  HasLeg(q, s)' \/ \E y \in Procs : Brings(y, q, s)'
  BY DEF PromiseInv
<1>1. Solo(x) /\ GoesOn
  BY WentOn DEF Steady
<1>2. CASE Hears(q, s)
  <2>1. CASE HasLeg(q, s)
    <3>1. PICK leg \in forwarded[q] : Key(leg) = Publisher(s)
      BY <2>1 DEF HasLeg
    <3>2. leg[2] \in Tracks /\ pc[leg[2]] # "idle" /\ Publisher(leg[2]) = Publisher(s)
      BY <3>1 DEF LegsInv, LegOk, Legs, Key
    <3>3. leg[2] = s /\ Plays(leg[2])
      BY <1>2, <3>2, OnlyTrack DEF Hears
    <3>4. q \notin dead'
      BY DEF Hears, Listens
    <3>5. leg \in forwarded'[q]
      BY <3>3, <3>4 DEF KeepsLegs
    <3>6. QED  BY <3>1, <3>5 DEF HasLeg
  <2>2. ASSUME NEW y \in Procs, Brings(y, q, s), y # x PROVE Brings(y, q, s)'
    BY <1>1, <2>2 DEF Solo, Alone, Brings, Attaches
  <2>3. Brings(x, q, s) => HasLeg(q, s)' \/ Brings(x, q, s)'
    BY <1>2 DEF Delivers
  <2>4. HasLeg(q, s) \/ \E y \in Procs : Brings(y, q, s)
    BY <1>1, <1>2 DEF PromiseInv
  <2>5. QED  BY <2>1, <2>2, <2>3, <2>4
<1>3. QED  BY <1>1, <1>2 DEF Promises

LEMMA HeardBefore ==
  ASSUME FreshInv, NEW x \in Procs, Steady(x), NEW s \in Tracks, NEW q \in Peers, Hears(q, s)',
         HasPlace(q), s = x => pc[s] \notin {"idle", "publish", "peers"}
  PROVE  Hears(q, s)
<1>1. pc[s] \notin {"idle", "publish", "peers"}
  BY Apart DEF Steady, Solo, Alone, Hears, Plays, Listed, Forwards
<1>2. Plays(s) /\ HasPlace(s[1])
  BY <1>1, SteadyPlays, StartedIsSeen DEF Hears, Steady
<1>3. Seen(q)
  BY DEF Seen, HasPlace, Peers, Owner
<1>4. Listens(q)
  BY <1>3, SteadyListens DEF Hears
<1>5. QED  BY <1>1, <1>2, <1>4 DEF Hears

\* Nobody begins to hear a track by a step that brings neither a peer nor a track.
LEMMA NothingNew ==
  ASSUME FreshInv, NEW x \in Procs, Steady(x), \A u \in Users : peerOf'[u] \in {peerOf[u], None},
         x \notin Tracks \/ pc[x] \notin {"idle", "publish", "peers"} \/ pc'[x] \notin Listed \ {"peers"}
  PROVE  Promises
<1>1. ASSUME NEW s \in Tracks, NEW q \in Peers, Hears(q, s)' PROVE Hears(q, s)
  <2>1. HasPlace(q)' /\ q # None /\ Owner(q) \in Users
    BY <1>1, Apart DEF Hears, Listens, Peers, Owner
  <2>2. HasPlace(q)
    BY <2>1 DEF HasPlace
  <2>3. s = x => pc[s] \notin {"idle", "publish", "peers"}
    BY <1>1 DEF Hears, Plays
  <2>4. QED  BY <1>1, <2>2, <2>3, HeardBefore
<1>2. QED  BY <1>1 DEF Promises

LEMMA BringsNothing ==
  ASSUME NEW x \in Procs,
         pc[x] \notin {"activate", "targets", "attach", "pairs", "fanout"} \union Ensures \union Forwards
  PROVE  Delivers(x)
BY DEF Delivers, Brings, Attaches, Forwards
-----------------------------------------------------------------------------
\* A peer that takes the place of another brings the tracks along, or is
\* brought them.
LEMMA StoringPromises ==
  ASSUME Typed, TracksInv, FreshInv, AwaitInv, NEW x \in Users, Store(x) \/ Compare(x),
         peerOf' = [peerOf EXCEPT ![arg[x]] = mine[x]], Ensured(x, mine[x])
  PROVE  Promises
<1>1. x \in Procs /\ x \notin Tracks /\ Ensuring(x) /\ Steady(x) /\ Solo(x)
  BY Apart, EnsuringSteady DEF Ensuring, Steady
<1>2. /\ arg[x] \in present /\ arg[x] \in Users
      /\ caller[x] \in {"targets", "offer"} /\ pc[x] \in {"store", "compare"}
      /\ mine[x] \in Peers /\ Owner(mine[x]) = arg[x]
  <2>1. caller[x] \in {"targets", "offer"} /\ pc[x] \in {"store", "compare"}
    BY <1>1 DEF Typed, AllInPlace, InPlace, Ensures, Store, Compare, At
  <2>2. arg[x] \in Users /\ mine[x] \in Peers /\ Owner(mine[x]) = arg[x]
    BY <1>1, <2>1 DEF Typed, AllInPlace, InPlace, CarriesAll, Carries, Ensures
  <2>3. pc[x] = "compare" => arg[x] \in present
    BY <1>1 DEF Typed, AllInPlace, InPlace
  <2>4. pc'[x] = caller[x]
    BY <1>1 DEF Ensured, Goto, Typed, Shape
  <2>5. arg[x] \in present
    BY <1>1, <2>1, <2>3, <2>4 DEF Store, Compare, At, Goto, Typed, Shape
  <2>6. QED  BY <2>1, <2>2, <2>5
<1> SUFFICES ASSUME GoesOn, GoesOn', NEW s \in Tracks, NEW q \in Peers, Hears(q, s)', ~HasPlace(q)
             PROVE  \E y \in Procs : Brings(y, q, s)'
  <2>1. ASSUME NEW s \in Tracks, NEW q \in Peers, Hears(q, s)', HasPlace(q) PROVE Hears(q, s)
    BY <1>1, <2>1, HeardBefore
  <2>2. QED  BY <2>1 DEF Promises
<1>3. q = mine[x]
  <2>1. HasPlace(q)' /\ Owner(q) \in Users
    BY DEF Hears, Listens, Peers, Owner
  <2>2. QED  BY <2>1 DEF HasPlace, Typed, RoomShape
<1>4. CASE caller[x] = "targets"
  <2>1. pc'[x] = "targets"
    BY <1>1, <1>4 DEF Ensured, Goto, Typed, Shape
  <2>2. QED  BY <1>1, <2>1 DEF Brings, Attaches
<1>5. CASE caller[x] = "offer" /\ peerOf[arg[x]] = None
  <2>1. sfu
    <3>1. pc'[s] # "idle" /\ pc'[s] = pc[s]
      BY <1>1, Apart DEF Hears, Plays, Listed, Forwards, Solo, Alone
    <3>2. QED  BY <3>1 DEF TracksInv
  <2>2. PICK y \in Procs : Awaits(y, arg[x])
    BY <1>2, <1>5, <2>1 DEF AwaitInv
  <2>3. y # x /\ Attaches(y)
    BY <1>2, <1>5, <2>2 DEF Awaits, Attaches, Ensures
  <2>4. Attaches(y)'
    BY <1>1, <2>3 DEF Attaches, Solo, Alone
  <2>5. QED  BY <2>4 DEF Brings
<1>6. CASE peerOf[arg[x]] # None
  <2>1. /\ peerOf[arg[x]] \in Peers /\ Owner(peerOf[arg[x]]) = arg[x] /\ peerOf[arg[x]] # mine[x]
        /\ Made(peerOf[arg[x]])
    <3>1. peerOf[arg[x]] \in Peers /\ Owner(peerOf[arg[x]]) = arg[x] /\ Seen(peerOf[arg[x]])
      BY <1>2, <1>6 DEF Typed, RoomTyped, Seen
    <3>2. peerOf[arg[x]] # mine[x]
      BY <1>2, <1>3 DEF HasPlace
    <3>3. QED  BY <3>1, <3>2, SeenIsMade
  <2>2. Made(mine[x])
    BY <1>1, <1>2 DEF FreshInv
  <2>3. made[arg[x]] = 1
    BY <1>1, <1>2, <1>3 DEF Hears, Listens, Store, Compare, peerVars
  <2>4. peerOf[arg[x]] = mine[x]
    BY <1>2, <2>1, <2>2, <2>3, MediaAssumption DEF Made, Peers, Owner
  <2>5. QED  BY <2>1, <2>4
<1>7. QED  BY <1>2, <1>4, <1>5, <1>6

LEMMA EnsuringPromise ==
  ASSUME Typed, TracksInv, FreshInv, ClosersInv, LegsInv, AwaitInv, PromiseInv,
         NEW x \in Users, Ensuring(x)
  PROVE  PromiseInv'
<1>1. x \in Procs /\ x \notin Tracks /\ Steady(x) /\ Lasts(x)
  BY Apart, EnsuringSteady, EnsuringLasts
<1>2. KeepsLegs
  <2>1. \A q \in Peers : forwarded'[q] = forwarded[q] \/ q \in dead'
    BY DEF Typed, Shape, Ensuring, Ensure, Look, Make, Store, Compare, Discard, peerVars
  <2>2. QED  BY <2>1 DEF KeepsLegs
<1>3. Delivers(x)
  <2>1. pc[x] \in Ensures
    BY DEF Ensuring, Ensure, Look, Make, Store, Compare, Discard, At, Ensures
  <2>2. ASSUME NEW q, NEW s, Brings(x, q, s) PROVE Attaches(x)
    BY <1>1, <2>1, <2>2 DEF Brings, Ensures, Forwards
  <2>3. GoesOn' /\ Attaches(x) => Attaches(x)'
    BY EnsuringAttaches
  <2>4. QED  BY <2>2, <2>3 DEF Delivers, Brings
<1>4. Promises
  <2>1. CASE UNCHANGED peerOf
    BY <1>1, <2>1, NothingNew
  <2>2. CASE /\ Store(x) \/ Compare(x)
             /\ peerOf' = [peerOf EXCEPT ![arg[x]] = mine[x]]
             /\ Ensured(x, mine[x])
    BY <2>2, StoringPromises
  <2>3. QED  BY <2>1, <2>2 DEF Ensuring, Ensure, Look, Make, Store, Compare, Discard, roomVars
<1>5. QED  BY <1>1, <1>2, <1>3, <1>4, PromiseStays

LEMMA ActivatingDelivers ==
  ASSUME Typed, TracksInv, NEW x \in Users, Activating(x)
  PROVE  Delivers(x)
<1>1. x \in Procs /\ x \notin Tracks
  BY Apart
<1>2. CASE Activate(x) \/ NextTarget(x)
  <2>1. ASSUME NEW q, NEW s, Brings(x, q, s) PROVE Attaches(x)
    BY <1>1, <1>2, <2>1 DEF Brings, Activate, NextTarget, At, Forwards
  <2>2. GoesOn' /\ sfu => Attaches(x)'
    <3>1. CASE Activate(x)
      <4>1. GoesOn' => ~closed
        BY <3>1 DEF Activate, GoesOn, roomVars
      <4>2. QED  BY <1>1, <3>1, <4>1 DEF Activate, Attaches, Goto, Typed, Shape
    <3>2. CASE NextTarget(x)
      BY <1>1, <3>2 DEF NextTarget, Attaches, Ensures, Goto, Typed, Shape
    <3>3. QED  BY <1>2, <3>1, <3>2
  <2>3. ASSUME NEW s \in Tracks, NEW q, Hears(q, s) PROVE sfu
    BY <2>3 DEF Hears, Plays, Listed, Forwards, TracksInv
  <2>4. QED  BY <2>1, <2>2, <2>3 DEF Delivers, Brings
<1>3. CASE Attach(x)
  <2>1. pc'[x] = "pairs" /\ todo'[x] = {pair \in Live \X Live : Owner(pair[1]) # Owner(pair[2])}
    BY <1>1, <1>3 DEF Attach, Goto, Typed, Shape, RoomTyped
  <2>2. ASSUME NEW s \in Tracks, NEW q \in Peers, Hears(q, s) PROVE <<q, s[1]>> \in todo'[x]
    <3>1. s[1] \in Peers /\ Owner(q) \in Users /\ Owner(s[1]) \in Users /\ q # None /\ s[1] # None
      BY Apart DEF Tracks, Peers, Owner
    <3>2. q \in Live /\ s[1] \in Live /\ Owner(q) # Owner(s[1])
      BY <2>2, <3>1 DEF Hears, Listens, HasPlace, Live, Publisher
    <3>3. QED  BY <2>1, <3>2
  <2>3. QED  BY <1>1, <2>1, <2>2 DEF Delivers, Brings
<1>4. CASE AttachPair(x)
  <2> SUFFICES ASSUME NEW s \in Tracks, NEW q \in Peers, Hears(q, s), Brings(x, q, s)
               PROVE  Brings(x, q, s)'
    BY DEF Delivers
  <2>1. pc[x] = "pairs" /\ <<q, s[1]>> \in todo[x]
    BY <1>1, <1>4 DEF AttachPair, At, Brings, Attaches, Ensures, Forwards
  <2>2. s[1] \in Peers /\ published[s[1]] = s /\ s # None
    BY Apart DEF Hears, Plays, TracksInv, Tracks
  <2>3. PICK pair \in todo[x] :
          /\ todo' = [todo EXCEPT ![x] = @ \ {pair}]
          /\ \/ /\ published[pair[2]] # None
                /\ arg' = [arg EXCEPT ![x] = Leg(pair[1], published[pair[2]], x)]
                /\ Goto(x, "forward")
             \/ /\ published[pair[2]] = None
                /\ UNCHANGED <<arg, pc>>
    BY <1>4, <2>1 DEF AttachPair
  <2>4. todo'[x] = todo[x] \ {pair} /\ pc'[x] \in {"pairs", "forward"}
    BY <1>1, <2>1, <2>3 DEF Typed, Shape, RoomTyped, Goto
  <2>5. CASE pair = <<q, s[1]>>
    <3>1. pc'[x] = "forward" /\ arg'[x] = Leg(q, s, x)
      BY <1>1, <2>2, <2>3, <2>5 DEF Typed, Shape, Goto
    <3>2. QED  BY <3>1 DEF Brings, Leg, Key
  <2>6. CASE pair # <<q, s[1]>>
    BY <1>1, <2>1, <2>4, <2>6 DEF Brings, Forwards
  <2>7. QED  BY <2>5, <2>6
<1>5. QED  BY <1>2, <1>3, <1>4 DEF Activating

LEMMA UserPromise ==
  ASSUME Typed, TracksInv, FreshInv, LegsInv, PromiseInv, NEW x \in Users,
         Activating(x) \/ Offering(x) \/ Done(x) \/ Client(x)
  PROVE  PromiseInv'
<1>1. x \in Procs /\ x \notin Tracks /\ Steady(x) /\ Lasts(x)
  BY Apart, UserSteady, UserLasts
<1>2. KeepsLegs
  <2>1. UNCHANGED forwarded
    BY DEF Activating, Activate, NextTarget, Attach, AttachPair, Offering, PeerFor, HandleOffer,
           Answer, Done, Client, Offer, Join, Leave, peerVars
  <2>2. QED  BY <2>1 DEF KeepsLegs
<1>3. Promises
  <2>1. \A u \in Users : peerOf'[u] \in {peerOf[u], None}
    BY DEF Typed, RoomShape, Activating, Activate, NextTarget, Attach, AttachPair, Offering,
           PeerFor, HandleOffer, Answer, Done, Client, Offer, Join, Leave, roomVars
  <2>2. QED  BY <1>1, <2>1, NothingNew
<1>4. Delivers(x)
  <2>1. CASE Offering(x) \/ Done(x) \/ Client(x)
    <3>1. pc[x] \in {"peerFor", "offer", "answer", "over", "idle"}
      BY <2>1 DEF Offering, PeerFor, HandleOffer, Answer, Done, Client, Offer, Join, Leave, At
    <3>2. QED  BY <1>1, <3>1, BringsNothing DEF Ensures, Forwards
  <2>2. QED  BY <2>1, ActivatingDelivers
<1>5. QED  BY <1>1, <1>2, <1>3, <1>4, PromiseStays

LEMMA ForwardingPromise ==
  ASSUME Typed, TracksInv, FreshInv, LegsInv, PromiseInv, NEW x \in Procs, Forwarding(x)
  PROVE  PromiseInv'
<1>1. Steady(x) /\ Lasts(x) /\ UNCHANGED <<todo, peerOf, dead>> /\ pc[x] \in Forwards
  BY ForwardingSteady, WorkingLasts
  DEF Forwarding, Forward, Label, AddRoute, At, Forwards, roomVars, peerVars, localVars
<1>2. KeepsLegs
  <2>1. \A q \in Peers : forwarded[q] \subseteq forwarded'[q]
    BY DEF Typed, Shape, Forwarding, Forward, Label, AddRoute, peerVars
  <2>2. QED  BY <2>1 DEF KeepsLegs
<1>3. Promises
  BY <1>1, NothingNew DEF Forwards
<1>4. ASSUME NEW s \in Tracks, NEW q \in Peers, Hears(q, s), Brings(x, q, s)
      PROVE  HasLeg(q, s)' \/ Brings(x, q, s)'
  <2>1. pc'[x] \in Forwards \/ pc'[x] = IF x \in Tracks THEN "fanout" ELSE "pairs"
    BY DEF Typed, Shape, Forwarding, Forward, Label, AddRoute, Forwarded, Goto, Forwards
  <2>2. CASE x = s /\ q \in todo[x]
    BY <1>1, <2>1, <2>2 DEF Brings
  <2>3. CASE x \in Users /\ <<q, s[1]>> \in todo[x]
    BY <1>1, <2>1, <2>3, Apart DEF Brings
  <2>4. CASE pc[x] \in {"forward", "label"} /\ arg[x][1] = q /\ Key(arg[x]) = Publisher(s)
    <3>1. CASE Forward(x)
      <4>1. CASE pc'[x] = "label" /\ UNCHANGED arg
        BY <2>4, <4>1 DEF Brings
      <4>2. CASE HasLeg(q, arg[x][2])
        <5>1. HasLeg(q, s) /\ UNCHANGED forwarded
          BY <2>4, <3>1, <4>2 DEF HasLeg, Key, Forward, peerVars
        <5>2. QED  BY <5>1 DEF HasLeg
      <4>3. q \notin dead
        BY <1>4 DEF Hears, Listens
      <4>4. QED  BY <2>4, <3>1, <4>1, <4>2, <4>3 DEF Forward, Goto, Typed, Shape
    <3>2. CASE Label(x)
      <4>1. arg[x] \in forwarded'[q]
        BY <2>4, <3>2 DEF Label, Typed, Shape
      <4>2. QED  BY <2>4, <4>1 DEF HasLeg
    <3>3. CASE AddRoute(x)
      BY <2>4, <3>3 DEF AddRoute, At
    <3>4. QED  BY <3>1, <3>2, <3>3 DEF Forwarding
  <2>5. ~Attaches(x)
    BY <1>1 DEF Attaches, Forwards, Ensures
  <2>6. QED  BY <1>4, <2>2, <2>3, <2>4, <2>5 DEF Brings
<1>5. QED  BY <1>1, <1>2, <1>3, <1>4, PromiseStays DEF Delivers

LEMMA TrackPromises ==
  ASSUME Typed, FreshInv, NEW x \in Tracks, Publishing(x) \/ OnTrack(x) \/ PumpEnds(x)
  PROVE  Promises
<1>1. x \in Procs /\ Steady(x) /\ UNCHANGED peerOf
  BY Apart, TrackSteady
  DEF Publishing, Publish, AttachPublisher, Fanout, Detaching, DropPublished, Detach,
      RemoveForwarded, RemoveRoute, ForgetKey, OnTrack, PumpEnds, roomVars
<1>2. CASE AttachPublisher(x)
  <2>1. ASSUME NEW q \in Peers, Hears(q, x)' PROVE Brings(x, q, x)'
    <3>1. q # None /\ HasPlace(q)' /\ Owner(q) # Publisher(x) /\ Owner(q) \in Users
      BY <2>1, Apart DEF Hears, Listens, Peers, Owner
    <3>2. q \in {r \in Live : Owner(r) # Publisher(x)}
      BY <1>1, <3>1 DEF HasPlace, Live
    <3>3. pc'[x] = "fanout" /\ q \in todo'[x]
      BY <1>1, <1>2, <3>2 DEF AttachPublisher, Goto, Typed, Shape, RoomTyped
    <3>4. QED  BY <3>3 DEF Brings
  <2>2. ASSUME NEW s \in Tracks, NEW q \in Peers, Hears(q, s)', s # x PROVE Hears(q, s)
    <3>1. HasPlace(q)
      BY <1>1, <2>2 DEF Hears, Listens, HasPlace
    <3>2. QED  BY <1>1, <2>2, <3>1, HeardBefore
  <2>3. QED  BY <1>1, <2>1, <2>2 DEF Promises
<1>3. CASE ~AttachPublisher(x)
  <2>1. pc[x] \notin {"idle", "publish", "peers"} \/ pc'[x] \notin Listed \ {"peers"}
    BY <1>1, <1>3
    DEF Typed, Shape, Listed, Forwards, Publishing, Publish, Fanout, Detaching, DropPublished,
        Detach, RemoveForwarded, RemoveRoute, ForgetKey, OnTrack, PumpEnds, Goto, At
  <2>2. QED  BY <1>1, <2>1, NothingNew
<1>4. QED  BY <1>2, <1>3

LEMMA TrackPromise ==
  ASSUME Typed, TracksInv, FreshInv, LegsInv, PromiseInv,
         NEW x \in Tracks, Publishing(x) \/ OnTrack(x) \/ PumpEnds(x)
  PROVE  PromiseInv'
<1>1. x \in Procs /\ x \notin Users /\ Steady(x) /\ Lasts(x)
  BY Apart, TrackSteady, WorkingLasts
<1>2. Delivers(x)
  <2>1. CASE Fanout(x)
    <3> SUFFICES ASSUME NEW s \in Tracks, NEW q \in Peers, Brings(x, q, s) PROVE Brings(x, q, s)'
      BY DEF Delivers
    <3>1. pc[x] = "fanout" /\ x = s /\ q \in todo[x]
      BY <1>1, <2>1 DEF Fanout, At, Brings, Attaches, Ensures
    <3>2. PICK r \in todo[x] :
            /\ todo' = [todo EXCEPT ![x] = @ \ {r}]
            /\ arg' = [arg EXCEPT ![x] = Leg(r, x, x)]
            /\ Goto(x, "forward")
      BY <2>1, <3>1 DEF Fanout
    <3>3. todo'[x] = todo[x] \ {r} /\ pc'[x] = "forward" /\ arg'[x] = Leg(r, x, x)
      BY <1>1, <3>2 DEF Typed, Shape, RoomTyped, Goto
    <3>4. CASE r = q
      BY <3>1, <3>3, <3>4 DEF Brings, Leg, Key
    <3>5. CASE r # q
      BY <3>1, <3>3, <3>5 DEF Brings, Forwards
    <3>6. QED  BY <3>4, <3>5
  <2>2. CASE ~Fanout(x)
    <3>1. pc[x] \in {"idle", "publish", "peers", "pump"} \union Ended
      BY <2>2
      DEF Publishing, Publish, AttachPublisher, Detaching, DropPublished, Detach, RemoveForwarded,
          RemoveRoute, ForgetKey, OnTrack, PumpEnds, At, Ended
    <3>2. QED  BY <1>1, <3>1, BringsNothing DEF Ensures, Forwards, Ended
  <2>3. QED  BY <2>1, <2>2
<1>3. QED  BY <1>1, <1>2, TrackPromises, TrackKeepsLegs, PromiseStays

LEMMA ClosingPromise ==
  ASSUME Typed, TracksInv, FreshInv, LegsInv, PromiseInv, NEW x \in Procs \ Tracks,
         Closing(x) \/ (x \in Peers /\ IceFails(x)) \/ (x = Server /\ End(x))
  PROVE  PromiseInv'
<1>1. x \in Procs /\ Steady(x) /\ Lasts(x)
  BY ClosingSteady, ClosingLasts
<1>2. KeepsLegs
  <2>1. \A q \in Peers : forwarded'[q] = forwarded[q] \/ q \in dead'
    BY DEF Typed, Shape, Closing, ClosePeer, RemoveLeg, Sweep, DropPeerCaches, End, IceFails,
           peerVars
  <2>2. QED  BY <2>1 DEF KeepsLegs
<1>3. Promises
  <2>1. \A u \in Users : peerOf'[u] \in {peerOf[u], None}
    BY DEF Typed, RoomShape, Closing, ClosePeer, RemoveLeg, Sweep, DropPeerCaches, End, IceFails,
           roomVars
  <2>2. QED  BY <1>1, <2>1, NothingNew
<1>4. Delivers(x)
  <2>1. pc[x] \in Closers
    BY DEF Closing, ClosePeer, RemoveLeg, Sweep, DropPeerCaches, End, IceFails, At, Closers,
           Closes
  <2>2. QED  BY <1>1, <2>1, BringsNothing DEF Closers, Closes, Ensures, Forwards
<1>5. QED  BY <1>1, <1>2, <1>3, <1>4, PromiseStays
-----------------------------------------------------------------------------
LEMMA TypedStays ==
  ASSUME Typed, NEW x \in Procs, Solo(x), Carries(x)',
         x \in Users => pc'[x] \in Sessions, x \in Tracks => pc'[x] \in Handlers,
         x \notin Users \union Tracks => pc'[x] \in Closers
  PROVE  Kinds' /\ CarriesAll'
<1>1. Kinds'
  BY Apart DEF Typed, Kinds, Solo, Alone
<1>2. ASSUME NEW y \in Procs, y # x PROVE Carries(y)'
  <2>1. Carries(y)
    BY DEF Typed, CarriesAll
  <2>2. QED  BY <1>2, <2>1 DEF Carries, Solo, Alone
<1>3. QED  BY <1>1, <1>2 DEF CarriesAll

heardState == <<roomVars, made, dead, remote, published, forwarded, skipped, pc, localVars>>

LEMMA HearStutters ==
  ASSUME HearInv, UNCHANGED heardState
  PROVE  HearInv'
<1>1. RoomTyped' /\ Kinds' /\ CarriesAll'
  BY DEF HearInv, heardState, RoomTyped, Kinds, CarriesAll, Carries, roomVars, localVars
<1>2. TracksInv'
  BY DEF HearInv, heardState, TracksInv, InOrder, roomVars, localVars
<1>3. FreshInv'
  BY DEF HearInv, heardState, FreshInv, Fresh, Seen, Sees, Made, roomVars, localVars
<1>4. ClosersInv'
  BY DEF HearInv, heardState, ClosersInv, KnowsEnd, Attaches, Made, roomVars, localVars
<1>5. LegsInv'
  BY DEF HearInv, heardState, LegsInv, LegOk, HasLeg, roomVars, localVars
<1>6. RoutesInv'
  BY DEF HearInv, heardState, RoutesInv, InRoutes, Plays, Listens, HasPlace, roomVars, localVars
<1>7. AwaitInv'
  BY DEF HearInv, heardState, AwaitInv, GoesOn, Dooms, Awaits, roomVars, localVars
<1>8. PromiseInv'
  BY DEF HearInv, heardState, PromiseInv, GoesOn, Dooms, Hears, Plays, Listens, HasPlace, HasLeg,
         Brings, Attaches, roomVars, localVars
<1>9. QED  BY <1>1, <1>2, <1>3, <1>4, <1>5, <1>6, <1>7, <1>8 DEF HearInv

LEMMA HearInit == Init => HearInv
<1> SUFFICES ASSUME Init PROVE HearInv
  OBVIOUS
<1>1. /\ \A x \in Procs : pc[x] = "idle" /\ todo[x] = {}
      /\ \A u \in Users : peerOf[u] = None /\ made[u] = 0
      /\ \A p \in Peers : published[p] = None /\ forwarded[p] = {}
      /\ present = {} /\ sfu = FALSE /\ closed = FALSE /\ remote = {} /\ routes = {}
      /\ todo = [x \in Procs |-> todo[x]]
  BY DEF Init
<1>2. /\ Users \subseteq Procs /\ Tracks \subseteq Procs /\ Peers \subseteq Procs
      /\ None \notin Peers
  BY Apart
<1>3. RoomTyped
  BY <1>1 DEF RoomTyped
<1>4. Kinds
  BY <1>1, <1>2 DEF Kinds, Sessions, Handlers, Closers
<1>5. CarriesAll
  BY <1>1 DEF CarriesAll, Carries, Ensures, Forwards, Offers
<1>6. TracksInv
  <2>1. \A p \in Peers : \A k \in 1..MaxTracks : pc[<<p, k>>] = "idle"
    BY <1>1, <1>2 DEF Tracks
  <2>2. QED  BY <1>1, <1>2, <2>1 DEF TracksInv, InOrder, Listed, Forwards
<1>7. FreshInv
  <2>1. ASSUME NEW p \in Peers PROVE ~Seen(p)
    BY <1>1, <1>2 DEF Seen, Sees, Offers, Forwards
  <2>2. QED  BY <1>1, <2>1 DEF FreshInv
<1>8. ClosersInv
  BY <1>1 DEF ClosersInv, KnowsEnd, Attaches, Ensures
<1>9. LegsInv
  BY <1>1 DEF LegsInv, Forwards
<1>10. RoutesInv
  BY <1>1 DEF RoutesInv, InRoutes
<1>11. AwaitInv
  BY <1>1 DEF AwaitInv
<1>12. PromiseInv
  BY <1>1, <1>2 DEF PromiseInv, Hears, Plays, Listed, Forwards
<1>13. QED  BY <1>3, <1>4, <1>5, <1>6, <1>7, <1>8, <1>9, <1>10, <1>11, <1>12 DEF HearInv
-----------------------------------------------------------------------------
LEMMA HeardByEnsuring ==
  ASSUME Typed, HearInv, NEW x \in Users, Ensuring(x)
  PROVE  HearInv'
<1>1. x \in Procs /\ x \notin Tracks /\ Solo(x)
  BY Apart, SoloEnsuring DEF Typed
<1>2. Kinds' /\ CarriesAll'
  BY <1>1, EnsuringTyped, TypedStays
<1>3. QED
  BY <1>2, EnsuringRoom, EnsuringTracks, EnsuringFresh, EnsuringClosers, EnsuringLegs,
     EnsuringRoutes,
     EnsuringAwaits, EnsuringPromise
  DEF HearInv

LEMMA HeardByUser ==
  ASSUME Typed, HearInv, NEW x \in Users, Activating(x) \/ Offering(x) \/ Done(x) \/ Client(x)
  PROVE  HearInv'
<1>1. x \in Procs /\ x \notin Tracks /\ Solo(x)
  BY Apart, SoloUser DEF Typed
<1>2. Kinds' /\ CarriesAll'
  BY <1>1, UserTyped, AttachingTyped, TypedStays DEF HearInv, Activating, Client
<1>3. RoomTyped'
  BY <1>1, UserRoom, ClosingRoom DEF Client
<1>4. FreshInv'
  BY OfferingFresh, ActivatingFresh, JoinLeaveFresh DEF HearInv, Client
<1>5. QED
  BY <1>2, <1>3, <1>4, UserTracks, UserClosers, UserLegs, UserRoutes, UserAwaits, UserPromise
  DEF HearInv

LEMMA HeardByForwarding ==
  ASSUME Typed, LockInv, HearInv, NEW x \in Users \union Tracks, Forwarding(x)
  PROVE  HearInv'
<1>1. x \in Procs /\ Solo(x)
  BY Apart, SoloForwarding DEF Typed
<1>2. Kinds' /\ CarriesAll'
  BY <1>1, ForwardingTyped, TypedStays
<1>3. QED
  BY <1>1, <1>2, ForwardingRoom, ForwardingTracks, ForwardingFresh, WorkingClosers,
     ForwardingLegs,
     ForwardingRoutes, WorkingAwaits, ForwardingPromise
  DEF HearInv

LEMMA HeardByTrack ==
  ASSUME Typed, HearInv, NEW x \in Tracks, Publishing(x) \/ OnTrack(x) \/ PumpEnds(x)
  PROVE  HearInv'
<1>1. x \in Procs /\ x \notin Users /\ Solo(x)
  BY Apart, SoloTrack DEF Typed
<1>2. Kinds' /\ CarriesAll'
  BY <1>1, TrackTyped, TypedStays DEF HearInv
<1>3. QED
  BY <1>1, <1>2, TrackRoom, TrackTracks, TrackFresh, WorkingClosers, TrackLegs, TrackRoutes,
     WorkingAwaits, TrackPromise
  DEF HearInv

LEMMA HeardByClosing ==
  ASSUME Typed, HearInv, NEW x \in Procs \ Tracks,
         Closing(x) \/ (x \in Peers /\ IceFails(x)) \/ (x = Server /\ End(x))
  PROVE  HearInv'
<1>1. Solo(x)
  BY SoloClosing DEF Typed
<1>2. Kinds' /\ CarriesAll'
  <2>1. Closers \subseteq Sessions
    BY DEF Closers, Sessions
  <2>2. QED  BY <1>1, <2>1, ClosingTyped, TypedStays
<1>3. QED
  BY <1>2, ClosingRoom, ClosingTracks, ClosingFresh, ClosingClosers, ClosingLegs, ClosingRoutes,
     ClosingAwaits, ClosingPromise
  DEF HearInv

LEMMA HearNext == KeptInv /\ LockInv /\ HearInv /\ [Next]_vars => HearInv'
<1> SUFFICES ASSUME KeptInv, LockInv, HearInv, [Next]_vars PROVE HearInv'
  OBVIOUS
<1>1. Typed
  BY DEF Typed, KeptInv, HearInv
<1>2. ASSUME NEW u \in Users, Client(u) \/ Session(u) PROVE HearInv'
  <2>1. u \in Procs \ Tracks /\ u \in Users \union Tracks
    BY Apart
  <2>2. QED
    BY <1>1, <1>2, <2>1, HeardByEnsuring, HeardByUser, HeardByForwarding, HeardByClosing
    DEF Session
<1>3. ASSUME NEW s \in Tracks, OnTrack(s) \/ Publishing(s) \/ Forwarding(s) \/ PumpEnds(s)
      PROVE  HearInv'
  BY <1>1, <1>3, HeardByTrack, HeardByForwarding
<1>4. ASSUME NEW p \in Peers, Negotiating(p) \/ IceFails(p) \/ Closing(p) PROVE HearInv'
  <2>1. p \in Procs \ Tracks
    BY Apart, TracksNotPeers
  <2>2. CASE Negotiating(p)
    <3>1. UNCHANGED heardState
      BY <2>2
      DEF Negotiating, Negotiate, ServerOffer, heardState, roomVars, peerVars, localVars,
          boundVars
    <3>2. QED  BY <3>1, HearStutters
  <2>3. QED  BY <1>1, <1>4, <2>1, <2>2, HeardByClosing
<1>5. CASE End(Server) \/ Closing(Server)
  <2>1. Server \in Procs \ Tracks
    BY Apart
  <2>2. QED  BY <1>1, <1>5, <2>1, HeardByClosing
<1>6. CASE UNCHANGED vars
  <2>1. UNCHANGED heardState
    BY <1>6 DEF vars, heardState, roomVars, peerVars, localVars, boundVars
  <2>2. QED  BY <2>1, HearStutters
<1>7. QED  BY <1>2, <1>3, <1>4, <1>5, <1>6 DEF Next

LEMMA OneLeg ==
  ASSUME KeptInv, HearInv, Quiet, ~closed, ~skipped,
         NEW s \in Tracks, pc[s] = "pump", s[1] \notin dead, s[2] = 1, made[Publisher(s)] = 1,
         NEW v \in present \ {Publisher(s)}, made[v] = 1, peerOf[v] # None, peerOf[v] \notin dead
  PROVE  \E leg : {m \in routes : m[1] = peerOf[v] /\ Key(m) = Publisher(s)} = {leg}
<1>1. GoesOn
  BY DEF GoesOn, Dooms, Closes, Quiet
<1>2. v \in Users /\ peerOf[v] \in Peers /\ Owner(peerOf[v]) = v
  BY DEF KeptInv, RoomShape, HearInv, RoomTyped
<1>3. PICK q \in Peers : q = peerOf[v]
  BY <1>2
<1>4. Plays(s)
  BY DEF Plays, Listed
<1>5. HasPlace(s[1])
  <2>1. s[1] \in Peers /\ Made(s[1])
    BY StartedIsSeen, SeenIsMade DEF HearInv
  <2>2. \A x \in Procs : ~Dooms(x) /\ ~InHand(x, s[1])
    BY DEF Quiet, Dooms, InHand, Closes
  <2>3. QED  BY <2>1, <2>2 DEF KeptInv, NothingLost, Open, InRoom, Made, HasPlace
<1>6. Hears(q, s)
  BY <1>2, <1>3, <1>4, <1>5 DEF Hears, Listens, HasPlace
<1>7. HasLeg(q, s)
  <2>1. \A y \in Procs : ~Brings(y, q, s)
    BY DEF Quiet, Brings, Attaches, Ensures, Forwards
  <2>2. QED  BY <1>1, <1>6, <2>1 DEF HearInv, PromiseInv
<1>8. ASSUME NEW m, LegOk(m), Key(m) = Publisher(s) PROVE m[2] = s
  BY <1>4, <1>8, OnlyTrack DEF LegOk, Legs, Key, HearInv
<1>9. \A m : InRoutes(m) <=> m \in routes
  BY DEF InRoutes, Quiet
<1>10. PICK leg \in forwarded[q] : Key(leg) = Publisher(s)
  BY <1>7 DEF HasLeg
<1>11. leg \in routes /\ leg[1] = q
  <2>1. LegOk(leg) /\ leg[1] = q
    BY DEF HearInv, LegsInv
  <2>2. leg[2] = s
    BY <1>8, <1>10, <2>1
  <2>3. QED  BY <1>5, <1>6, <1>9, <2>1, <2>2 DEF HearInv, RoutesInv, Hears
<1>12. ASSUME NEW m \in routes, m[1] = q, Key(m) = Publisher(s) PROVE m = leg
  <2>1. LegOk(m) /\ m \in Legs
    BY DEF HearInv, LegsInv, LegOk
  <2>2. m[2] = s
    BY <1>8, <1>12, <2>1
  <2>3. m \in forwarded[q]
    BY <1>3, <1>4, <1>9, <1>12, <2>1, <2>2 DEF HearInv, RoutesInv
  <2>4. QED  BY <1>10, <1>12, <2>3 DEF HearInv, LegsInv
<1>13. QED  BY <1>3, <1>10, <1>11, <1>12

\* A track published and a peer made at the same time find each other (sfu.go
\* 275-293, hub.go 492-522): when no goroutine is at work, the call goes on and
\* no activation was cut short, every participant's first peer that is open
\* has exactly one route of every first track of the others.
THEOREM EverybodyHears == Spec => []EveryoneHears
<1>1. KeptInv /\ HearInv => EveryoneHears
  <2> SUFFICES ASSUME KeptInv, HearInv, Quiet, ~closed, ~skipped,
                      NEW s \in Tracks, pc[s] = "pump", s[1] \notin dead, s[2] = 1,
                      made[Publisher(s)] = 1,
                      NEW v \in present \ {Publisher(s)}, made[v] = 1,
                      peerOf[v] # None, peerOf[v] \notin dead
               PROVE  Cardinality({m \in routes : m[1] = peerOf[v] /\ Key(m) = Publisher(s)}) = 1
    BY DEF EveryoneHears, At
  <2>1. PICK leg : {m \in routes : m[1] = peerOf[v] /\ Key(m) = Publisher(s)} = {leg}
    BY OneLeg
  <2>2. QED  BY <2>1, FS_Singleton
<1>2. SilenceInv => Shape /\ LockInv
  BY DEF SilenceInv
<1>3. QED
  BY <1>1, <1>2, SilenceInit, SilenceNext, KeptInit, KeptNext, HearInit, HearNext, PTL DEF Spec
=============================================================================
