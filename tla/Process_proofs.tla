---------------------------- MODULE Process_proofs ----------------------------
(***************************************************************************)
(* Proofs about Process, for every number of streams, lines, stops, panics *)
(* and losses of power.                                                    *)
(***************************************************************************)
EXTENDS Process, TLAPS, WellFoundedInduction

(* Why a process can save what it has pending: nothing the disk may come   *)
(* back with is newer than the file, a running stream has handled more     *)
(* than its file says, what it has pending lies between the two, and at a  *)
(* save it is stored.                                                      *)
FileIsNewest(s)   == \A c \in survives[s] : c <= file[s]
FileIsStored(s)   == file[s] <= stored[s]
RunsAhead(s)      == pc[s] \notin {"down", "load"} => file[s] # Torn /\ file[s] <= handled[s]
PendingIsAhead(s) == pending[s] # NoPos =>
                       /\ pc[s] \notin {"down", "load"}
                       /\ file[s] <= pending[s] /\ pending[s] <= handled[s]
SavesStored(s)    == pc[s] \in Saving => pending[s] # NoPos /\ pending[s] <= stored[s]
NeverTorn(s)      == Ordered => Torn \notin survives[s]

StreamInv(s) == FileIsNewest(s) /\ FileIsStored(s) /\ RunsAhead(s)
                  /\ PendingIsAhead(s) /\ SavesStored(s) /\ NeverTorn(s)

IInv == ProcessTypeOK /\ \A s \in Streams : StreamInv(s)

USE DEF Streams, NoPos, Torn, Positions, Contents, Saving

-----------------------------------------------------------------------------
(* The oldest of some positions is one of them. *)
LEMMA OldestIsLeast ==
  ASSUME ProcessAssumption, NEW C, C \subseteq Positions, C # {}
  PROVE  OldestIn(C) \in C /\ \A d \in C : OldestIn(C) <= d
<1>1. IsWellFoundedOn({ss \in Nat \X Nat : ss[1] < ss[2]}, Nat)
  BY NatLessThanWellFounded DEF OpToRel
<1>2. C \subseteq Nat
  BY DEF ProcessAssumption
<1>3. PICK x \in C : \A y \in C : <<y, x>> \notin {ss \in Nat \X Nat : ss[1] < ss[2]}
  BY <1>1, <1>2, WFMin
<1>4. \A y \in C : x <= y
  <2>1. \A y \in C : ~ (y < x)
    BY <1>2, <1>3
  <2>2. QED
    BY <1>2, <2>1
<1>5. \A c \in C : PosIn(c) = c
  BY <1>2 DEF PosIn
<1>6. \E c \in C : \A d \in C : PosIn(c) <= PosIn(d)
  BY <1>4, <1>5
<1> DEFINE least == CHOOSE c \in C : \A d \in C : PosIn(c) <= PosIn(d)
<1>7. least \in C /\ \A d \in C : PosIn(least) <= PosIn(d)
  BY <1>6
<1>8. OldestIn(C) = least
  BY <1>5, <1>7 DEF OldestIn
<1>9. QED
  BY <1>5, <1>7, <1>8

(* A content that is newer than some other does not make a difference. *)
LEMMA OldestWithNewer ==
  ASSUME ProcessAssumption, NEW C, C \subseteq Positions,
         NEW p \in Positions, NEW f \in C, f <= p
  PROVE  OldestIn(C \union {p}) = OldestIn(C)
<1>1. OldestIn(C) \in C /\ \A d \in C : OldestIn(C) <= d
  BY OldestIsLeast
<1>2. /\ OldestIn(C \union {p}) \in C \union {p}
      /\ \A d \in C \union {p} : OldestIn(C \union {p}) <= d
  <2>1. C \union {p} \subseteq Positions /\ C \union {p} # {}
    OBVIOUS
  <2>2. QED
    BY <2>1, OldestIsLeast
<1>3. OldestIn(C \union {p}) \in Int /\ OldestIn(C) \in Int /\ f \in Int /\ p \in Int
  <2>1. Positions \subseteq Int
    BY DEF ProcessAssumption
  <2>2. C \union {p} \subseteq Positions
    OBVIOUS
  <2>3. QED
    BY <1>1, <1>2, <2>1, <2>2
<1>4. OldestIn(C \union {p}) <= OldestIn(C)
  BY <1>1, <1>2
<1>5. OldestIn(C) <= OldestIn(C \union {p})
  <2>1. OldestIn(C) <= f
    BY <1>1
  <2>2. OldestIn(C) <= p
    BY <1>3, <2>1
  <2>3. QED
    BY <1>1, <1>2, <2>2
<1>6. QED
  BY <1>3, <1>4, <1>5

(* A single content is the oldest. *)
LEMMA OldestOfOne ==
  ASSUME ProcessAssumption, NEW p \in Positions
  PROVE  OldestIn({p}) = p
<1>1. {p} \subseteq Positions /\ {p} # {}
  OBVIOUS
<1>2. QED
  BY <1>1, OldestIsLeast

-----------------------------------------------------------------------------
(* At first nothing is saved and nothing is stored. *)
LEMMA InitHolds == ProcessAssumption /\ ProcessInit => IInv
<1> SUFFICES ASSUME ProcessAssumption, ProcessInit PROVE IInv
  OBVIOUS
<1> USE DEF ProcessAssumption, ProcessInit, All
<1>1. ProcessTypeOK
  BY DEF ProcessTypeOK
<1>2. \A s \in Streams : StreamInv(s)
  BY DEF StreamInv, FileIsNewest, FileIsStored, RunsAhead, PendingIsAhead, SavesStored,
         NeverTorn
<1>3. QED
  BY <1>1, <1>2 DEF IInv

-----------------------------------------------------------------------------
(* One lemma per action: the invariant is inductive. *)

LEMMA LoadKeeps ==
  ASSUME ProcessAssumption, IInv, NEW s \in Streams, Load(s)
  PROVE  IInv'
<1> USE DEF ProcessAssumption, IInv, Load, Goto, disk, faults
<1>1. ProcessTypeOK'
  BY DEF ProcessTypeOK
<1>2. \A r \in Streams : StreamInv(r)'
  BY DEF ProcessTypeOK, StreamInv, FileIsNewest, FileIsStored,
         RunsAhead, PendingIsAhead, SavesStored, NeverTorn
<1>3. QED
  BY <1>1, <1>2

LEMMA LoadFailsKeeps ==
  ASSUME ProcessAssumption, IInv, NEW s \in Streams, LoadFails(s)
  PROVE  IInv'
<1> USE DEF ProcessAssumption, IInv, LoadFails, AllDown, All, disk
<1>0. stops' \in 0 .. MaxStops
  <2>1. CASE file[s] = Torn
    BY <2>1 DEF ProcessTypeOK
  <2>2. CASE file[s] # Torn
    BY <2>2 DEF ProcessTypeOK
  <2>3. QED
    BY <2>1, <2>2
<1>1. ProcessTypeOK'
  <2>1. /\ pc' \in [Streams -> {"down", "load", "select", "commit", "ended"} \union Saving]
        /\ \A q, r \in Streams : pc'[q] \in Saving /\ pc'[r] \in Saving => q = r
    BY DEF ProcessTypeOK
  <2>2. ending' \in [Streams -> BOOLEAN] /\ pending' \in [Streams -> Positions]
    BY DEF ProcessTypeOK
  <2>3. QED
    BY <1>0, <2>1, <2>2 DEF ProcessTypeOK
<1>2. \A r \in Streams : StreamInv(r)'
  BY DEF ProcessTypeOK, StreamInv, FileIsNewest, FileIsStored,
         RunsAhead, PendingIsAhead, SavesStored, NeverTorn
<1>3. QED
  BY <1>1, <1>2

(* What is handled is newer than the file, which stays as it is. *)
LEMMA HandleKeeps ==
  ASSUME ProcessAssumption, IInv, NEW s \in Streams, Handle(s)
  PROVE  IInv'
<1> USE DEF ProcessAssumption, IInv, Handle, disk, faults
<1>0. /\ handled[s] + 1 \in Positions
      /\ handled' = [handled EXCEPT ![s] = handled[s] + 1]
      /\ pending' = [pending EXCEPT ![s] = handled[s] + 1]
      /\ stored' \in [Streams -> Positions] /\ stored[s] <= stored'[s]
      /\ \A r \in Streams : r # s => stored'[r] = stored[r]
  <2>1. handled[s] \in 0 .. NumLines /\ handled[s] < NumLines
    BY DEF ProcessTypeOK
  <2>2. handled[s] + 1 \in Positions
    BY <2>1
  <2>3. CASE UNCHANGED stored
    BY <2>2, <2>3 DEF ProcessTypeOK
  <2>4. CASE stored[s] <= handled[s] /\ stored' = [stored EXCEPT ![s] = handled[s] + 1]
    BY <2>1, <2>2, <2>4 DEF ProcessTypeOK
  <2>5. QED
    BY <2>3, <2>4
<1>1. ProcessTypeOK'
  <2>1. \A f \in [Streams -> Positions], p \in Positions :
          [f EXCEPT ![s] = p] \in [Streams -> Positions]
    OBVIOUS
  <2>2. handled \in [Streams -> Positions] /\ pending \in [Streams -> Positions]
    BY DEF ProcessTypeOK
  <2>3. handled' \in [Streams -> Positions] /\ pending' \in [Streams -> Positions]
    <3> HIDE DEF Positions, Streams, Handle
    <3>1. QED
      BY <1>0, <2>1, <2>2
  <2>4. QED
    BY <1>0, <2>3 DEF ProcessTypeOK
<1>2. \A r \in Streams : StreamInv(r)'
  <2> SUFFICES ASSUME NEW r \in Streams PROVE StreamInv(r)'
    OBVIOUS
  <2>1. StreamInv(r)
    OBVIOUS
  <2>2. CASE r = s
    <3>1. /\ pc'[s] = "select" /\ pending'[s] = handled[s] + 1 /\ handled'[s] = handled[s] + 1
          /\ file'[s] = file[s] /\ survives'[s] = survives[s]
      BY <1>0 DEF ProcessTypeOK
    <3>2. file[s] # Torn /\ file[s] <= handled[s] /\ file[s] <= stored[s]
      BY <2>1, <2>2 DEF StreamInv, RunsAhead, FileIsStored
    <3>3. file[s] \in Int /\ handled[s] \in Int /\ stored[s] \in Int /\ stored'[s] \in Int
      <4>1. Positions \subseteq Int /\ Contents \subseteq Int
        OBVIOUS
      <4>2. file[s] \in Contents /\ handled[s] \in Positions /\ stored[s] \in Positions
        BY DEF ProcessTypeOK
      <4>3. stored'[s] \in Positions
        BY <1>0
      <4>4. QED
        BY <4>1, <4>2, <4>3
    <3>4. file[s] <= handled[s] + 1 /\ file[s] <= stored'[s]
      <4>1. stored[s] <= stored'[s]
        BY <1>0
      <4>2. QED
        BY <3>2, <3>3, <4>1
    <3>5. FileIsNewest(r)' /\ FileIsStored(r)' /\ NeverTorn(r)'
      BY <2>1, <2>2, <3>1, <3>4 DEF StreamInv, FileIsNewest, FileIsStored, NeverTorn
    <3>6. RunsAhead(r)' /\ PendingIsAhead(r)' /\ SavesStored(r)'
      BY <2>2, <3>1, <3>2, <3>3, <3>4 DEF RunsAhead, PendingIsAhead, SavesStored
    <3>7. QED
      BY <3>5, <3>6 DEF StreamInv
  <2>3. CASE r # s
    BY <2>1, <2>3, <1>0 DEF ProcessTypeOK, StreamInv, FileIsNewest, FileIsStored,
                            RunsAhead, PendingIsAhead, SavesStored, NeverTorn
  <2>4. QED
    BY <2>2, <2>3
<1>3. QED
  BY <1>1, <1>2

LEMMA TickKeeps ==
  ASSUME ProcessAssumption, IInv, NEW s \in Streams, Tick(s)
  PROVE  IInv'
<1> USE DEF ProcessAssumption, IInv, Tick, Goto, disk, faults
<1>1. ProcessTypeOK'
  BY DEF ProcessTypeOK
<1>2. \A r \in Streams : StreamInv(r)'
  BY DEF ProcessTypeOK, StreamInv, FileIsNewest, FileIsStored,
         RunsAhead, PendingIsAhead, SavesStored, NeverTorn
<1>3. QED
  BY <1>1, <1>2

LEMMA EndOfStreamKeeps ==
  ASSUME ProcessAssumption, IInv, NEW s \in Streams, EndOfStream(s)
  PROVE  IInv'
<1> USE DEF ProcessAssumption, IInv, EndOfStream, Goto, disk
<1>0. panics' \in 0 .. MaxPanics
  <2>1. panics \in 0 .. MaxPanics /\ panics < MaxPanics /\ panics' = panics + 1
    BY DEF ProcessTypeOK
  <2>2. QED
    BY <2>1
<1>1. ProcessTypeOK'
  <2>1. /\ pc' \in [Streams -> {"down", "load", "select", "commit", "ended"} \union Saving]
        /\ \A q, r \in Streams : pc'[q] \in Saving /\ pc'[r] \in Saving => q = r
    BY DEF ProcessTypeOK
  <2>2. ending' \in [Streams -> BOOLEAN]
    BY DEF ProcessTypeOK
  <2>3. QED
    BY <1>0, <2>1, <2>2 DEF ProcessTypeOK
<1>2. \A r \in Streams : StreamInv(r)'
  BY DEF ProcessTypeOK, StreamInv, FileIsNewest, FileIsStored,
         RunsAhead, PendingIsAhead, SavesStored, NeverTorn
<1>3. QED
  BY <1>1, <1>2

(* The INSERTs have ended: what is pending is stored, so a save may follow. *)
LEMMA CommitKeeps ==
  ASSUME ProcessAssumption, IInv, NEW s \in Streams, Commit(s)
  PROVE  IInv'
<1> USE DEF ProcessAssumption, IInv, Commit, HasTask, Goto, disk, faults
<1>0. /\ stored' \in [Streams -> Positions]
      /\ stored[s] <= stored'[s] /\ pending[s] <= stored'[s]
      /\ \A r \in Streams : r # s => stored'[r] = stored[r]
      /\ pc'[s] \in {"create", "ended", "select"}
      /\ pc' = [pc EXCEPT ![s] = pc'[s]]
      /\ pc'[s] = "create" => pending[s] # NoPos
  <2>1. stored[s] \in Positions /\ pending[s] \in Positions
    BY DEF ProcessTypeOK
  <2> DEFINE p == IF pending[s] > stored[s] THEN pending[s] ELSE stored[s]
  <2>2. p \in Positions /\ stored[s] <= p /\ pending[s] <= p
    BY <2>1
  <2>3. stored' = [stored EXCEPT ![s] = p]
    OBVIOUS
  <2> HIDE DEF p
  <2>4. /\ stored' \in [Streams -> Positions] /\ stored'[s] = p
        /\ \A r \in Streams : r # s => stored'[r] = stored[r]
    BY <2>2, <2>3 DEF ProcessTypeOK
  <2>5. /\ pc'[s] \in {"create", "ended", "select"} /\ pc' = [pc EXCEPT ![s] = pc'[s]]
        /\ pc'[s] = "create" => pending[s] # NoPos
    BY DEF ProcessTypeOK, Onward
  <2>6. QED
    BY <2>2, <2>4, <2>5
<1>1. ProcessTypeOK'
  <2> SUFFICES pc' \in [Streams -> {"down", "load", "select", "commit", "ended"} \union Saving]
                 /\ \A q, r \in Streams : pc'[q] \in Saving /\ pc'[r] \in Saving => q = r
    BY <1>0 DEF ProcessTypeOK
  <2>1. QED
    BY <1>0 DEF ProcessTypeOK
<1>2. \A r \in Streams : StreamInv(r)'
  <2> SUFFICES ASSUME NEW r \in Streams PROVE StreamInv(r)'
    OBVIOUS
  <2>1. StreamInv(r)
    OBVIOUS
  <2>2. CASE r = s
    BY <2>1, <2>2, <1>0 DEF ProcessTypeOK, StreamInv, FileIsNewest, FileIsStored,
                            RunsAhead, PendingIsAhead, SavesStored, NeverTorn
  <2>3. CASE r # s
    BY <2>1, <2>3, <1>0 DEF ProcessTypeOK, StreamInv, FileIsNewest, FileIsStored,
                            RunsAhead, PendingIsAhead, SavesStored, NeverTorn
  <2>4. QED
    BY <2>2, <2>3
<1>3. QED
  BY <1>1, <1>2

LEMMA SaveCreateKeeps ==
  ASSUME ProcessAssumption, IInv, NEW s \in Streams, SaveCreate(s)
  PROVE  IInv'
<1> USE DEF ProcessAssumption, IInv, SaveCreate, Goto, disk, faults
<1>1. ProcessTypeOK'
  BY DEF ProcessTypeOK
<1>2. \A r \in Streams : StreamInv(r)'
  BY DEF ProcessTypeOK, StreamInv, FileIsNewest, FileIsStored,
         RunsAhead, PendingIsAhead, SavesStored, NeverTorn
<1>3. QED
  BY <1>1, <1>2

LEMMA SaveWriteKeeps ==
  ASSUME ProcessAssumption, IInv, NEW s \in Streams, SaveWrite(s)
  PROVE  IInv'
<1> USE DEF ProcessAssumption, IInv, SaveWrite, Goto, disk, faults
<1>1. ProcessTypeOK'
  BY DEF ProcessTypeOK
<1>2. \A r \in Streams : StreamInv(r)'
  BY DEF ProcessTypeOK, StreamInv, FileIsNewest, FileIsStored,
         RunsAhead, PendingIsAhead, SavesStored, NeverTorn
<1>3. QED
  BY <1>1, <1>2

(* The new name: a stored position, not older than any that may survive. *)
LEMMA SaveRenameKeeps ==
  ASSUME ProcessAssumption, IInv, NEW s \in Streams, SaveRename(s)
  PROVE  IInv'
<1> USE DEF ProcessAssumption, IInv, SaveRename, Goto, faults
<1>0. /\ pending[s] \in Positions /\ pending[s] # NoPos
      /\ file' = [file EXCEPT ![s] = pending[s]]
      /\ survives' = [survives EXCEPT ![s] = Renamed(s, pending[s])]
      /\ Renamed(s, pending[s]) \subseteq Contents /\ pending[s] \in Renamed(s, pending[s])
      /\ \A c \in Renamed(s, pending[s]) : c <= pending[s]
      /\ Ordered => Torn \notin Renamed(s, pending[s])
      /\ pc'[s] \in {"ended", "select"} /\ pc' = [pc EXCEPT ![s] = pc'[s]]
  <2>1. pending[s] \in Positions /\ pending[s] # NoPos
    BY DEF ProcessTypeOK, StreamInv, SavesStored
  <2>2. pc'[s] \in {"ended", "select"} /\ pc' = [pc EXCEPT ![s] = pc'[s]]
    BY DEF ProcessTypeOK, Onward
  <2>3. survives[s] \subseteq Contents /\ pending[s] # Torn
    BY <2>1 DEF ProcessTypeOK
  <2>4. file[s] \in Int /\ file[s] <= pending[s] /\ \A c \in survives[s] : c \in Int /\ c <= file[s]
    BY <2>1, <2>3 DEF ProcessTypeOK, StreamInv, FileIsNewest, PendingIsAhead
  <2>5. \A c \in survives[s] : c <= pending[s]
    BY <2>1, <2>4
  <2>6. QED
    BY <2>1, <2>2, <2>3, <2>5 DEF Renamed, StreamInv, NeverTorn
<1>1. ProcessTypeOK'
  <2>1. file' \in [Streams -> Contents] /\ survives' \in [Streams -> SUBSET Contents]
    <3>1. file' \in [Streams -> Contents]
      BY <1>0 DEF ProcessTypeOK
    <3>2. survives' \in [Streams -> SUBSET Contents]
      BY <1>0 DEF ProcessTypeOK
    <3>3. QED
      BY <3>1, <3>2
  <2>2. \A r \in Streams : file'[r] \in survives'[r]
    BY <1>0 DEF ProcessTypeOK
  <2>3. /\ pc' \in [Streams -> {"down", "load", "select", "commit", "ended"} \union Saving]
        /\ \A q, r \in Streams : pc'[q] \in Saving /\ pc'[r] \in Saving => q = r
    BY <1>0 DEF ProcessTypeOK
  <2>4. QED
    BY <2>1, <2>2, <2>3 DEF ProcessTypeOK
<1>2. \A r \in Streams : StreamInv(r)'
  <2> SUFFICES ASSUME NEW r \in Streams PROVE StreamInv(r)'
    OBVIOUS
  <2>1. StreamInv(r)
    OBVIOUS
  <2>2. CASE r = s
    <3>1. /\ file'[s] = pending[s] /\ survives'[s] = Renamed(s, pending[s])
          /\ pending'[s] = pending[s] /\ stored'[s] = stored[s] /\ handled'[s] = handled[s]
          /\ pending[s] # Torn
      BY <1>0 DEF ProcessTypeOK
    <3>2. pending[s] <= stored[s] /\ pending[s] <= handled[s]
      BY <1>0, <2>1, <2>2 DEF StreamInv, SavesStored, PendingIsAhead
    <3>3. FileIsNewest(r)' /\ FileIsStored(r)' /\ NeverTorn(r)'
      BY <1>0, <2>2, <3>1, <3>2 DEF FileIsNewest, FileIsStored, NeverTorn
    <3>4. RunsAhead(r)' /\ PendingIsAhead(r)' /\ SavesStored(r)'
      BY <1>0, <2>2, <3>1, <3>2 DEF RunsAhead, PendingIsAhead, SavesStored
    <3>5. QED
      BY <3>3, <3>4 DEF StreamInv
  <2>3. CASE r # s
    BY <2>1, <2>3, <1>0 DEF ProcessTypeOK, StreamInv, FileIsNewest, FileIsStored,
                            RunsAhead, PendingIsAhead, SavesStored, NeverTorn
  <2>4. QED
    BY <2>2, <2>3
<1>3. QED
  BY <1>1, <1>2

LEMMA FlushKeeps ==
  ASSUME ProcessAssumption, IInv, NEW s \in Streams, Flush(s)
  PROVE  IInv'
<1> USE DEF ProcessAssumption, IInv, Flush, memory, faults
<1>0. survives' = [survives EXCEPT ![s] = {file[s]}] /\ {file[s]} \subseteq Contents
  BY DEF ProcessTypeOK
<1>1. ProcessTypeOK'
  <2>1. survives' \in [Streams -> SUBSET Contents]
    BY <1>0 DEF ProcessTypeOK
  <2>2. \A r \in Streams : file'[r] \in survives'[r]
    BY <1>0 DEF ProcessTypeOK
  <2>3. QED
    BY <2>1, <2>2 DEF ProcessTypeOK
<1>2. \A r \in Streams : StreamInv(r)'
  <2> SUFFICES ASSUME NEW r \in Streams PROVE StreamInv(r)'
    OBVIOUS
  <2>1. StreamInv(r)
    OBVIOUS
  <2>2. CASE r = s
    BY <2>1, <2>2, <1>0 DEF ProcessTypeOK, StreamInv, FileIsNewest, FileIsStored,
                            RunsAhead, PendingIsAhead, SavesStored, NeverTorn
  <2>3. CASE r # s
    BY <2>1, <2>3, <1>0 DEF ProcessTypeOK, StreamInv, FileIsNewest, FileIsStored,
                            RunsAhead, PendingIsAhead, SavesStored, NeverTorn
  <2>4. QED
    BY <2>2, <2>3
<1>3. QED
  BY <1>1, <1>2

LEMMA StreamFailsKeeps ==
  ASSUME ProcessAssumption, IInv, NEW s \in Streams, StreamFails(s)
  PROVE  IInv'
<1> USE DEF ProcessAssumption, IInv, StreamFails, AllDown, All, disk
<1>0. stops' \in 0 .. MaxStops
  BY DEF ProcessTypeOK
<1>1. ProcessTypeOK'
  <2>1. /\ pc' \in [Streams -> {"down", "load", "select", "commit", "ended"} \union Saving]
        /\ \A q, r \in Streams : pc'[q] \in Saving /\ pc'[r] \in Saving => q = r
    BY DEF ProcessTypeOK
  <2>2. ending' \in [Streams -> BOOLEAN] /\ pending' \in [Streams -> Positions]
    BY DEF ProcessTypeOK
  <2>3. QED
    BY <1>0, <2>1, <2>2 DEF ProcessTypeOK
<1>2. \A r \in Streams : StreamInv(r)'
  BY DEF ProcessTypeOK, StreamInv, FileIsNewest, FileIsStored,
         RunsAhead, PendingIsAhead, SavesStored, NeverTorn
<1>3. QED
  BY <1>1, <1>2

LEMMA KillKeeps ==
  ASSUME ProcessAssumption, IInv, Kill
  PROVE  IInv'
<1> USE DEF ProcessAssumption, IInv, Kill, AllDown, All, disk
<1>0. stops' \in 0 .. MaxStops
  BY DEF ProcessTypeOK
<1>1. ProcessTypeOK'
  <2>1. /\ pc' \in [Streams -> {"down", "load", "select", "commit", "ended"} \union Saving]
        /\ \A q, r \in Streams : pc'[q] \in Saving /\ pc'[r] \in Saving => q = r
    BY DEF ProcessTypeOK
  <2>2. ending' \in [Streams -> BOOLEAN] /\ pending' \in [Streams -> Positions]
    BY DEF ProcessTypeOK
  <2>3. QED
    BY <1>0, <2>1, <2>2 DEF ProcessTypeOK
<1>2. \A r \in Streams : StreamInv(r)'
  BY DEF ProcessTypeOK, StreamInv, FileIsNewest, FileIsStored,
         RunsAhead, PendingIsAhead, SavesStored, NeverTorn
<1>3. QED
  BY <1>1, <1>2

LEMMA ExitKeeps ==
  ASSUME ProcessAssumption, IInv, Exit
  PROVE  IInv'
<1> USE DEF ProcessAssumption, IInv, Exit, AllDown, All, disk, faults
<1>1. ProcessTypeOK'
  BY DEF ProcessTypeOK
<1>2. \A r \in Streams : StreamInv(r)'
  BY DEF ProcessTypeOK, StreamInv, FileIsNewest, FileIsStored,
         RunsAhead, PendingIsAhead, SavesStored, NeverTorn
<1>3. QED
  BY <1>1, <1>2

(* What survives is as old as the file or older, so it is stored too. *)
LEMMA PowerLossKeeps ==
  ASSUME ProcessAssumption, IInv, PowerLoss
  PROVE  IInv'
<1> USE DEF ProcessAssumption, IInv, PowerLoss, AllDown, All
<1>0. \A r \in Streams : /\ file'[r] \in survives[r] /\ survives'[r] = {file'[r]}
                           /\ file'[r] \in Int /\ file[r] \in Int /\ stored[r] \in Int
                           /\ pc'[r] = "down" /\ pending'[r] = NoPos /\ stored'[r] = stored[r]
  BY DEF ProcessTypeOK
<1>1. ProcessTypeOK'
  BY DEF ProcessTypeOK
<1>2. \A r \in Streams : StreamInv(r)'
  <2> SUFFICES ASSUME NEW r \in Streams PROVE StreamInv(r)'
    OBVIOUS
  <2>1. file'[r] <= file[r] /\ file[r] <= stored[r] /\ (Ordered => file'[r] # Torn)
    BY <1>0 DEF StreamInv, FileIsNewest, FileIsStored, NeverTorn
  <2>2. FileIsNewest(r)' /\ FileIsStored(r)' /\ NeverTorn(r)'
    BY <1>0, <2>1 DEF FileIsNewest, FileIsStored, NeverTorn
  <2>3. RunsAhead(r)' /\ PendingIsAhead(r)' /\ SavesStored(r)'
    BY <1>0 DEF RunsAhead, PendingIsAhead, SavesStored
  <2>4. QED
    BY <2>2, <2>3 DEF StreamInv
<1>3. QED
  BY <1>1, <1>2

LEMMA RestartKeeps ==
  ASSUME ProcessAssumption, IInv, Restart
  PROVE  IInv'
<1> USE DEF ProcessAssumption, IInv, Restart, All, disk, faults
<1>0. \A r \in Streams : pc[r] = "down" /\ pc'[r] = "load" /\ pending'[r] = pending[r]
                           /\ file'[r] = file[r] /\ survives'[r] = survives[r]
                           /\ stored'[r] = stored[r] /\ handled'[r] = handled[r]
  BY DEF Up
<1>1. ProcessTypeOK'
  BY DEF ProcessTypeOK
<1>2. \A r \in Streams : StreamInv(r)'
  BY <1>0 DEF StreamInv, FileIsNewest, FileIsStored, RunsAhead, PendingIsAhead, SavesStored, NeverTorn
<1>3. QED
  BY <1>1, <1>2

-----------------------------------------------------------------------------
(* The next-state relation and its stuttering keep the invariant. *)
LEMMA NextKeeps == ProcessAssumption /\ IInv /\ [ProcessNext]_procVars => IInv'
<1> SUFFICES ASSUME ProcessAssumption, IInv, [ProcessNext]_procVars PROVE IInv'
  OBVIOUS
<1>1. ASSUME NEW s \in Streams,
             \/ Load(s) \/ LoadFails(s) \/ Handle(s) \/ Tick(s) \/ EndOfStream(s)
             \/ Commit(s) \/ SaveCreate(s) \/ SaveWrite(s) \/ SaveRename(s)
             \/ Flush(s) \/ StreamFails(s)
      PROVE  IInv'
  BY <1>1, LoadKeeps, LoadFailsKeeps, HandleKeeps, TickKeeps, EndOfStreamKeeps, CommitKeeps,
     SaveCreateKeeps, SaveWriteKeeps, SaveRenameKeeps, FlushKeeps, StreamFailsKeeps
<1>2. CASE Kill \/ Exit \/ PowerLoss \/ Restart
  BY <1>2, KillKeeps, ExitKeeps, PowerLossKeeps, RestartKeeps
<1>3. CASE UNCHANGED procVars
  BY <1>3 DEF procVars, memory, disk, faults, IInv, ProcessTypeOK, StreamInv, FileIsNewest,
              FileIsStored, RunsAhead, PendingIsAhead, SavesStored, NeverTorn
<1>4. QED
  BY <1>1, <1>2, <1>3 DEF ProcessNext

(* Every reachable state of the service satisfies the invariant. *)
LEMMA Invariance == ProcessAssumption /\ ProcessSpec => []IInv
<1> SUFFICES ASSUME ProcessAssumption PROVE ProcessSpec => []IInv
  OBVIOUS
<1>1. ProcessInit => IInv
  BY InitHolds
<1>2. IInv /\ [ProcessNext]_procVars => IInv'
  BY NextKeeps
<1>3. QED
  BY <1>1, <1>2, PTL DEF ProcessSpec

(* The variables keep their types, a checkpoint is one of what a loss of   *)
(* power may leave of it, and never are two streams inside save() at a     *)
(* time: one task polls all streams, and save() has no await.              *)
THEOREM ProcessTypesHold ==
  ASSUME ProcessAssumption
  PROVE  ProcessSpec => []ProcessTypeOK
<1>1. ProcessSpec => []IInv
  BY Invariance
<1>2. IInv => ProcessTypeOK
  BY DEF IInv
<1>3. QED
  BY <1>1, <1>2, PTL

-----------------------------------------------------------------------------
(* What a step may do to a stream as its operator sees it: lines become    *)
(* stored, or the oldest position that a restart may come back to advances *)
(* over stored lines.                                                      *)
Stores(s)   == stored[s] <= stored'[s] /\ UNCHANGED Resume(s)
Advances(s) == UNCHANGED stored[s] /\ Resume(s)' \in Resume(s) .. stored[s]
Forward(s)  == Stores(s) \/ Advances(s)

(* With ordered data the oldest content is the one a restart comes back    *)
(* to: it is no empty file.                                                *)
LEMMA ResumeIsStored ==
  ASSUME ProcessAssumption, Ordered, IInv, NEW s \in Streams
  PROVE  /\ survives[s] \subseteq Positions /\ file[s] \in survives[s]
         /\ Resume(s) \in survives[s] /\ \A c \in survives[s] : Resume(s) <= c
         /\ file[s] <= stored[s] /\ stored[s] \in Positions
<1>1. /\ survives[s] \subseteq Positions /\ file[s] \in survives[s]
      /\ file[s] <= stored[s] /\ stored[s] \in Positions
  BY DEF IInv, ProcessTypeOK, StreamInv, NeverTorn, FileIsStored
<1>2. Resume(s) \in survives[s] /\ \A c \in survives[s] : Resume(s) <= c
  BY <1>1, OldestIsLeast DEF Resume
<1>3. QED
  BY <1>1, <1>2

(* A step that leaves the files alone moves no restart. *)
LEMMA SameDiskForward ==
  ASSUME ProcessAssumption, IInv, NEW s \in Streams,
         survives'[s] = survives[s], stored[s] <= stored'[s]
  PROVE  Forward(s)
  BY DEF Forward, Stores, Resume

(* A line handled may be stored at once. *)
LEMMA HandleForward ==
  ASSUME ProcessAssumption, IInv, NEW s \in Streams, Handle(s), NEW r \in Streams
  PROVE  Forward(r)
<1>1. stored[r] \in Int /\ stored[s] \in Int /\ handled[s] \in Int
  BY DEF IInv, ProcessTypeOK, ProcessAssumption
<1>2. CASE UNCHANGED stored
  BY <1>1, <1>2, SameDiskForward DEF Handle, disk
<1>3. CASE stored[s] <= handled[s] /\ stored' = [stored EXCEPT ![s] = handled[s] + 1]
  <2>1. stored'[r] = IF r = s THEN handled[s] + 1 ELSE stored[r]
    BY <1>3 DEF IInv, ProcessTypeOK
  <2>2. stored[r] <= stored'[r]
    BY <1>1, <1>3, <2>1
  <2>3. QED
    BY <2>2, SameDiskForward DEF Handle, disk
<1>4. QED
  BY <1>2, <1>3 DEF Handle

(* A commit stores what is pending. *)
LEMMA CommitForward ==
  ASSUME ProcessAssumption, IInv, NEW s \in Streams, Commit(s), NEW r \in Streams
  PROVE  Forward(r)
<1>1. stored[r] \in Int /\ pending[s] \in Int
  BY DEF IInv, ProcessTypeOK, ProcessAssumption
<1>2. stored'[r] = IF r = s /\ pending[s] > stored[s] THEN pending[s] ELSE stored[r]
  BY DEF Commit, IInv, ProcessTypeOK
<1>3. stored[r] <= stored'[r]
  BY <1>1, <1>2
<1>4. QED
  BY <1>3, SameDiskForward DEF Commit, disk

(* A rename: what was on the disk before remains possible, and what is new *)
(* is not older.                                                           *)
LEMMA SaveRenameForward ==
  ASSUME ProcessAssumption, Ordered, IInv, NEW s \in Streams, SaveRename(s), NEW r \in Streams
  PROVE  Forward(r)
<1>1. stored' = stored /\ stored[r] \in Int
  BY DEF SaveRename, IInv, ProcessTypeOK, ProcessAssumption
<1>2. CASE r # s
  <2>1. survives'[r] = survives[r]
    BY <1>2 DEF SaveRename, IInv, ProcessTypeOK
  <2>2. QED
    BY <1>1, <2>1, SameDiskForward
<1>3. CASE r = s
  <2>1. survives'[r] = survives[r] \union {pending[r]}
    BY <1>3 DEF SaveRename, Renamed, IInv, ProcessTypeOK
  <2>2. pending[r] \in Positions /\ file[r] <= pending[r]
    BY <1>3 DEF SaveRename, IInv, ProcessTypeOK, StreamInv, SavesStored, PendingIsAhead
  <2>3. Resume(r)' = Resume(r)
    BY <2>1, <2>2, ResumeIsStored, OldestWithNewer DEF Resume
  <2>4. QED
    BY <1>1, <2>3 DEF Forward, Stores
<1>4. QED
  BY <1>2, <1>3

(* One of the contents that were possible is now certain. *)
LEMMA SettledForward ==
  ASSUME ProcessAssumption, Ordered, IInv, NEW r \in Streams, NEW c \in survives[r],
         survives'[r] = {c}, stored'[r] = stored[r]
  PROVE  Forward(r)
<1>1. c \in Positions /\ Resume(r) \in Positions /\ Resume(r) <= c
  BY ResumeIsStored
<1>2. c <= file[r] /\ file[r] <= stored[r] /\ file[r] \in Positions /\ stored[r] \in Positions
  BY ResumeIsStored DEF IInv, StreamInv, FileIsNewest
<1>3. Resume(r)' = c
  BY <1>1, OldestOfOne DEF Resume
<1>4. c \in Resume(r) .. stored[r]
  BY <1>1, <1>2 DEF ProcessAssumption
<1>5. QED
  BY <1>3, <1>4 DEF Forward, Advances

(* The kernel's caches reach the disk. *)
LEMMA FlushForward ==
  ASSUME ProcessAssumption, Ordered, IInv, NEW s \in Streams, Flush(s), NEW r \in Streams
  PROVE  Forward(r)
<1>1. stored' = stored /\ stored[r] \in Int /\ file[s] \in survives[s]
  BY DEF Flush, IInv, ProcessTypeOK, ProcessAssumption
<1>2. survives'[r] = IF r = s THEN {file[s]} ELSE survives[r]
  BY DEF Flush, IInv, ProcessTypeOK
<1>3. QED
  BY <1>1, <1>2, SameDiskForward, SettledForward

(* The disk comes back with one of what was possible. *)
LEMMA PowerLossForward ==
  ASSUME ProcessAssumption, Ordered, IInv, PowerLoss, NEW r \in Streams
  PROVE  Forward(r)
<1>1. file'[r] \in survives[r] /\ survives'[r] = {file'[r]} /\ stored'[r] = stored[r]
  BY DEF PowerLoss
<1>2. QED
  BY <1>1, SettledForward

(* So each step of the service takes each stream forward, or leaves it. *)
LEMMA NextForward ==
  ASSUME ProcessAssumption, Ordered, IInv, [ProcessNext]_procVars, NEW r \in Streams
  PROVE  Forward(r)
<1>1. ASSUME NEW s \in Streams, Handle(s) \/ Commit(s) \/ SaveRename(s) \/ Flush(s)
      PROVE  Forward(r)
  BY <1>1, HandleForward, CommitForward, SaveRenameForward, FlushForward
<1>2. CASE PowerLoss
  BY <1>2, PowerLossForward
<1>3. ASSUME UNCHANGED <<stored, survives>>
      PROVE  Forward(r)
  <2>1. stored[r] <= stored'[r]
    BY <1>3 DEF IInv, ProcessTypeOK, ProcessAssumption
  <2>2. QED
    BY <1>3, <2>1, SameDiskForward
<1>4. ASSUME NEW s \in Streams,
             \/ Load(s) \/ LoadFails(s) \/ Tick(s) \/ EndOfStream(s)
             \/ SaveCreate(s) \/ SaveWrite(s) \/ StreamFails(s)
      PROVE  UNCHANGED <<stored, survives>>
  BY <1>4 DEF Load, LoadFails, Tick, EndOfStream, SaveCreate, SaveWrite, StreamFails, disk
<1>5. Kill \/ Exit \/ Restart \/ UNCHANGED procVars => UNCHANGED <<stored, survives>>
  BY DEF Kill, Exit, Restart, disk, procVars
<1>6. QED
  BY <1>1, <1>2, <1>3, <1>4, <1>5 DEF ProcessNext

-----------------------------------------------------------------------------
(* In the words of AtLeastOnce. *)
LEMMA ForwardIsPromised ==
  ASSUME ProcessAssumption, Ordered, IInv, IInv', NEW s \in Streams, Forward(s)
  PROVE  [Promise(s)!Next]_<<stored[s], Resume(s)>>
<1>1. stored[s] \in Positions /\ stored'[s] \in Positions
  BY DEF IInv, ProcessTypeOK
<1>2. CASE Stores(s)
  <2>1. 1 .. stored[s] \subseteq 1 .. stored'[s] /\ 1 .. stored'[s] \subseteq 1 .. NumLines
    BY <1>1, <1>2 DEF Stores, ProcessAssumption
  <2>2. QED
    BY <1>2, <2>1 DEF Stores, Promise!Next, Promise!Store
<1>3. CASE Advances(s)
  <2>1. Resume(s) \in Positions
    BY ResumeIsStored
  <2>2. Resume(s)' \in Resume(s) .. NumLines
    BY <1>1, <1>3, <2>1 DEF Advances, ProcessAssumption
  <2>3. \A l \in 1 .. NumLines : l <= Resume(s)' => l \in 1 .. stored[s]
    BY <1>1, <1>3, <2>1 DEF Advances, ProcessAssumption
  <2>4. QED
    BY <1>3, <2>2, <2>3 DEF Advances, Promise!Next, Promise!Advance
<1>4. QED
  BY <1>2, <1>3 DEF Forward

(* A service that never ran has stored nothing. *)
LEMMA InitIsPromised ==
  ASSUME ProcessAssumption, ProcessInit, NEW s \in Streams
  PROVE  Promise(s)!Init
<1>1. stored[s] = 0 /\ survives[s] = {0}
  BY DEF ProcessInit, All
<1>2. Resume(s) = 0
  BY <1>1, OldestOfOne DEF Resume, ProcessAssumption
<1>3. 1 .. stored[s] = {}
  BY <1>1
<1>4. QED
  BY <1>2, <1>3 DEF Promise!Init

(* Every stream of the service keeps the promise of AtLeastOnce whatever   *)
(* stops it: a kill between two system calls of save(), the error or the   *)
(* panic of another stream, a loss of power, provided that the file system *)
(* writes a file's data before its renaming.                               *)
THEOREM ServiceImplementsPromise ==
  ASSUME ProcessAssumption, Ordered
  PROVE  ProcessSpec => ImplementsPromise
<1>1. ProcessSpec => []IInv
  BY Invariance
<1>2. ProcessInit => \A s \in Streams : Promise(s)!Init
  BY InitIsPromised
<1>3. IInv /\ IInv' /\ [ProcessNext]_procVars
        => \A s \in Streams : [Promise(s)!Next]_<<stored[s], Resume(s)>>
  BY NextForward, ForwardIsPromised
<1>4. QED
  BY <1>1, <1>2, <1>3, PTL DEF ProcessSpec, ImplementsPromise

==============================================================================
