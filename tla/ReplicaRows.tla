----------------------------- MODULE ReplicaRows -----------------------------
(***************************************************************************)
(* How one line of replica_cmds becomes rows (parse of                     *)
(* src/src/streams/replica_cmds.rs): a block, its signed action bundles    *)
(* and their actions.  The node reports the responses of the bundles it    *)
(* executed in a list of its own, which need not have the order or the     *)
(* length of the list of bundles; the two are joined by bundle hash.       *)
(*                                                                         *)
(* Fields that may fail to parse, and then reject the line, are a BOOLEAN: *)
(* one for time and proposer of the block, one for each bundle, with its   *)
(* hash, its broadcaster and whatever its actions and the responses to     *)
(* them contain.  Fields copied from the line are left out.                *)
(***************************************************************************)
EXTENDS Integers, Sequences, FiniteSets, SequencesExt

CONSTANTS
  Hashes,       \* hashes of action bundles
  MaxBundles,   \* bundles of a line, and entries of its list of responses (bound)
  MaxActions,   \* actions of a bundle, and responses of an entry (bound)
  Statuses      \* what the node answers for an action

ASSUME ReplicaAssumption == MaxBundles \in Nat /\ MaxActions \in Nat

VARIABLES
  command,      \* the line: [ok, bundles, resps]
  stage,        \* "responses", "bundles", "ok", "error"
  responses,    \* the map parse builds: hash to responses
  bundles, actions   \* rows so far

replicaVars == <<command, stage, responses, bundles, actions>>

Bundle == [ok : BOOLEAN, hash : Hashes, actions : 0 .. MaxActions]

ResponseEntry == [hash : Hashes, responses : BoundedSeq(Statuses, MaxActions)]

(* Nothing in the line's types keeps bundles or responses of a line from   *)
(* having the same hash, or more responses than actions; resps may be      *)
(* absent, which is like an empty list.                                    *)
Command ==
  [ok : BOOLEAN, bundles : BoundedSeq(Bundle, MaxBundles),
   resps : BoundedSeq(ResponseEntry, MaxBundles)]

ReplicaTypeOK ==
  /\ command \in Command
  /\ stage \in {"responses", "bundles", "ok", "error"}
  /\ DOMAIN responses \subseteq Hashes
  /\ \A h \in DOMAIN responses : responses[h] \in BoundedSeq(Statuses, MaxActions)
  /\ bundles \in BoundedSeq(Hashes, MaxBundles)
  /\ \A a \in Range(actions) : a.status \in Statuses \union {""}

ReplicaInit ==
  /\ command \in Command
  /\ stage = "responses" /\ responses = << >> /\ bundles = << >> /\ actions = << >>

-----------------------------------------------------------------------------
RejectCommand == stage' = "error" /\ UNCHANGED <<command, responses, bundles, actions>>

(* The last entry of a hash is the one a HashMap keeps. *)
LastEntry(h) ==
  CHOOSE i \in DOMAIN command.resps :
    /\ command.resps[i].hash = h
    /\ \A j \in DOMAIN command.resps : command.resps[j].hash = h => j <= i

(* Time and proposer, then resps.full collected into a HashMap. *)
CollectResponses ==
  /\ stage = "responses"
  /\ \/ ~command.ok /\ RejectCommand
     \/ /\ command.ok /\ stage' = "bundles"
        /\ responses' = [h \in {e.hash : e \in Range(command.resps)} |->
                           command.resps[LastEntry(h)].responses]
        /\ UNCHANGED <<command, bundles, actions>>

(* Not the code: the n-th response list belongs to the n-th bundle. *)
ResponsesOf_ByPlace(h) ==
  IF Len(command.resps) > Len(bundles) THEN command.resps[Len(bundles) + 1].responses ELSE << >>

ResponsesOf(h) == IF h \in DOMAIN responses THEN responses[h] ELSE << >>

(* Not the code: an action without a response ends its bundle. *)
ActionRows_Zipped(b) ==
  [k \in 1 .. Len(ResponsesOf(b.hash)) |->
     [bundle |-> Len(bundles) + 1, bundle_hash |-> b.hash, place |-> k,
      status |-> ResponsesOf(b.hash)[k]]]

(* The rows of a bundle: an action without a response has an empty status. *)
(* The places of the bundle and the action are not columns of the table.   *)
ActionRows(b) ==
  [k \in 1 .. b.actions |->
     [bundle |-> Len(bundles) + 1, bundle_hash |-> b.hash, place |-> k,
      status |-> IF k <= Len(ResponsesOf(b.hash)) THEN ResponsesOf(b.hash)[k] ELSE ""]]

(* One bundle and all its actions. *)
NextBundle ==
  /\ stage = "bundles" /\ Len(bundles) < Len(command.bundles)
  /\ LET b == command.bundles[Len(bundles) + 1] IN
       \/ ~b.ok /\ RejectCommand
       \/ /\ b.ok
          /\ bundles' = Append(bundles, b.hash)
          /\ actions' = actions \o ActionRows(b)
          /\ UNCHANGED <<command, stage, responses>>

Finish ==
  /\ stage = "bundles" /\ Len(bundles) = Len(command.bundles)
  /\ stage' = "ok"
  /\ UNCHANGED <<command, responses, bundles, actions>>

ReplicaNext == CollectResponses \/ NextBundle \/ Finish

ReplicaSpec == ReplicaInit /\ [][ReplicaNext]_replicaVars

-----------------------------------------------------------------------------
(* An action is under the hash of its own bundle and has the status that   *)
(* an entry of that hash reports for its place, never one reported for     *)
(* another bundle; it is empty when the node reported none.                *)
StatusOfItsOwn ==
  \A a \in Range(actions) :
    LET reports == {e \in Range(command.resps) : e.hash = a.bundle_hash}
        answer(e) == IF a.place \in DOMAIN e.responses THEN e.responses[a.place] ELSE ""
    IN  /\ a.bundle_hash = command.bundles[a.bundle].hash
        /\ reports = {} => a.status = ""
        /\ reports # {} => \E e \in reports : a.status = answer(e)

(* README, storage: "`actions` | every action".  An accepted line has a    *)
(* row for every bundle and every action of it, answered or not, and a     *)
(* line is accepted when all of it parses.                                 *)
EveryAction ==
  LET valid == command.ok /\ \A i \in DOMAIN command.bundles : command.bundles[i].ok
  IN  /\ stage = "error" => ~valid
      /\ stage = "ok" =>
           /\ valid
           /\ bundles = [i \in DOMAIN command.bundles |-> command.bundles[i].hash]
           /\ \A i \in DOMAIN command.bundles :
                {a.place : a \in {r \in Range(actions) : r.bundle = i}}
                  = 1 .. command.bundles[i].actions
=============================================================================
