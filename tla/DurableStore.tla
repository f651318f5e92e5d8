---------------------------- MODULE DurableStore ----------------------------
(***************************************************************************)
(* What survives a controller: the artifact directory of an experiment     *)
(* (storage/artifact_store.py) and its SQLite database                     *)
(* (storage/database.py, event_log.py, state_store.py), which is modelled  *)
(* by its table of events.  Every transaction that changes a state or adds *)
(* an artifact row appends its event in the same transaction, so that the  *)
(* states, the versions and the rows can be read off the log.              *)
(*                                                                         *)
(* A name on disk lasts once its directory has been synced.  A transaction *)
(* lasts once SQLite has synced its write-ahead log, which at              *)
(* synchronous = NORMAL is at some later checkpoint: a loss of power takes *)
(* back any number of the last ones, in order.                             *)
(***************************************************************************)
EXTENDS Integers, Sequences, FiniteSets, FiniteSetsExt

VARIABLES disk,  \* the contents under each name
          firm,  \* what is left of them if the power fails
          log    \* the events, each with what it is of and what that became

store == <<disk, firm, log>>

(* The files of a round: model_exchange.json, model_failure_exchange.json, *)
(* the raw responses, model_response.json; and events.jsonl of the         *)
(* experiment, in a directory of its own.                                  *)
RoundFiles == {"exchange", "failure", "raw", "response"}

Files == RoundFiles \cup {"events"}

Directory(n) == IF n \in RoundFiles THEN RoundFiles ELSE {"events"}

(* The contents of a file that is not there; of others it says which call  *)
(* of the model they came from, after how many answers, and if it was good.*)
Nothing == [by |-> 0, answers |-> 0, good |-> FALSE]

Blank == [n \in Files |-> IF n \in RoundFiles THEN Nothing ELSE <<>>]

Empty == disk = Blank /\ firm = Blank /\ log = <<>>

-----------------------------------------------------------------------------
(* Files.                                                                  *)

Exists(n) == disk[n] # Nothing

(* Mutant: a name that is taken is as good as the file.                    *)
LinkableBlind(n, contents) == TRUE

(* A file is written under another name, synced and linked; whoever finds  *)
(* the name taken compares what is there with what it meant to put there.  *)
Linkable(n, contents) == Exists(n) => disk[n] = contents

Link(n, contents) == /\ Linkable(n, contents)
                     /\ disk' = [disk EXCEPT ![n] = IF Exists(n) THEN @ ELSE contents]
                     /\ UNCHANGED <<firm, log>>

(* overwrite: a rename replaces what is there.                             *)
Replace(n, contents) == /\ disk' = [disk EXCEPT ![n] = contents]
                        /\ UNCHANGED <<firm, log>>

(* The directory of n, with every name in it.                              *)
Sync(n) == /\ firm' = [m \in Files |-> IF m \in Directory(n) THEN disk[m] ELSE firm[m]]
           /\ UNCHANGED <<disk, log>>

-----------------------------------------------------------------------------
(* Transactions.                                                           *)

(* The way of an experiment, and of a round up to the answer of the model. *)
Paths ==
  [experiment |-> <<"CREATED", "RUNNING", "FINISHED">>,
   round |-> <<"ROUND_CREATED", "PROMPT_COMMITTED", "MODEL_REQUEST_SENT",
               "MODEL_RESPONSE_COMMITTED">>]

Event(of, to) == [of |-> of, to |-> to]

(* Where the events of x are.                                              *)
Of(events, x) == {i \in DOMAIN events : events[i].of = x}

(* The version column counts the changes of a state.                       *)
Version(x) == Cardinality(Of(log, x))

State(x) == IF Of(log, x) = {} THEN "absent" ELSE log[Max(Of(log, x))].to

Append1(e) == log' = Append(log, e) /\ UNCHANGED <<disk, firm>>

(* An INSERT of a row in its first state; a row that exists is returned.   *)
Create(x) == IF Of(log, x) = {} THEN Append1(Event(x, Paths[x][1])) ELSE UNCHANGED store

(* Mutant: what the caller believes of the row is not compared with it.    *)
MovableBlind(x, to, version) == TRUE

(* The state machine allows the step, and the version is the expected one. *)
Movable(x, to, version) ==
  /\ \E i \in 2 .. Len(Paths[x]) : Paths[x][i - 1] = State(x) /\ Paths[x][i] = to
  /\ version = Version(x)

Move(x, to, version) == Movable(x, to, version) /\ Append1(Event(x, to))

(* register_artifact(): a row that exists must be of the same file.        *)
Registrable(n, contents) == \A i \in Of(log, n) : log[i].to = contents

Register(n, contents) ==
  /\ Registrable(n, contents)
  /\ IF Of(log, n) = {} THEN Append1(Event(n, contents)) ELSE UNCHANGED store

(* A page of events, in the order of their sequence numbers.               *)
Page(cursor, limit) ==
  SubSeq(log, cursor + 1, IF cursor + limit < Len(log) THEN cursor + limit ELSE Len(log))

-----------------------------------------------------------------------------
PowerFails ==
  /\ \E lost \in SUBSET {n \in Files : firm[n] # disk[n]} :
       disk' = [n \in Files |-> IF n \in lost THEN firm[n] ELSE disk[n]]
  /\ firm' = disk'
  /\ \E n \in 0 .. Len(log) : log' = SubSeq(log, 1, n)
=============================================================================
