---------------------------- MODULE ExperimentRun ----------------------------
(***************************************************************************)
(* Controllers that run one experiment over the same store: the way        *)
(* ExperimentController.run() opens and closes the experiment, and the one *)
(* step of a round that cannot be computed again, the answer of the model: *)
(* its request with format repairs (llm/response.py) over transport        *)
(* retries (llm/openai_http.py, llm/claude_cli.py), and its way into the   *)
(* files and the database.  Nothing but the store keeps controllers from   *)
(* each other; each may die, or all of them with the power.                *)
(*                                                                         *)
(* The experiment has one task with one round, which is over once its      *)
(* answer is committed.  TaskController has the rest of the task.          *)
(***************************************************************************)
EXTENDS DurableStore

CONSTANTS Runs,         \* processes of the controller
          MaxRepairs,   \* maximum_format_repair_retries
          MaxAttempts,  \* api_attempts
          PageSize      \* events read at a time

ASSUME BoundsAssumption == /\ IsFiniteSet(Runs)
                           /\ MaxRepairs \in Nat
                           /\ MaxAttempts \in Nat \ {0}
                           /\ PageSize \in Nat \ {0}

VARIABLES hosts,  \* the processes that are ever started
          run     \* what each of them is at

vars == <<store, hosts, run>>

(* state and version are those of the round as it was read, answers the    *)
(* malformed answers so far, tries the failures of the request since,      *)
(* answer what is to be committed, todo the files it is committed to, and  *)
(* pages the events read so far.                                           *)
Idle == [pc |-> "idle", state |-> "absent", version |-> 0, answers |-> 0, tries |-> 0,
         answer |-> Nothing, todo |-> <<>>, pages |-> <<>>]

Init == /\ Empty
        /\ hosts \in SUBSET Runs \ {{}}
        /\ run = [r \in Runs |-> Idle]

At(r, pc) == run[r].pc = pc

Becomes(r, new) == run' = [run EXCEPT ![r] = new]

Goes(r, pc) == Becomes(r, [run[r] EXCEPT !.pc = pc])

(* An exception ends the run, and so does its death.                       *)
Ends(r) == Becomes(r, Idle)

Raises(r) == Ends(r) /\ UNCHANGED store

-----------------------------------------------------------------------------
(* initialize(): the experiment is opened by whoever comes first.          *)

Begin(r) == At(r, "idle") /\ Goes(r, "create") /\ UNCHANGED store

CreateExperiment(r) ==
  /\ At(r, "create") /\ Create("experiment")
  /\ Goes(r, IF State("experiment")' = "CREATED" THEN "open" ELSE "start")

(* No version is expected of the experiment, but its state is checked.     *)
Open(r) ==
  /\ At(r, "open")
  /\ \/ Move("experiment", "RUNNING", Version("experiment")) /\ Goes(r, "start")
     \/ ~Movable("experiment", "RUNNING", Version("experiment")) /\ Raises(r)

-----------------------------------------------------------------------------
(* _run_round(), up to the answer of the model.                            *)

StartRound(r) ==
  /\ At(r, "start") /\ Create("round")
  /\ Becomes(r, [run[r] EXCEPT !.pc = "round", !.state = State("round")',
                               !.version = Version("round")'])

(* The step of the round that this run believes is next.                   *)
Advance(r, from, to) ==
  /\ run[r].state = from
  /\ \/ /\ Move("round", to, run[r].version)
        /\ Becomes(r, [run[r] EXCEPT !.pc = "round", !.state = to, !.version = @ + 1])
     \/ ~Movable("round", to, run[r].version) /\ Raises(r)

CommitPrompt(r) == At(r, "round") /\ Advance(r, "ROUND_CREATED", "PROMPT_COMMITTED")

Send(r) == At(r, "round") /\ Advance(r, "PROMPT_COMMITTED", "MODEL_REQUEST_SENT")

(* What is looked for, one after the other, before the model is asked.     *)
Looks == [round |-> "response", response |-> "exchange",
          exchange |-> "failure", failure |-> "ask"]

Found(r) ==
  /\ run[r].pc \in RoundFiles /\ Exists(run[r].pc)
  /\ Becomes(r, [run[r] EXCEPT !.pc = "link", !.answer = disk[run[r].pc],
                   !.todo = IF At(r, "response") THEN <<"response">> ELSE <<"raw", "response">>])
  /\ UNCHANGED store

Look(r) ==
  /\ run[r].state = "MODEL_REQUEST_SENT" /\ run[r].pc \in DOMAIN Looks
  /\ ~At(r, "round") => ~Exists(run[r].pc)
  /\ Goes(r, Looks[run[r].pc])
  /\ UNCHANGED store

-----------------------------------------------------------------------------
(* complete_model_response(): a malformed answer is asked for once more,   *)
(* each time with the retries of the transport from the start.             *)

Calls == 1 .. Cardinality(RoundFiles) + Cardinality(Runs)

(* No two calls get the same answers.  A number that no file and no run    *)
(* has any more is used again.                                             *)
Fresh == CHOOSE c \in Calls : /\ \A n \in RoundFiles : c \notin {disk[n].by, firm[n].by}
                              /\ \A r \in Runs : c # run[r].answer.by

Answered(r, n, good) ==
  Becomes(r, [run[r] EXCEPT !.pc = "link", !.answers = 0, !.tries = 0,
                !.answer = [by |-> Fresh, answers |-> run[r].answers + 1, good |-> good],
                !.todo = <<n, "raw", "response">>])

Accept(r) == /\ At(r, "ask") /\ Answered(r, "exchange", TRUE)
             /\ UNCHANGED store

(* No JSON object of the protocol, for another round, or truncated.        *)
Reject(r) ==
  /\ At(r, "ask")
  /\ IF run[r].answers = MaxRepairs THEN Answered(r, "failure", FALSE)
     ELSE Becomes(r, [run[r] EXCEPT !.answers = @ + 1, !.tries = 0])
  /\ UNCHANGED store

(* Mutant: the attempts are counted from zero.                             *)
RetryOnceMore(r) ==
  /\ At(r, "ask") /\ run[r].tries < MaxAttempts
  /\ Becomes(r, [run[r] EXCEPT !.tries = @ + 1])
  /\ UNCHANGED store

(* A timeout, a lost connection, a busy or failing provider.               *)
Retry(r) ==
  /\ At(r, "ask") /\ run[r].tries + 1 < MaxAttempts
  /\ Becomes(r, [run[r] EXCEPT !.tries = @ + 1])
  /\ UNCHANGED store

(* The last of those, or one to be retried too late to wait for; wrong     *)
(* credentials, an envelope without content, a client whose safe mode is   *)
(* not proven: nothing that another request now would change.              *)
Refuse(r) == At(r, "ask") /\ Raises(r)

-----------------------------------------------------------------------------
(* _commit_json(), file by file.                                           *)

(* The response that stands for a round whose answers were all malformed.  *)
Synthetic == [by |-> 0, answers |-> 1, good |-> FALSE]

Contents(r, n) == IF n = "response" /\ ~run[r].answer.good THEN Synthetic ELSE run[r].answer

LinkFile(r) ==
  /\ At(r, "link")
  /\ LET n == Head(run[r].todo) IN
     \/ Link(n, Contents(r, n)) /\ Goes(r, "sync")
     \/ ~Linkable(n, Contents(r, n)) /\ Raises(r)

SyncFile(r) == /\ At(r, "sync") /\ Sync(Head(run[r].todo))
               /\ Goes(r, "row")

RegisterFile(r) ==
  /\ At(r, "row")
  /\ LET n == Head(run[r].todo) IN
     \/ /\ Register(n, Contents(r, n))
        /\ Becomes(r, [run[r] EXCEPT !.pc = IF n = "response" THEN "commit" ELSE "link",
                                     !.todo = Tail(@)])
     \/ ~Registrable(n, Contents(r, n)) /\ Raises(r)

Commit(r) ==
  At(r, "commit") /\ Advance(r, "MODEL_REQUEST_SENT", "MODEL_RESPONSE_COMMITTED")

-----------------------------------------------------------------------------
(* The end of run(): every task is over; who finds the experiment still    *)
(* running finishes it, and writes events.jsonl anew, page by page.        *)

Close(r) ==
  /\ At(r, "round") /\ run[r].state = "MODEL_RESPONSE_COMMITTED"
  /\ Becomes(r, [Idle EXCEPT !.pc = IF State("experiment") = "RUNNING"
                                    THEN "finish" ELSE "read"])
  /\ UNCHANGED store

Finish(r) ==
  /\ At(r, "finish")
  /\ \/ Move("experiment", "FINISHED", Version("experiment")) /\ Goes(r, "read")
     \/ ~Movable("experiment", "FINISHED", Version("experiment")) /\ Raises(r)

ReadPage(r) ==
  /\ At(r, "read")
  /\ LET page == Page(Len(run[r].pages), PageSize) IN
     IF page = <<>> THEN Goes(r, "show")
     ELSE Becomes(r, [run[r] EXCEPT !.pages = @ \o page])
  /\ UNCHANGED store

Show(r) == At(r, "show") /\ Replace("events", run[r].pages) /\ Goes(r, "shown")

Shown(r) == At(r, "shown") /\ Sync("events") /\ Ends(r)

-----------------------------------------------------------------------------
Crash(r) == ~At(r, "idle") /\ Raises(r)

PowerLoss == PowerFails /\ run' = [r \in Runs |-> Idle]

Step(r) == \/ Begin(r) \/ CreateExperiment(r) \/ Open(r)
           \/ StartRound(r) \/ CommitPrompt(r) \/ Send(r) \/ Found(r) \/ Look(r)
           \/ Accept(r) \/ Reject(r) \/ Retry(r) \/ Refuse(r)
           \/ LinkFile(r) \/ SyncFile(r) \/ RegisterFile(r) \/ Commit(r)
           \/ Close(r) \/ Finish(r) \/ ReadPage(r) \/ Show(r) \/ Shown(r)

Next == /\ PowerLoss \/ \E r \in hosts : Step(r) \/ Crash(r)
        /\ UNCHANGED hosts

Spec == Init /\ [][Next]_vars

-----------------------------------------------------------------------------
(* RunVerifier (verification.py), on what is modelled of a finished run.   *)

(* _verify_registered_artifacts().                                         *)
RowsMatch == \A i \in DOMAIN log : log[i].of \in RoundFiles => log[i].to = disk[log[i].of]

(* _verify_event_projection().                                             *)
ProjectionMatches == disk["events"] = log

Committed == State("round") = "MODEL_RESPONSE_COMMITTED"

(* _verify_database_lifecycle().                                           *)
LifecycleEnded == State("experiment") = "FINISHED" /\ Committed

Verifies == RowsMatch /\ ProjectionMatches /\ LifecycleEnded /\ Exists("response")

-----------------------------------------------------------------------------
Answers == {Nothing, Synthetic} \cup
           [by : Calls, answers : 1 .. MaxRepairs + 1, good : BOOLEAN]

(* A round asks for at most MaxRepairs + 1 answers, each with MaxAttempts  *)
(* requests: the two limits are never exceeded one inside the other.       *)
TypeOK ==
  /\ hosts \in SUBSET Runs \ {{}}
  /\ \A n \in RoundFiles : disk[n] \in Answers /\ firm[n] \in Answers
  /\ \A i \in DOMAIN log : log[i].of \in DOMAIN Paths \cup RoundFiles
  /\ \A r \in Runs :
       /\ run[r].pc \in {"idle", "create", "open", "start", "round", "response", "exchange",
                         "failure", "ask", "link", "sync", "row", "commit", "finish",
                         "read", "show", "shown"}
       /\ run[r].version \in 0 .. Len(Paths["round"])
       /\ run[r].answers \in 0 .. MaxRepairs
       /\ run[r].tries \in 0 .. MaxAttempts - 1
       /\ run[r].answer \in Answers

(* Whatever controllers run at the same time, die or lose their power: a   *)
(* row is of the file that is there; the response is that of the call      *)
(* whose raw answers and exchange are there with it, and stands for a      *)
(* failure only if all the answers a round may ask for were malformed; a   *)
(* committed round has the row of its response, and a finished experiment  *)
(* a committed round.                                                      *)
RecordIsTrue ==
  /\ RowsMatch
  /\ Exists("response") =>
       IF disk["response"].good
       THEN disk["exchange"] = disk["response"] /\ disk["raw"] = disk["response"]
       ELSE /\ disk["failure"] = disk["raw"]
            /\ disk["raw"].answers = MaxRepairs + 1 /\ ~disk["raw"].good
  /\ Committed => Cardinality(Of(log, "response")) = 1
  /\ State("experiment") = "FINISHED" => Committed

Follows(events) ==
  /\ \A x \in DOMAIN Paths : \A i \in Of(events, x) :
       LET n == Cardinality({j \in Of(events, x) : j <= i}) IN
       n <= Len(Paths[x]) /\ events[i].to = Paths[x][n]
  /\ \A n \in RoundFiles : Cardinality(Of(events, n)) <= 1

(* The events of the experiment and of the round are the beginning of a    *)
(* legal path, in the log and in events.jsonl, whoever wrote them and      *)
(* whatever was lost in between; no file is registered twice; and a        *)
(* controller that was alone from the start, with all its crashes and      *)
(* those of its host, comes to its end with a record that verifies.        *)
HistoryIsAPath ==
  /\ Follows(log) /\ Follows(disk["events"])
  /\ \A r \in Runs : hosts = {r} /\ At(r, "shown") => Verifies
=============================================================================
