------------------------ MODULE ExperimentRunProofs ------------------------
(***************************************************************************)
(* Proofs about controllers that share the store of one experiment, for    *)
(* any finite number of them and any limits on repairs and attempts.       *)
(***************************************************************************)
EXTENDS ExperimentRun, FiniteSetTheorems, SequenceTheorems, WellFoundedInduction, TLAPS

States == {"CREATED", "RUNNING", "FINISHED", "ROUND_CREATED", "PROMPT_COMMITTED",
           "MODEL_REQUEST_SENT", "MODEL_RESPONSE_COMMITTED"}

Events == [of : DOMAIN Paths \cup RoundFiles, to : Answers \cup States]

-----------------------------------------------------------------------------
(* Sets of naturals.                                                       *)

LEMMA LeastNatural ==
  ASSUME NEW S, S \subseteq Nat, S # {}
  PROVE  \E m \in S : \A n \in S : m <= n
<1>1. PICK m \in S : \A n \in S : ~(<<n, m>> \in OpToRel(<, Nat))
  BY NatLessThanWellFounded, WFMin
<1>2. ASSUME NEW n \in S PROVE m <= n
  <2>1. n \in Nat /\ m \in Nat
    OBVIOUS
  <2>2. n < m => <<n, m>> \in OpToRel(<, Nat)
    BY <2>1 DEF OpToRel
  <2>3. ~(n < m)
    BY <1>1, <2>2, Zenon
  <2>. QED  BY <2>1, <2>3
<1>. QED  BY <1>2

LEMMA MaxIs ==
  ASSUME NEW n \in Nat, NEW S \in SUBSET (1 .. n), S # {}
  PROVE  Max(S) \in S /\ \A i \in S : i <= Max(S)
<1>. DEFINE Above == {m \in Nat : \A i \in S : i <= m}
<1>1. PICK m \in Above : \A k \in Above : m <= k
  <2>1. n \in Above
    OBVIOUS
  <2>2. Above \subseteq Nat /\ Above # {}
    BY <2>1
  <2>. HIDE DEF Above
  <2>. QED  BY <2>2, LeastNatural
<1>2. m \in S
  <2>1. ASSUME m \notin S
        PROVE  FALSE
    <3>1. PICK i \in S : TRUE
      OBVIOUS
    <3>2. m - 1 \in Nat /\ \A j \in S : j <= m - 1
      BY <1>1, <2>1, <3>1
    <3>3. m - 1 \in Above
      BY <3>2
    <3>. QED  BY <1>1, <3>3
  <2>. QED  BY <2>1
<1>3. \E x \in S : \A y \in S : x >= y
  BY <1>1, <1>2
<1>4. Max(S) \in S /\ \A y \in S : Max(S) >= y
  BY <1>3 DEF Max
<1>. QED  BY <1>4

-----------------------------------------------------------------------------
(* Events and their positions.                                             *)

LEMMA PathsAre ==
  /\ DOMAIN Paths = {"experiment", "round"} /\ RoundFiles \cap DOMAIN Paths = {}
  /\ Len(Paths["experiment"]) = 3 /\ Len(Paths["round"]) = 4
  /\ Paths["experiment"][1] = "CREATED" /\ Paths["experiment"][2] = "RUNNING"
  /\ Paths["experiment"][3] = "FINISHED"
  /\ Paths["round"][1] = "ROUND_CREATED" /\ Paths["round"][2] = "PROMPT_COMMITTED"
  /\ Paths["round"][3] = "MODEL_REQUEST_SENT"
  /\ Paths["round"][4] = "MODEL_RESPONSE_COMMITTED"
BY DEF Paths, RoundFiles

LEMMA PathsDiffer ==
  ASSUME NEW x \in DOMAIN Paths
  PROVE  /\ Len(Paths[x]) \in Nat
         /\ \A i \in 1 .. Len(Paths[x]) : Paths[x][i] \in States
         /\ \A i, j \in 1 .. Len(Paths[x]) : Paths[x][i] = Paths[x][j] => i = j
BY DEF Paths, States

(* How many events of x there are up to the i-th event of all.             *)
Rank(s, x, i) == Cardinality({j \in Of(s, x) : j <= i})

LEMMA OfIs ==
  ASSUME NEW S, NEW s \in Seq(S), NEW x
  PROVE  /\ Of(s, x) \subseteq 1 .. Len(s) /\ IsFiniteSet(Of(s, x))
         /\ Cardinality(Of(s, x)) \in Nat
         /\ Of(s, x) = {} <=> Cardinality(Of(s, x)) = 0
         /\ \A i : /\ IsFiniteSet({j \in Of(s, x) : j <= i})
                   /\ Rank(s, x, i) \in Nat /\ Rank(s, x, i) <= Cardinality(Of(s, x))
                   /\ i \in Of(s, x) => Rank(s, x, i) >= 1
<1>1. Of(s, x) \subseteq 1 .. Len(s) /\ Len(s) \in Nat
  BY DEF Of
<1>2. IsFiniteSet(Of(s, x))
  <2>1. IsFiniteSet(1 .. Len(s))
    BY <1>1, FS_Interval
  <2>. QED  BY <1>1, <2>1, FS_Subset
<1>3. ASSUME NEW i
      PROVE  /\ IsFiniteSet({j \in Of(s, x) : j <= i})
             /\ Rank(s, x, i) \in Nat /\ Rank(s, x, i) <= Cardinality(Of(s, x))
             /\ i \in Of(s, x) => Rank(s, x, i) >= 1
  <2>. DEFINE T == {j \in Of(s, x) : j <= i}
  <2>1. T \in SUBSET Of(s, x)
    OBVIOUS
  <2>2. i \in Of(s, x) => i \in T
    BY <1>1
  <2>. HIDE DEF T
  <2>3. IsFiniteSet(T) /\ Cardinality(T) <= Cardinality(Of(s, x)) /\ Cardinality(T) \in Nat
    BY <1>2, <2>1, FS_Subset, FS_CardinalityType
  <2>4. T # {} => Cardinality(T) # 0
    BY <2>3, FS_EmptySet
  <2>. QED  BY <2>2, <2>3, <2>4 DEF T, Rank
<1>. QED  BY <1>1, <1>2, <1>3, FS_CardinalityType, FS_EmptySet

LEMMA AppendIs ==
  ASSUME NEW S, NEW s \in Seq(S), NEW e \in S, NEW x
  PROVE  LET t == Append(s, e) IN
         /\ t \in Seq(S) /\ Len(t) = Len(s) + 1 /\ t[Len(s) + 1] = e
         /\ \A i \in 1 .. Len(s) : t[i] = s[i]
         /\ Of(t, x) = IF e.of = x THEN Of(s, x) \cup {Len(s) + 1} ELSE Of(s, x)
         /\ Cardinality(Of(t, x)) =
              IF e.of = x THEN Cardinality(Of(s, x)) + 1 ELSE Cardinality(Of(s, x))
         /\ \A i \in 1 .. Len(s) : Rank(t, x, i) = Rank(s, x, i)
         /\ e.of = x => Rank(t, x, Len(s) + 1) = Cardinality(Of(s, x)) + 1
<1>. DEFINE t == Append(s, e)
<1>1. /\ t \in Seq(S) /\ Len(t) = Len(s) + 1 /\ t[Len(s) + 1] = e
      /\ \A i \in 1 .. Len(s) : t[i] = s[i]
      /\ DOMAIN t = 1 .. Len(s) + 1 /\ DOMAIN s = 1 .. Len(s) /\ Len(s) \in Nat
  OBVIOUS
<1>. HIDE DEF t
<1>2. Of(t, x) = IF e.of = x THEN Of(s, x) \cup {Len(s) + 1} ELSE Of(s, x)
  BY <1>1 DEF Of
<1>3. /\ Of(s, x) \subseteq 1 .. Len(s) /\ IsFiniteSet(Of(s, x))
      /\ Cardinality(Of(s, x)) \in Nat
  BY OfIs
<1>4. Len(s) + 1 \notin Of(s, x)
  BY <1>1, <1>3
<1>5. Cardinality(Of(t, x)) =
        IF e.of = x THEN Cardinality(Of(s, x)) + 1 ELSE Cardinality(Of(s, x))
  BY <1>2, <1>3, <1>4, FS_AddElement
<1>6. ASSUME NEW i \in 1 .. Len(s)
      PROVE  Rank(t, x, i) = Rank(s, x, i)
  <2>1. {j \in Of(t, x) : j <= i} = {j \in Of(s, x) : j <= i}
    BY <1>1, <1>2
  <2>. QED  BY <2>1 DEF Rank
<1>7. ASSUME e.of = x
      PROVE  Rank(t, x, Len(s) + 1) = Cardinality(Of(s, x)) + 1
  <2>1. {j \in Of(t, x) : j <= Len(s) + 1} = Of(t, x)
    BY <1>1, <1>2, <1>3
  <2>. QED  BY <1>5, <1>7, <2>1 DEF Rank
<1>. QED  BY <1>1, <1>2, <1>5, <1>6, <1>7 DEF t

LEMMA PrefixIs ==
  ASSUME NEW S, NEW s \in Seq(S), NEW n \in 0 .. Len(s), NEW x
  PROVE  LET t == SubSeq(s, 1, n) IN
         /\ t \in Seq(S) /\ Len(t) = n
         /\ \A i \in 1 .. n : t[i] = s[i]
         /\ Of(t, x) = {i \in Of(s, x) : i <= n}
         /\ Cardinality(Of(t, x)) \in Nat /\ Cardinality(Of(t, x)) <= Cardinality(Of(s, x))
         /\ \A i \in 1 .. n : Rank(t, x, i) = Rank(s, x, i)
<1>. DEFINE t == SubSeq(s, 1, n)
<1>1. Len(s) \in Nat /\ DOMAIN s = 1 .. Len(s) /\ \A i \in 1 .. n : s[i] \in S
  OBVIOUS
<1>2. /\ t \in Seq(S) /\ Len(t) = n
      /\ \A i \in 1 .. n : t[i] = s[i]
  BY <1>1, SubSeqProperties
<1>3. DOMAIN t = 1 .. n
  BY <1>2
<1>. HIDE DEF t
<1>4. Of(t, x) = {i \in Of(s, x) : i <= n}
  BY <1>1, <1>2, <1>3 DEF Of
<1>5. ASSUME NEW i \in 1 .. n
      PROVE  Rank(t, x, i) = Rank(s, x, i)
  <2>1. {j \in Of(t, x) : j <= i} = {j \in Of(s, x) : j <= i}
    BY <1>1, <1>4, OfIs
  <2>. QED  BY <2>1 DEF Rank
<1>6. Cardinality(Of(t, x)) \in Nat /\ Cardinality(Of(t, x)) <= Cardinality(Of(s, x))
  BY <1>4, OfIs DEF Rank
<1>. QED  BY <1>2, <1>4, <1>5, <1>6 DEF t

-----------------------------------------------------------------------------
(* Histories that follow the paths.                                        *)

LEMMA FollowsMeans ==
  ASSUME NEW s \in Seq(Events)
  PROVE  Follows(s) <=>
           /\ \A x \in DOMAIN Paths : \A i \in Of(s, x) :
                Rank(s, x, i) <= Len(Paths[x]) /\ s[i].to = Paths[x][Rank(s, x, i)]
           /\ \A n \in RoundFiles : Cardinality(Of(s, n)) <= 1
BY DEF Follows, Rank

LEMMA PrefixFollows ==
  ASSUME NEW s \in Seq(Events), Follows(s), NEW n \in 0 .. Len(s)
  PROVE  SubSeq(s, 1, n) \in Seq(Events) /\ Follows(SubSeq(s, 1, n))
<1>. DEFINE t == SubSeq(s, 1, n)
<1>1. t \in Seq(Events)
  BY PrefixIs
<1>2. ASSUME NEW x \in DOMAIN Paths, NEW i \in Of(t, x)
      PROVE  Rank(t, x, i) <= Len(Paths[x]) /\ t[i].to = Paths[x][Rank(t, x, i)]
  <2>1. i \in Of(s, x) /\ i \in 1 .. n /\ t[i] = s[i] /\ Rank(t, x, i) = Rank(s, x, i)
    BY PrefixIs, OfIs
  <2>. QED  BY <2>1, FollowsMeans
<1>3. ASSUME NEW m \in RoundFiles
      PROVE  Cardinality(Of(t, m)) <= 1
  <2>1. Cardinality(Of(t, m)) <= Cardinality(Of(s, m)) /\ Cardinality(Of(t, m)) \in Nat
        /\ Cardinality(Of(s, m)) \in Nat /\ Cardinality(Of(s, m)) <= 1
    BY PrefixIs, OfIs, FollowsMeans
  <2>. QED  BY <2>1
<1>. HIDE DEF t
<1>4. Follows(t)
  BY <1>1, <1>2, <1>3, FollowsMeans
<1>. QED  BY <1>1, <1>4 DEF t

(* What may be appended.                                                   *)
Next1(s, e) ==
  /\ e.of \in DOMAIN Paths => /\ Cardinality(Of(s, e.of)) < Len(Paths[e.of])
                              /\ e.to = Paths[e.of][Cardinality(Of(s, e.of)) + 1]
  /\ e.of \in RoundFiles => Of(s, e.of) = {}

LEMMA AppendFollows ==
  ASSUME NEW s \in Seq(Events), Follows(s), NEW e \in Events, Next1(s, e)
  PROVE  Follows(Append(s, e))
<1>. DEFINE t == Append(s, e)
<1>1. t \in Seq(Events) /\ Len(s) \in Nat
  BY AppendIs
<1>2. ASSUME NEW x \in DOMAIN Paths, NEW i \in Of(t, x)
      PROVE  Rank(t, x, i) <= Len(Paths[x]) /\ t[i].to = Paths[x][Rank(t, x, i)]
  <2>1. CASE i \in Of(s, x)
    <3>1. i \in 1 .. Len(s) /\ t[i] = s[i] /\ Rank(t, x, i) = Rank(s, x, i)
      BY <2>1, AppendIs, OfIs
    <3>. QED  BY <2>1, <3>1, FollowsMeans
  <2>2. CASE i \notin Of(s, x)
    <3>1. i = Len(s) + 1 /\ e.of = x
      BY <2>2, AppendIs
    <3>2. t[i] = e /\ Rank(t, x, i) = Cardinality(Of(s, x)) + 1
      BY <3>1, AppendIs
    <3>3. Cardinality(Of(s, x)) \in Nat /\ Len(Paths[x]) \in Nat
      BY OfIs, PathsDiffer
    <3>. QED  BY <3>1, <3>2, <3>3 DEF Next1
  <2>. QED  BY <2>1, <2>2
<1>3. ASSUME NEW m \in RoundFiles
      PROVE  Cardinality(Of(t, m)) <= 1
  <2>1. Cardinality(Of(s, m)) <= 1 /\ (e.of = m => Cardinality(Of(s, m)) = 0)
    BY FollowsMeans, OfIs DEF Next1
  <2>. QED  BY <2>1, AppendIs
<1>. HIDE DEF t
<1>. QED  BY <1>1, <1>2, <1>3, FollowsMeans DEF t

(* The last event of x stands where the count of its events says.          *)
LEMMA LastIs ==
  ASSUME NEW s \in Seq(Events), Follows(s), NEW x \in DOMAIN Paths, Of(s, x) # {}
  PROVE  /\ Max(Of(s, x)) \in Of(s, x)
         /\ Cardinality(Of(s, x)) \in 1 .. Len(Paths[x])
         /\ s[Max(Of(s, x))].to = Paths[x][Cardinality(Of(s, x))]
<1>. DEFINE m == Max(Of(s, x))
<1>1. m \in Of(s, x) /\ \A i \in Of(s, x) : i <= m
  <2>1. Of(s, x) \in SUBSET (1 .. Len(s)) /\ Len(s) \in Nat
    BY OfIs
  <2>. QED  BY <2>1, MaxIs
<1>. HIDE DEF m
<1>2. {j \in Of(s, x) : j <= m} = Of(s, x)
  BY <1>1
<1>3. Rank(s, x, m) = Cardinality(Of(s, x))
  BY <1>2 DEF Rank
<1>4. Cardinality(Of(s, x)) <= Len(Paths[x]) /\ s[m].to = Paths[x][Cardinality(Of(s, x))]
  BY <1>1, <1>3, FollowsMeans
<1>5. Cardinality(Of(s, x)) \in Nat /\ Cardinality(Of(s, x)) # 0 /\ Len(Paths[x]) \in Nat
  BY OfIs, PathsDiffer
<1>. QED  BY <1>1, <1>4, <1>5 DEF m

LEMMA CountIs ==
  ASSUME NEW s \in Seq(Events), Follows(s), NEW x \in DOMAIN Paths
  PROVE  Cardinality(Of(s, x)) \in 0 .. Len(Paths[x])
BY LastIs, OfIs, PathsDiffer

(* A path that has seen its last state is at its end.                      *)
LEMMA EndIs ==
  ASSUME NEW s \in Seq(Events), Follows(s), NEW x \in DOMAIN Paths, NEW i \in Of(s, x),
         NEW k \in 1 .. Len(Paths[x]), s[i].to = Paths[x][k]
  PROVE  Cardinality(Of(s, x)) >= k
<1>1. /\ Rank(s, x, i) \in Nat /\ Rank(s, x, i) >= 1 /\ Rank(s, x, i) <= Cardinality(Of(s, x))
      /\ Cardinality(Of(s, x)) \in Nat
  BY OfIs
<1>2. Rank(s, x, i) <= Len(Paths[x]) /\ s[i].to = Paths[x][Rank(s, x, i)]
  BY FollowsMeans
<1>3. Rank(s, x, i) = k
  <2>1. Rank(s, x, i) \in 1 .. Len(Paths[x])
    BY <1>1, <1>2, PathsDiffer
  <2>2. Paths[x][Rank(s, x, i)] = Paths[x][k]
    BY <1>2
  <2>. HIDE DEF Rank
  <2>. QED  BY <2>1, <2>2, PathsDiffer
<1>. QED  BY <1>1, <1>3

LEMMA EmptyFollows == <<>> \in Seq(Events) /\ Follows(<<>>)
<1>1. \A x : Of(<<>>, x) = {}
  BY DEF Of
<1>. QED  BY <1>1, FS_EmptySet DEF Follows

-----------------------------------------------------------------------------
(* The invariant: what the store holds (Stored), and what each controller  *)
(* knows of it (Sound).  Both are stated of any disk d, any rest f of it   *)
(* that lasts, any log l and any controller p, so that a step of one only  *)
(* has to be compared with the others.                                     *)

Looking    == {"response", "exchange", "failure", "ask"}
Committing == {"link", "sync", "row"}
Ending     == {"read", "show", "shown"}
Stages     == {"idle", "create", "open", "start", "round", "commit", "finish"}
              \cup Looking \cup Committing \cup Ending

Todos == {<<>>, <<"response">>, <<"raw", "response">>, <<"exchange", "raw", "response">>,
          <<"failure", "raw", "response">>}

Process == [pc : Stages, state : {"absent"} \cup States, version : Nat,
            answers : 0 .. MaxRepairs, tries : 0 .. MaxAttempts - 1, answer : Answers,
            todo : Todos, pages : Seq(Events)]

StoreTypes(d, f, l) ==
  /\ d = [n \in Files |-> d[n]] /\ f = [n \in Files |-> f[n]]
  /\ \A n \in RoundFiles : d[n] \in Answers
  /\ d["events"] \in Seq(Events) /\ f["events"] \in Seq(Events) /\ l \in Seq(Events)

(* What a loss of power would leave of a file is the file, or nothing.     *)
Kept(d, f) == \A n \in RoundFiles : f[n] \in {Nothing, d[n]}

Source(a) == IF a.good THEN "exchange" ELSE "failure"

Response(a) == IF a.good THEN a ELSE Synthetic

Asked(a) == a.answers \in 1 .. MaxRepairs + 1 /\ (~a.good => a.answers = MaxRepairs + 1)

(* The response of a, and what it was made from.                           *)
Made(a, f) == Asked(a) /\ f["raw"] = a /\ f[Source(a)] = a

Filed(d, f) ==
  /\ \A n \in {"exchange", "failure"} :
       d[n] # Nothing => Asked(d[n]) /\ Source(d[n]) = n
  /\ d["response"] # Nothing =>
       Made(f["raw"], f) /\ d["response"] = Response(f["raw"])

(* A row is of a file that no loss of power can take.                      *)
Rows(f, l) == \A n \in RoundFiles : \A i \in Of(l, n) :
                l[i].to # Nothing /\ f[n] = l[i].to

Lasting(d, f, l) == Follows(l) /\ Follows(d["events"]) /\ Follows(f["events"])

Has(l, x, to) == \E i \in Of(l, x) : l[i].to = to

Ordered(l) ==
  /\ \A i \in Of(l, "round") : l[i].to = "MODEL_RESPONSE_COMMITTED" =>
       \E j \in Of(l, "response") : j < i
  /\ \A i \in Of(l, "experiment") : l[i].to = "FINISHED" =>
       \E j \in Of(l, "round") : j < i /\ l[j].to = "MODEL_RESPONSE_COMMITTED"

Stored(d, f, l) == /\ StoreTypes(d, f, l) /\ Kept(d, f) /\ Filed(d, f) /\ Rows(f, l)
                   /\ Lasting(d, f, l) /\ Ordered(l)

(* What a controller still has to commit, and what of it is there.         *)
Pending(p, d, f) ==
  \/ p.todo = <<Source(p.answer), "raw", "response">> /\ Asked(p.answer)
  \/ /\ p.todo = <<"raw", "response">> /\ Asked(p.answer)
     /\ d[Source(p.answer)] = p.answer
     /\ p.pc = "row" => f[Source(p.answer)] = p.answer
  \/ /\ p.todo = <<"response">>
     /\ \/ Made(p.answer, f)
        \/ d["response"] = Response(p.answer) /\ p.answer # Nothing

ContentsOf(p, n) == IF n = "response" THEN Response(p.answer) ELSE p.answer

Storing(p, d, f) ==
  p.pc \in Committing =>
    /\ Pending(p, d, f)
    /\ p.pc \in {"sync", "row"} => d[Head(p.todo)] = ContentsOf(p, Head(p.todo))
    /\ p.pc = "row" => f[Head(p.todo)] = ContentsOf(p, Head(p.todo))

Knowing(p, l) ==
  /\ p.pc \notin {"idle", "create", "open"} => Cardinality(Of(l, "experiment")) >= 2
  /\ p.state # "absent" => Has(l, "round", p.state)
  /\ p.version <= Cardinality(Of(l, "round"))
  /\ p.pc \in Looking \cup Committing \cup {"commit"} => p.state = "MODEL_REQUEST_SENT"
  /\ p.pc = "commit" => Of(l, "response") # {}
  /\ p.pc \in {"finish"} \cup Ending => Has(l, "round", "MODEL_RESPONSE_COMMITTED")
  /\ p.pc \in Ending => Cardinality(Of(l, "experiment")) = 3

Reading(p, l) ==
  /\ p.pc \notin Ending => p.pages = <<>>
  /\ p.pc \in {"read", "show"} => \E n \in 0 .. Len(l) : p.pages = SubSeq(l, 1, n)

Sound(p, d, f, l) ==
  p \in Process /\ Storing(p, d, f) /\ Knowing(p, l) /\ Reading(p, l)

(* A controller that has the store to itself has seen all of the log.      *)
Seen(p, d, l) == /\ p.pc = "show" => p.pages = l
                 /\ p.pc = "shown" => d["events"] = l

Base ==
  /\ hosts \in SUBSET Runs \ {{}}
  /\ run = [r \in Runs |-> run[r]]
  /\ \A r \in Runs \ hosts : run[r] = Idle
  /\ Stored(disk, firm, log)
  /\ \A r \in Runs : Sound(run[r], disk, firm, log)
  /\ \A r \in Runs : hosts = {r} => Seen(run[r], disk, log)

-----------------------------------------------------------------------------
(* What an appended event changes.                                         *)

LEMMA NotNothing ==
  ASSUME NEW a
  PROVE  /\ Asked(a) => a # Nothing
         /\ a # Nothing => Response(a) # Nothing
BY DEF Asked, Nothing, Response, Synthetic

LEMMA NamesAre ==
  /\ Files = RoundFiles \cup {"events"} /\ "events" \notin RoundFiles
  /\ {"exchange", "failure", "raw", "response"} = RoundFiles
  /\ \A a : Source(a) \in {"exchange", "failure"}
BY DEF Files, RoundFiles, Source

(* When an event may follow the log l over the lasting files f.            *)
Fits(e, f, l) ==
  /\ e \in Events /\ Next1(l, e)
  /\ e.of \in RoundFiles => e.to # Nothing /\ f[e.of] = e.to
  /\ e.of = "round" /\ e.to = "MODEL_RESPONSE_COMMITTED" => Of(l, "response") # {}
  /\ e.of = "experiment" /\ e.to = "FINISHED" => Has(l, "round", "MODEL_RESPONSE_COMMITTED")

LEMMA AppendStores ==
  ASSUME NEW d, NEW f, NEW l, Stored(d, f, l), NEW e, Fits(e, f, l)
  PROVE  Stored(d, f, Append(l, e))
<1>. DEFINE t == Append(l, e)
<1>0. l \in Seq(Events) /\ e \in Events /\ Len(l) \in Nat
  BY DEF Stored, StoreTypes, Fits
<1>1. t \in Seq(Events) /\ Follows(t)
  BY <1>0, AppendIs, AppendFollows DEF Stored, Lasting, Fits
<1>2. \A x : Of(l, x) \subseteq 1 .. Len(l)
  BY <1>0, OfIs
<1>3. /\ \A i \in 1 .. Len(l) : t[i] = l[i]
      /\ t[Len(l) + 1] = e
      /\ \A x : Of(t, x) = IF e.of = x THEN Of(l, x) \cup {Len(l) + 1} ELSE Of(l, x)
  BY <1>0, AppendIs
<1>. HIDE DEF t
<1>4. Rows(f, t)
  BY <1>2, <1>3 DEF Rows, Stored, Fits
<1>5. Ordered(t)
  <2>1. ASSUME NEW i \in Of(t, "round"), t[i].to = "MODEL_RESPONSE_COMMITTED"
        PROVE  \E j \in Of(t, "response") : j < i
    <3>1. CASE i \in Of(l, "round")
      BY <1>2, <1>3, <2>1, <3>1 DEF Stored, Ordered
    <3>2. CASE i = Len(l) + 1 /\ e.of = "round"
      <4>1. PICK j \in Of(l, "response") : TRUE
        BY <1>3, <2>1, <3>2 DEF Fits
      <4>. QED  BY <1>0, <1>2, <1>3, <3>2, <4>1
    <3>. QED  BY <1>3, <3>1, <3>2
  <2>2. ASSUME NEW i \in Of(t, "experiment"), t[i].to = "FINISHED"
        PROVE  \E j \in Of(t, "round") : j < i /\ t[j].to = "MODEL_RESPONSE_COMMITTED"
    <3>1. CASE i \in Of(l, "experiment")
      BY <1>2, <1>3, <2>2, <3>1 DEF Stored, Ordered
    <3>2. CASE i = Len(l) + 1 /\ e.of = "experiment"
      <4>1. PICK j \in Of(l, "round") : l[j].to = "MODEL_RESPONSE_COMMITTED"
        BY <1>3, <2>2, <3>2 DEF Fits, Has
      <4>. QED  BY <1>0, <1>2, <1>3, <3>2, <4>1
    <3>. QED  BY <1>3, <3>1, <3>2
  <2>. QED  BY <2>1, <2>2 DEF Ordered
<1>. QED  BY <1>1, <1>4, <1>5 DEF Stored, StoreTypes, Lasting, t

(* Whatever was known of a log is known of a longer one.                   *)
LEMMA AppendKnows ==
  ASSUME NEW l \in Seq(Events), NEW e \in Events, NEW x
  PROVE  /\ Cardinality(Of(Append(l, e), x)) \in Nat /\ Cardinality(Of(l, x)) \in Nat
         /\ Cardinality(Of(Append(l, e), x)) >= Cardinality(Of(l, x))
         /\ Of(l, x) # {} => Of(Append(l, e), x) # {}
         /\ \A to : Has(l, x, to) => Has(Append(l, e), x, to)
         /\ e.of = x => Has(Append(l, e), x, e.to) /\ Of(Append(l, e), x) # {}
<1>. DEFINE t == Append(l, e)
<1>1. /\ Of(l, x) \subseteq 1 .. Len(l) /\ Len(l) \in Nat
      /\ Cardinality(Of(l, x)) \in Nat
  BY OfIs
<1>2. /\ \A i \in 1 .. Len(l) : t[i] = l[i]
      /\ t[Len(l) + 1] = e
      /\ Of(t, x) = IF e.of = x THEN Of(l, x) \cup {Len(l) + 1} ELSE Of(l, x)
      /\ Cardinality(Of(t, x)) =
           IF e.of = x THEN Cardinality(Of(l, x)) + 1 ELSE Cardinality(Of(l, x))
  BY AppendIs
<1>. HIDE DEF t
<1>. QED  BY <1>1, <1>2 DEF Has, t

LEMMA AppendPrefix ==
  ASSUME NEW l \in Seq(Events), NEW e \in Events, NEW n \in 0 .. Len(l)
  PROVE  /\ Len(Append(l, e)) = Len(l) + 1
         /\ SubSeq(Append(l, e), 1, n) = SubSeq(l, 1, n)
<1>. DEFINE t == Append(l, e)
<1>1. /\ t \in Seq(Events) /\ Len(t) = Len(l) + 1 /\ Len(l) \in Nat
      /\ \A i \in 1 .. Len(l) : t[i] = l[i]
  BY AppendIs
<1>. HIDE DEF t
<1>2. /\ SubSeq(t, 1, n) \in Seq(Events) /\ Len(SubSeq(t, 1, n)) = n
      /\ \A i \in 1 .. n : SubSeq(t, 1, n)[i] = t[i]
  BY <1>1, PrefixIs
<1>3. /\ SubSeq(l, 1, n) \in Seq(Events) /\ Len(SubSeq(l, 1, n)) = n
      /\ \A i \in 1 .. n : SubSeq(l, 1, n)[i] = l[i]
  BY PrefixIs
<1>4. SubSeq(t, 1, n) = SubSeq(l, 1, n)
  BY <1>1, <1>2, <1>3, SeqEqual
<1>. QED  BY <1>1, <1>4 DEF t

LEMMA AppendSound ==
  ASSUME NEW d, NEW f, NEW l, Stored(d, f, l), NEW e, Fits(e, f, l),
         NEW p, Sound(p, d, f, l)
  PROVE  Sound(p, d, f, Append(l, e))
<1>. DEFINE t == Append(l, e)
<1>0. l \in Seq(Events) /\ e \in Events /\ Len(l) \in Nat
  BY DEF Stored, StoreTypes, Fits
<1>1. \A x : /\ Cardinality(Of(t, x)) \in Nat /\ Cardinality(Of(l, x)) \in Nat
             /\ Cardinality(Of(t, x)) >= Cardinality(Of(l, x))
             /\ Of(l, x) # {} => Of(t, x) # {}
             /\ \A to : Has(l, x, to) => Has(t, x, to)
  BY <1>0, AppendKnows
<1>2. Cardinality(Of(l, "experiment")) = 3 => Of(t, "experiment") = Of(l, "experiment")
  <2>1. Cardinality(Of(l, "experiment")) = 3 => e.of # "experiment"
    BY PathsAre DEF Fits, Next1
  <2>. QED  BY <1>0, <2>1, AppendIs
<1>3. Len(t) = Len(l) + 1 /\ \A n \in 0 .. Len(l) : SubSeq(t, 1, n) = SubSeq(l, 1, n)
  BY <1>0, AppendPrefix, AppendIs
<1>. HIDE DEF t
<1>4. p.version \in Nat
  BY DEF Sound, Process
<1>5. Knowing(p, t)
  BY <1>1, <1>2, <1>4 DEF Sound, Knowing
<1>6. Reading(p, t)
  BY <1>0, <1>3 DEF Sound, Reading
<1>. QED  BY <1>5, <1>6 DEF Sound, t

-----------------------------------------------------------------------------
(* What a file written or synced changes.                                  *)

(* When c may be linked under the name n.                                  *)
Due(n, c, f) ==
  /\ n \in RoundFiles /\ c \in Answers \ {Nothing}
  /\ n \in {"exchange", "failure"} => Asked(c) /\ Source(c) = n
  /\ n = "response" => Made(f["raw"], f) /\ c = Response(f["raw"])

Written(d, n, c) == [d EXCEPT ![n] = IF d[n] # Nothing THEN @ ELSE c]

LEMMA LinkStores ==
  ASSUME NEW d, NEW f, NEW l, Stored(d, f, l), NEW n, NEW c,
         d[n] = c \/ Due(n, c, f), n \in RoundFiles, d[n] # Nothing => d[n] = c
  PROVE  Stored(Written(d, n, c), f, l)
<1>. DEFINE w == Written(d, n, c)
<1>1. CASE d[n] = c
  <2>1. Written(d, n, c) = d
    BY <1>1 DEF Written, Stored, StoreTypes
  <2>. QED  BY <2>1
<1>2. CASE d[n] # c
  <2>1. /\ d[n] = Nothing /\ Due(n, c, f)
        /\ w = [m \in Files |-> IF m = n THEN c ELSE d[m]]
        /\ n # "events"
    BY <1>2, NamesAre DEF Written, Stored, StoreTypes
  <2>. HIDE DEF w
  <2>2. StoreTypes(w, f, l) /\ Kept(w, f)
    BY <2>1, NamesAre DEF Stored, StoreTypes, Kept, Due
  <2>3. Filed(w, f)
    BY <2>1, NamesAre DEF Stored, Filed, Due
  <2>4. Lasting(w, f, l)
    BY <2>1, NamesAre DEF Stored, Lasting
  <2>. QED  BY <2>2, <2>3, <2>4 DEF Stored, w
<1>. QED  BY <1>1, <1>2

LEMMA HeadsAre ==
  ASSUME NEW p, NEW d, NEW f, Pending(p, d, f)
  PROVE  /\ p.todo # <<>>
         /\ Head(p.todo) \in RoundFiles
         /\ ContentsOf(p, Head(p.todo)) # Nothing
         /\ p.answer # Nothing
<1>1. p.answer # Nothing /\ Response(p.answer) # Nothing
  BY NotNothing DEF Pending, Made
<1>2. Head(p.todo) \in RoundFiles /\ p.todo # <<>>
  BY NamesAre DEF Pending
<1>. QED  BY <1>1, <1>2 DEF ContentsOf

(* What a controller has stored stays where nothing else takes its place.  *)
LEMMA StoringStays ==
  ASSUME NEW d, NEW f, NEW d2, NEW f2, NEW p, Storing(p, d, f),
         \A n \in RoundFiles : /\ d[n] # Nothing => d2[n] = d[n]
                               /\ f[n] # Nothing => f2[n] = f[n]
  PROVE  Storing(p, d2, f2)
<1>. SUFFICES ASSUME p.pc \in Committing
              PROVE  Storing(p, d2, f2)
  BY DEF Storing
<1>1. Pending(p, d, f)
  BY DEF Storing
<1>2. /\ Head(p.todo) \in RoundFiles /\ ContentsOf(p, Head(p.todo)) # Nothing
      /\ p.answer # Nothing /\ Response(p.answer) # Nothing
      /\ Source(p.answer) \in RoundFiles /\ "raw" \in RoundFiles /\ "response" \in RoundFiles
  BY <1>1, HeadsAre, NotNothing, NamesAre
<1>3. Pending(p, d2, f2)
  BY <1>1, <1>2 DEF Pending, Made
<1>. QED  BY <1>2, <1>3 DEF Storing

LEMMA LinkSound ==
  ASSUME NEW d, NEW f, NEW l, Stored(d, f, l), NEW n \in RoundFiles, NEW c,
         NEW p, Sound(p, d, f, l)
  PROVE  Sound(p, Written(d, n, c), f, l)
<1>1. \A m \in RoundFiles : d[m] # Nothing => Written(d, n, c)[m] = d[m]
  BY NamesAre DEF Written, Stored, StoreTypes
<1>2. Storing(p, Written(d, n, c), f)
  BY <1>1, StoringStays DEF Sound
<1>. QED  BY <1>2 DEF Sound

Synced(d, f, n) == [m \in Files |-> IF m \in Directory(n) THEN d[m] ELSE f[m]]

LEMMA SyncStores ==
  ASSUME NEW d, NEW f, NEW l, Stored(d, f, l), NEW n \in Files
  PROVE  /\ Stored(d, Synced(d, f, n), l)
         /\ \A m \in RoundFiles : f[m] # Nothing => Synced(d, f, n)[m] = f[m]
         /\ n \in RoundFiles => \A m \in RoundFiles : Synced(d, f, n)[m] = d[m]
<1>. DEFINE g == Synced(d, f, n)
<1>1. /\ g = [m \in Files |-> g[m]]
      /\ \A m \in RoundFiles : g[m] = IF n \in RoundFiles THEN d[m] ELSE f[m]
      /\ g["events"] = IF n \in RoundFiles THEN f["events"] ELSE d["events"]
  BY NamesAre DEF Synced, Directory
<1>. HIDE DEF g
<1>2. \A m \in RoundFiles : f[m] \in {Nothing, d[m]}
  BY DEF Stored, Kept
<1>3. \A m \in RoundFiles : f[m] # Nothing => g[m] = f[m]
  BY <1>1, <1>2
<1>4. StoreTypes(d, g, l) /\ Kept(d, g) /\ Lasting(d, g, l)
  BY <1>1, <1>2 DEF Stored, StoreTypes, Kept, Lasting
<1>5. Rows(g, l)
  BY <1>3 DEF Stored, Rows
<1>6. Filed(d, g)
  <2>1. ASSUME d["response"] # Nothing
        PROVE  Made(g["raw"], g) /\ d["response"] = Response(g["raw"])
    <3>1. Made(f["raw"], f) /\ d["response"] = Response(f["raw"])
      BY <2>1 DEF Stored, Filed
    <3>2. f["raw"] # Nothing /\ Source(f["raw"]) \in RoundFiles /\ "raw" \in RoundFiles
      BY <3>1, NotNothing, NamesAre DEF Made
    <3>3. g["raw"] = f["raw"] /\ g[Source(f["raw"])] = f[Source(f["raw"])]
      BY <1>3, <3>1, <3>2 DEF Made
    <3>. QED  BY <3>1, <3>3 DEF Made
  <2>. QED  BY <2>1 DEF Stored, Filed
<1>. QED  BY <1>1, <1>3, <1>4, <1>5, <1>6 DEF Stored, g

LEMMA SyncSound ==
  ASSUME NEW d, NEW f, NEW l, Stored(d, f, l), NEW n \in Files, NEW p, Sound(p, d, f, l)
  PROVE  Sound(p, d, Synced(d, f, n), l)
<1>1. Storing(p, d, Synced(d, f, n))
  BY SyncStores, StoringStays DEF Sound
<1>. QED  BY <1>1 DEF Sound

LEMMA ReplaceStores ==
  ASSUME NEW d, NEW f, NEW l, Stored(d, f, l), NEW c \in Seq(Events), Follows(c)
  PROVE  /\ Stored([d EXCEPT !["events"] = c], f, l)
         /\ \A p : Sound(p, d, f, l) => Sound(p, [d EXCEPT !["events"] = c], f, l)
<1>. DEFINE w == [d EXCEPT !["events"] = c]
<1>1. /\ w = [m \in Files |-> w[m]] /\ w["events"] = c
      /\ \A m \in RoundFiles : w[m] = d[m]
  BY NamesAre DEF Stored, StoreTypes
<1>. HIDE DEF w
<1>2. Stored(w, f, l)
  BY <1>1, NamesAre DEF Stored, StoreTypes, Kept, Filed, Lasting
<1>3. ASSUME NEW p, Sound(p, d, f, l)
      PROVE  Sound(p, w, f, l)
  <2>1. Storing(p, w, f)
    BY <1>1, <1>3, StoringStays DEF Sound
  <2>. QED  BY <1>3, <2>1 DEF Sound
<1>. QED  BY <1>2, <1>3 DEF w


-----------------------------------------------------------------------------
(* What a loss of power leaves.                                            *)

Left(d, f, lost) == [m \in Files |-> IF m \in lost THEN f[m] ELSE d[m]]

LEMMA LossOrders ==
  ASSUME NEW l \in Seq(Events), Ordered(l), NEW n \in 0 .. Len(l)
  PROVE  Ordered(SubSeq(l, 1, n))
<1>. DEFINE t == SubSeq(l, 1, n)
<1>1. Len(l) \in Nat /\ \A x : Of(l, x) \subseteq 1 .. Len(l)
  BY OfIs
<1>2. /\ \A i \in 1 .. n : t[i] = l[i]
      /\ \A x : Of(t, x) = {i \in Of(l, x) : i <= n}
  BY PrefixIs
<1>. HIDE DEF t
<1>3. ASSUME NEW i \in Of(t, "round"), t[i].to = "MODEL_RESPONSE_COMMITTED"
      PROVE  \E j \in Of(t, "response") : j < i
  <2>1. i \in Of(l, "round") /\ i <= n /\ l[i].to = "MODEL_RESPONSE_COMMITTED" /\ i \in Nat
    BY <1>1, <1>2, <1>3
  <2>2. PICK j \in Of(l, "response") : j < i
    BY <2>1 DEF Ordered
  <2>. QED  BY <1>1, <1>2, <2>1, <2>2
<1>4. ASSUME NEW i \in Of(t, "experiment"), t[i].to = "FINISHED"
      PROVE  \E j \in Of(t, "round") : j < i /\ t[j].to = "MODEL_RESPONSE_COMMITTED"
  <2>1. i \in Of(l, "experiment") /\ i <= n /\ l[i].to = "FINISHED" /\ i \in Nat
    BY <1>1, <1>2, <1>4
  <2>2. PICK j \in Of(l, "round") : j < i /\ l[j].to = "MODEL_RESPONSE_COMMITTED"
    BY <2>1 DEF Ordered
  <2>. QED  BY <1>1, <1>2, <2>1, <2>2
<1>. QED  BY <1>3, <1>4 DEF Ordered, t

LEMMA LossStores ==
  ASSUME NEW d, NEW f, NEW l, Stored(d, f, l), NEW lost, NEW n \in 0 .. Len(l)
  PROVE  Stored(Left(d, f, lost), Left(d, f, lost), SubSeq(l, 1, n))
<1>. DEFINE w == Left(d, f, lost)
            t == SubSeq(l, 1, n)
<1>0. l \in Seq(Events) /\ Len(l) \in Nat
  BY DEF Stored, StoreTypes
<1>1. w = [m \in Files |-> w[m]] /\ \A m \in Files : w[m] \in {d[m], f[m]}
  BY DEF Left
<1>2. t \in Seq(Events) /\ Follows(t)
  BY <1>0, PrefixFollows DEF Stored, Lasting
<1>3. Ordered(t)
  BY <1>0, LossOrders DEF Stored
<1>4. /\ \A i \in 1 .. n : t[i] = l[i]
      /\ \A x : Of(t, x) = {i \in Of(l, x) : i <= n} /\ Of(l, x) \subseteq 1 .. Len(l)
  BY <1>0, PrefixIs, OfIs
<1>. HIDE DEF w, t
<1>5. \A m \in RoundFiles : f[m] \in {Nothing, d[m]}
  BY DEF Stored, Kept
<1>6. \A m \in RoundFiles : w[m] \in {Nothing, d[m]} /\ (f[m] # Nothing => w[m] = f[m])
  BY <1>1, <1>5, NamesAre
<1>7. Nothing \in Answers
  BY DEF Answers
<1>8. StoreTypes(w, w, t) /\ Lasting(w, w, t)
  BY <1>1, <1>2, <1>6, <1>7, NamesAre DEF Stored, StoreTypes, Lasting
<1>9. Kept(w, w)
  BY DEF Kept
<1>10. Rows(w, t)
  <2>1. ASSUME NEW m \in RoundFiles, NEW i \in Of(t, m)
        PROVE  t[i].to # Nothing /\ w[m] = t[i].to
    <3>1. i \in Of(l, m) /\ i \in 1 .. n /\ t[i] = l[i]
      BY <1>0, <1>4, <2>1
    <3>2. l[i].to # Nothing /\ f[m] = l[i].to
      BY <3>1 DEF Stored, Rows
    <3>. QED  BY <1>6, <3>1, <3>2
  <2>. QED  BY <2>1 DEF Rows
<1>11. Filed(w, w)
  <2>1. ASSUME w["response"] # Nothing
        PROVE  Made(w["raw"], w) /\ w["response"] = Response(w["raw"])
    <3>1. /\ d["response"] # Nothing /\ w["response"] = d["response"]
          /\ Made(f["raw"], f) /\ d["response"] = Response(f["raw"])
      BY <1>6, <2>1, NamesAre DEF Stored, Filed
    <3>2. f["raw"] # Nothing /\ Source(f["raw"]) \in RoundFiles /\ "raw" \in RoundFiles
      BY <3>1, NotNothing, NamesAre DEF Made
    <3>3. w["raw"] = f["raw"] /\ w[Source(f["raw"])] = f[Source(f["raw"])]
      BY <1>6, <3>1, <3>2 DEF Made
    <3>. QED  BY <3>1, <3>3 DEF Made
  <2>2. ASSUME NEW m \in {"exchange", "failure"}, w[m] # Nothing
        PROVE  Asked(w[m]) /\ Source(w[m]) = m
    <3>1. w[m] = d[m]
      BY <1>6, <2>2, NamesAre
    <3>. QED  BY <2>2, <3>1 DEF Stored, Filed
  <2>. QED  BY <2>1, <2>2 DEF Filed
<1>. QED  BY <1>3, <1>8, <1>9, <1>10, <1>11 DEF Stored, w, t

LEMMA IdleIsSound ==
  ASSUME NEW d, NEW f, NEW l, Stored(d, f, l)
  PROVE  Sound(Idle, d, f, l) /\ Seen(Idle, d, l)
<1>1. Cardinality(Of(l, "round")) \in Nat
  BY OfIs DEF Stored, StoreTypes
<1>2. Nothing \in Answers /\ <<>> \in Seq(Events)
  BY EmptyFollows DEF Answers
<1>3. Idle \in Process
  BY <1>2, BoundsAssumption DEF Process, Idle, Stages, Todos
<1>4. Storing(Idle, d, f) /\ Knowing(Idle, l) /\ Reading(Idle, l) /\ Seen(Idle, d, l)
  BY <1>1 DEF Storing, Knowing, Reading, Seen, Idle, Looking, Committing, Ending
<1>. QED  BY <1>3, <1>4 DEF Sound

-----------------------------------------------------------------------------
(* A fresh number: there is always one that nothing bears.                 *)

(* The response bears the number of the raw answers, or none; and what     *)
(* lasts of a file that of the file, or none.                              *)
LEMMA NumbersAre ==
  ASSUME NEW d, NEW f, NEW l, Stored(d, f, l), NEW n \in RoundFiles
  PROVE  {d[n].by, f[n].by} \subseteq {0, d["exchange"].by, d["failure"].by, d["raw"].by}
<1>1. f[n] \in {Nothing, d[n]} /\ f["raw"] \in {Nothing, d["raw"]}
  BY NamesAre DEF Stored, Kept
<1>2. d["response"] \in {Nothing, Synthetic, d["raw"]}
  BY <1>1, NotNothing DEF Stored, Filed, Response, Made
<1>3. Nothing.by = 0 /\ Synthetic.by = 0
  BY DEF Nothing, Synthetic
<1>4. n \in {"exchange", "failure", "raw", "response"}
  BY NamesAre
<1>. QED  BY <1>1, <1>2, <1>3, <1>4

LEMMA FreshIs ==
  ASSUME Base
  PROVE  Fresh \in Calls
<1>. DEFINE h == [r \in Runs |-> run[r].answer.by]
            H == {run[r].answer.by : r \in Runs}
            F == {disk["exchange"].by, disk["failure"].by, disk["raw"].by}
<1>1. IsFiniteSet(Runs) /\ Cardinality(Runs) \in Nat
  BY BoundsAssumption, FS_CardinalityType
<1>2. IsFiniteSet(H) /\ Cardinality(H) <= Cardinality(Runs)
  <2>1. h \in Surjection(Runs, H)
    BY DEF Surjection
  <2>. HIDE DEF h, H
  <2>. QED  BY <1>1, <2>1, FS_Surjection
<1>3. IsFiniteSet(F) /\ Cardinality(F) <= 3
  <2>1. ASSUME NEW a, NEW b, NEW c
        PROVE  IsFiniteSet({a, b, c}) /\ Cardinality({a, b, c}) <= 3
    <3>1. IsFiniteSet({a}) /\ Cardinality({a}) = 1
      BY FS_Singleton
    <3>2. IsFiniteSet({a} \cup {b}) /\ Cardinality({a} \cup {b}) <= 2
      BY <3>1, FS_AddElement
    <3>3. IsFiniteSet({a} \cup {b} \cup {c}) /\ Cardinality({a} \cup {b} \cup {c}) <= 3
      <4>1. Cardinality({a} \cup {b}) \in Nat
        BY <3>2, FS_CardinalityType
      <4>. QED  BY <3>2, <4>1, FS_AddElement
    <3>4. {a} \cup {b} \cup {c} = {a, b, c}
      OBVIOUS
    <3>. QED  BY <3>3, <3>4
  <2>. QED  BY <2>1
<1>4. Cardinality(RoundFiles) = 4
  <2>1. IsFiniteSet({}) /\ Cardinality({}) = 0
    BY FS_EmptySet
  <2>2. IsFiniteSet({"exchange"}) /\ Cardinality({"exchange"}) = 1
    BY FS_Singleton
  <2>3. /\ IsFiniteSet({"exchange"} \cup {"failure"})
        /\ Cardinality({"exchange"} \cup {"failure"}) = 2
    BY <2>2, FS_AddElement
  <2>4. /\ IsFiniteSet({"exchange"} \cup {"failure"} \cup {"raw"})
        /\ Cardinality({"exchange"} \cup {"failure"} \cup {"raw"}) = 3
    BY <2>3, FS_AddElement
  <2>5. /\ IsFiniteSet({"exchange"} \cup {"failure"} \cup {"raw"} \cup {"response"})
        /\ Cardinality({"exchange"} \cup {"failure"} \cup {"raw"} \cup {"response"}) = 4
    BY <2>4, FS_AddElement
  <2>6. {"exchange"} \cup {"failure"} \cup {"raw"} \cup {"response"} = RoundFiles
    BY DEF RoundFiles
  <2>. QED  BY <2>5, <2>6
<1>5. IsFiniteSet(F \cup H) /\ Cardinality(F \cup H) <= 3 + Cardinality(Runs)
  <2>. HIDE DEF F, H
  <2>1. Cardinality(F) \in Nat /\ Cardinality(H) \in Nat
    BY <1>2, <1>3, FS_CardinalityType
  <2>2. IsFiniteSet(F \cap H) /\ Cardinality(F \cap H) \in Nat
    BY <1>3, FS_Intersection, FS_CardinalityType
  <2>. QED  BY <1>1, <1>2, <1>3, <2>1, <2>2, FS_Union
<1>6. IsFiniteSet(Calls) /\ Cardinality(Calls) = 4 + Cardinality(Runs)
  <2>1. Calls = 1 .. 4 + Cardinality(Runs)
    BY <1>4 DEF Calls
  <2>2. 4 + Cardinality(Runs) \in Nat /\ 4 + Cardinality(Runs) >= 1
    BY <1>1
  <2>. QED  BY <2>1, <2>2, FS_Interval
<1>7. PICK c \in Calls : c \notin F \cup H
  <2>. HIDE DEF F, H
  <2>1. ~(Calls \subseteq F \cup H)
    <3>1. ASSUME Calls \subseteq F \cup H
          PROVE  FALSE
      <4>1. Cardinality(Calls) <= Cardinality(F \cup H)
        BY <1>5, <3>1, FS_Subset
      <4>2. Cardinality(F \cup H) \in Nat
        BY <1>5, FS_CardinalityType
      <4>. QED  BY <1>1, <1>5, <1>6, <4>1, <4>2
    <3>. QED  BY <3>1
  <2>. QED  BY <2>1
<1>8. c # 0
  BY <1>1, <1>4, <1>7 DEF Calls
<1>9. \A n \in RoundFiles : c \notin {disk[n].by, firm[n].by}
  <2>1. \A n \in RoundFiles : {disk[n].by, firm[n].by} \subseteq {0} \cup F
    BY NumbersAre DEF Base
  <2>. QED  BY <1>7, <1>8, <2>1
<1>10. \A r \in Runs : c # run[r].answer.by
  BY <1>7
<1>. QED  BY <1>9, <1>10 DEF Fresh

-----------------------------------------------------------------------------
(* The steps.  Each shows what it makes of the store and of its            *)
(* controller, and the others know what they knew.                         *)

LEMMA Keeping ==
  ASSUME Base, UNCHANGED hosts, NEW r \in hosts, NEW p, Becomes(r, p),
         Stored(disk', firm', log'),
         Sound(p, disk', firm', log'),
         \A q : Sound(q, disk, firm, log) => Sound(q, disk', firm', log'),
         hosts = {r} => Seen(p, disk', log')
  PROVE  Base'
<1>1. /\ r \in Runs /\ hosts \in SUBSET Runs \ {{}}
      /\ run = [s \in Runs |-> run[s]] /\ run' = [run EXCEPT ![r] = p]
  BY DEF Base, Becomes
<1>2. /\ run' = [s \in Runs |-> run'[s]] /\ run'[r] = p
      /\ \A s \in Runs \ {r} : run'[s] = run[s]
  BY <1>1
<1>3. hosts' \in SUBSET Runs \ {{}} /\ \A s \in Runs \ hosts' : run'[s] = Idle
  BY <1>1, <1>2 DEF Base
<1>4. ASSUME NEW s \in Runs
      PROVE  /\ Sound(run'[s], disk', firm', log')
             /\ hosts' = {s} => Seen(run'[s], disk', log')
  <2>1. CASE s = r
    BY <1>2, <2>1
  <2>2. CASE s # r
    <3>1. Sound(run[s], disk, firm, log)
      BY DEF Base
    <3>2. hosts' # {s}
      BY <2>2
    <3>. QED  BY <1>2, <2>2, <3>1, <3>2
  <2>. QED  BY <2>1, <2>2
<1>. QED  BY <1>2, <1>3, <1>4 DEF Base

LEMMA KeepingStore ==
  ASSUME Base, UNCHANGED hosts, NEW r \in hosts, NEW p, Becomes(r, p), UNCHANGED store,
         Sound(p, disk, firm, log), hosts = {r} => Seen(p, disk, log)
  PROVE  Base'
<1>1. disk' = disk /\ firm' = firm /\ log' = log
  BY DEF store
<1>2. Stored(disk, firm, log)
  BY DEF Base
<1>3. /\ Stored(disk', firm', log') /\ Sound(p, disk', firm', log')
      /\ \A q : Sound(q, disk, firm, log) => Sound(q, disk', firm', log')
      /\ hosts = {r} => Seen(p, disk', log')
  BY <1>1, <1>2
<1>. QED  BY <1>3, Keeping

LEMMA KeepingAppend ==
  ASSUME Base, UNCHANGED hosts, NEW r \in hosts, NEW p, Becomes(r, p),
         NEW e, Append1(e), Fits(e, firm, log),
         Sound(p, disk, firm, Append(log, e)),
         hosts = {r} => Seen(p, disk, Append(log, e))
  PROVE  Base'
<1>1. disk' = disk /\ firm' = firm /\ log' = Append(log, e)
  BY DEF Append1
<1>2. Stored(disk, firm, log)
  BY DEF Base
<1>3. /\ Stored(disk, firm, Append(log, e))
      /\ \A q : Sound(q, disk, firm, log) => Sound(q, disk, firm, Append(log, e))
  BY <1>2, AppendStores, AppendSound
<1>4. /\ Stored(disk', firm', log') /\ Sound(p, disk', firm', log')
      /\ \A q : Sound(q, disk, firm, log) => Sound(q, disk', firm', log')
      /\ hosts = {r} => Seen(p, disk', log')
  BY <1>1, <1>3
<1>. QED  BY <1>4, Keeping

LEMMA RaisesKeeps ==
  ASSUME Base, UNCHANGED hosts, NEW r \in hosts, Raises(r)
  PROVE  Base'
<1>1. Stored(disk, firm, log)
  BY DEF Base
<1>2. Sound(Idle, disk, firm, log) /\ Seen(Idle, disk, log)
  BY <1>1, IdleIsSound
<1>3. Becomes(r, Idle) /\ UNCHANGED store
  BY DEF Raises, Ends
<1>. QED  BY <1>2, <1>3, KeepingStore

(* What one controller starts from.                                        *)
LEMMA Knows ==
  ASSUME Base, NEW r \in hosts
  PROVE  /\ Sound(run[r], disk, firm, log) /\ Stored(disk, firm, log)
         /\ hosts = {r} => Seen(run[r], disk, log)
         /\ run[r] \in Process /\ Storing(run[r], disk, firm)
         /\ Knowing(run[r], log) /\ Reading(run[r], log)
         /\ log \in Seq(Events) /\ Follows(log) /\ Len(log) \in Nat
<1>1. r \in Runs
  BY DEF Base
<1>2. Sound(run[r], disk, firm, log) /\ Stored(disk, firm, log)
  BY <1>1 DEF Base
<1>. QED  BY <1>1, <1>2 DEF Base, Sound, Stored, StoreTypes, Lasting

(* A state that is there, and a step that the machine allows.              *)
LEMMA StateIs ==
  ASSUME Base, NEW x \in DOMAIN Paths
  PROVE  LET n == Cardinality(Of(log, x)) IN
         /\ n \in 0 .. Len(Paths[x]) /\ Version(x) = n
         /\ n = 0 => Of(log, x) = {} /\ State(x) = "absent"
         /\ n # 0 => /\ n \in 1 .. Len(Paths[x]) /\ State(x) = Paths[x][n]
                     /\ Has(log, x, State(x)) /\ Of(log, x) # {}
<1>. DEFINE n == Cardinality(Of(log, x))
<1>1. log \in Seq(Events) /\ Follows(log)
  BY DEF Base, Stored, StoreTypes, Lasting
<1>2. n \in 0 .. Len(Paths[x]) /\ Version(x) = n
  BY <1>1, CountIs DEF Version
<1>3. Of(log, x) = {} <=> n = 0
  BY <1>1, OfIs
<1>4. n = 0 => Of(log, x) = {} /\ State(x) = "absent"
  BY <1>3 DEF State
<1>5. ASSUME n # 0
      PROVE  /\ n \in 1 .. Len(Paths[x]) /\ State(x) = Paths[x][n]
             /\ Has(log, x, State(x)) /\ Of(log, x) # {}
  BY <1>1, <1>3, <1>5, LastIs DEF State, Has
<1>. QED  BY <1>2, <1>4, <1>5

LEMMA MoveIs ==
  ASSUME Base, NEW x \in DOMAIN Paths, NEW to, NEW version, Movable(x, to, version)
  PROVE  LET n == Cardinality(Of(log, x)) IN
         /\ n \in 1 .. Len(Paths[x]) - 1 /\ version = n
         /\ State(x) = Paths[x][n] /\ to = Paths[x][n + 1] /\ to \in States
         /\ Event(x, to) \in Events /\ Event(x, to).of = x /\ Event(x, to).to = to
         /\ Next1(log, Event(x, to))
<1>. DEFINE n == Cardinality(Of(log, x))
<1>1. PICK i \in 2 .. Len(Paths[x]) : Paths[x][i - 1] = State(x) /\ Paths[x][i] = to
  BY DEF Movable
<1>2. /\ Len(Paths[x]) \in Nat /\ \A k \in 1 .. Len(Paths[x]) : Paths[x][k] \in States
      /\ \A k, j \in 1 .. Len(Paths[x]) : Paths[x][k] = Paths[x][j] => k = j
  BY PathsDiffer
<1>3. /\ n \in 0 .. Len(Paths[x]) /\ Version(x) = n
      /\ n = 0 => State(x) = "absent"
      /\ n # 0 => n \in 1 .. Len(Paths[x]) /\ State(x) = Paths[x][n]
  BY StateIs
<1>4. "absent" \notin States
  BY DEF States
<1>5. i - 1 \in 1 .. Len(Paths[x]) /\ i \in 1 .. Len(Paths[x])
  BY <1>1, <1>2
<1>6. n = i - 1
  <2>. HIDE DEF n
  <2>1. State(x) \in States
    BY <1>1, <1>2, <1>5
  <2>. QED  BY <1>1, <1>2, <1>3, <1>4, <1>5, <2>1
<1>7. Event(x, to) \in Events /\ Event(x, to).of = x /\ Event(x, to).to = to /\ to \in States
  BY <1>1, <1>2, <1>5 DEF Event, Events
<1>8. x \notin RoundFiles
  BY PathsAre
<1>9. Next1(log, Event(x, to))
  BY <1>1, <1>2, <1>5, <1>6, <1>7, <1>8 DEF Next1
<1>. QED  BY <1>1, <1>2, <1>3, <1>5, <1>6, <1>7, <1>9 DEF Movable

LEMMA BeginKeeps ==
  ASSUME Base, UNCHANGED hosts, NEW r \in hosts, Begin(r)
  PROVE  Base'
<1>. DEFINE p == [run[r] EXCEPT !.pc = "create"]
<1>1. run[r].pc = "idle" /\ Becomes(r, p) /\ UNCHANGED store
  BY DEF Begin, At, Goes
<1>2. p \in Process
  BY Knows DEF Process, Stages
<1>3. /\ p.pc = "create" /\ p.state = run[r].state /\ p.version = run[r].version
      /\ p.pages = run[r].pages
  BY Knows DEF Process
<1>. HIDE DEF p
<1>4. Storing(p, disk, firm) /\ Knowing(p, log) /\ Reading(p, log) /\ Seen(p, disk, log)
  BY <1>1, <1>3, Knows DEF Storing, Knowing, Reading, Seen, Committing, Looking, Ending
<1>5. Sound(p, disk, firm, log)
  BY <1>2, <1>4 DEF Sound
<1>. QED  BY <1>1, <1>4, <1>5, KeepingStore

LEMMA CreateExperimentKeeps ==
  ASSUME Base, UNCHANGED hosts, NEW r \in hosts, CreateExperiment(r)
  PROVE  Base'
<1>. DEFINE e == Event("experiment", "CREATED")
            x == "experiment"
<1>0. /\ run[r].pc = "create" /\ Create(x)
      /\ Goes(r, IF State(x)' = "CREATED" THEN "open" ELSE "start")
  BY DEF CreateExperiment, At
<1>1. PICK pc : pc = IF State(x)' = "CREATED" THEN "open" ELSE "start"
  OBVIOUS
<1>. DEFINE p == [run[r] EXCEPT !.pc = pc]
<1>2. p \in Process /\ pc \in {"open", "start"}
  BY <1>1, Knows DEF Process, Stages
<1>3. /\ p.pc = pc /\ p.state = run[r].state /\ p.version = run[r].version
      /\ p.pages = run[r].pages
  BY Knows DEF Process
<1>4. Becomes(r, p)
  BY <1>0, <1>1 DEF Goes
<1>. HIDE DEF p
<1>5. ASSUME NEW l \in Seq(Events), Knowing(run[r], l),
             pc = "start" => Cardinality(Of(l, "experiment")) >= 2
      PROVE  Storing(p, disk, firm) /\ Knowing(p, l) /\ Reading(p, l) /\ Seen(p, disk, l)
  BY <1>0, <1>2, <1>3, <1>5, Knows
  DEF Storing, Knowing, Reading, Seen, Committing, Looking, Ending
<1>6. CASE Of(log, x) = {}
  <2>1. Append1(e)
    BY <1>0, <1>6, PathsAre DEF Create
  <2>2. /\ Cardinality(Of(log, x)) = 0 /\ e \in Events /\ e.of = x /\ e.to = "CREATED"
        /\ x \in DOMAIN Paths /\ x \notin RoundFiles
    BY <1>6, FS_EmptySet, PathsAre DEF Event, Events, States
  <2>3. Fits(e, firm, log)
    BY <2>2, PathsAre DEF Fits, Next1
  <2>4. Stored(disk, firm, Append(log, e)) /\ Sound(run[r], disk, firm, Append(log, e))
    BY <2>3, Knows, AppendStores, AppendSound
  <2>5. State(x)' = "CREATED"
    <3>1. log' = Append(log, e)
      BY <2>1 DEF Append1
    <3>2. /\ Append(log, e) \in Seq(Events) /\ Follows(Append(log, e))
          /\ Cardinality(Of(Append(log, e), x)) = 1
      BY <2>2, <2>4, Knows, AppendIs DEF Stored, StoreTypes, Lasting
    <3>3. Of(Append(log, e), x) # {}
      BY <3>2, FS_EmptySet
    <3>4. Append(log, e)[Max(Of(Append(log, e), x))].to = "CREATED"
      BY <2>2, <3>2, <3>3, LastIs, PathsAre
    <3>. QED  BY <3>1, <3>3, <3>4 DEF State
  <2>6. pc = "open" /\ Append(log, e) \in Seq(Events) /\ Knowing(run[r], Append(log, e))
    BY <1>1, <2>4, <2>5 DEF Sound, Stored, StoreTypes
  <2>. HIDE DEF e
  <2>7. Sound(p, disk, firm, Append(log, e)) /\ Seen(p, disk, Append(log, e))
    BY <1>2, <1>5, <2>6 DEF Sound
  <2>. QED  BY <1>4, <2>1, <2>3, <2>7, KeepingAppend
<1>7. CASE Of(log, x) # {}
  <2>1. UNCHANGED store
    BY <1>0, <1>7 DEF Create
  <2>2. State(x)' = State(x)
    BY <2>1 DEF State, store
  <2>3. pc = "start" => Cardinality(Of(log, x)) >= 2
    BY <1>1, <1>7, <2>2, StateIs, PathsAre
  <2>4. Sound(p, disk, firm, log) /\ Seen(p, disk, log)
    BY <1>2, <1>5, <2>3, Knows DEF Sound
  <2>. QED  BY <1>4, <2>1, <2>4, KeepingStore
<1>. QED  BY <1>6, <1>7

LEMMA OpenKeeps ==
  ASSUME Base, UNCHANGED hosts, NEW r \in hosts, Open(r)
  PROVE  Base'
<1>. DEFINE e == Event("experiment", "RUNNING")
            p == [run[r] EXCEPT !.pc = "start"]
<1>1. CASE Raises(r)
  BY <1>1, RaisesKeeps
<1>2. CASE Move("experiment", "RUNNING", Version("experiment")) /\ Goes(r, "start")
  <2>1. run[r].pc = "open" /\ Becomes(r, p) /\ Append1(e)
    BY <1>2 DEF Open, At, Goes, Move
  <2>2. /\ e \in Events /\ e.of = "experiment" /\ e.to = "RUNNING" /\ Next1(log, e)
        /\ Cardinality(Of(log, "experiment")) >= 1 /\ "experiment" \notin RoundFiles
    BY <1>2, MoveIs, PathsAre DEF Move
  <2>3. Fits(e, firm, log)
    BY <2>2 DEF Fits
  <2>4. Sound(run[r], disk, firm, Append(log, e))
    BY <2>3, Knows, AppendSound
  <2>5. Cardinality(Of(Append(log, e), "experiment")) >= 2
    BY <2>2, Knows, AppendIs, OfIs
  <2>6. p \in Process
    BY Knows DEF Process, Stages
  <2>7. /\ p.pc = "start" /\ p.state = run[r].state /\ p.version = run[r].version
        /\ p.pages = run[r].pages
    BY Knows DEF Process
  <2>. HIDE DEF p, e
  <2>8. /\ Storing(p, disk, firm) /\ Knowing(p, Append(log, e)) /\ Reading(p, Append(log, e))
        /\ Seen(p, disk, Append(log, e))
    BY <2>1, <2>4, <2>5, <2>7
    DEF Sound, Storing, Knowing, Reading, Seen, Committing, Looking, Ending
  <2>9. Sound(p, disk, firm, Append(log, e))
    BY <2>6, <2>8 DEF Sound
  <2>. QED  BY <2>1, <2>3, <2>8, <2>9, KeepingAppend
<1>. QED  BY <1>1, <1>2 DEF Open

LEMMA StartRoundKeeps ==
  ASSUME Base, UNCHANGED hosts, NEW r \in hosts, StartRound(r)
  PROVE  Base'
<1>. DEFINE e == Event("round", "ROUND_CREATED")
            x == "round"
<1>0. /\ run[r].pc = "start" /\ Create(x)
      /\ Becomes(r, [run[r] EXCEPT !.pc = "round", !.state = State(x)',
                                   !.version = Version(x)'])
  BY DEF StartRound, At
<1>1. PICK s, v : s = State(x)' /\ v = Version(x)'
  OBVIOUS
<1>. DEFINE p == [run[r] EXCEPT !.pc = "round", !.state = s, !.version = v]
<1>2. s \in States /\ v \in Nat => p \in Process
  BY Knows DEF Process, Stages
<1>3. p.pc = "round" /\ p.state = s /\ p.version = v /\ p.pages = run[r].pages
  BY Knows DEF Process
<1>4. Becomes(r, p)
  BY <1>0, <1>1
<1>. HIDE DEF p
<1>5. ASSUME NEW l \in Seq(Events), Knowing(run[r], l), Has(l, x, s),
             v = Cardinality(Of(l, x)), v \in Nat
      PROVE  Storing(p, disk, firm) /\ Knowing(p, l) /\ Reading(p, l) /\ Seen(p, disk, l)
  BY <1>0, <1>3, <1>5, Knows
  DEF Storing, Knowing, Reading, Seen, Committing, Looking, Ending
<1>6. CASE Of(log, x) = {}
  <2>1. Append1(e)
    BY <1>0, <1>6, PathsAre DEF Create
  <2>2. /\ Cardinality(Of(log, x)) = 0 /\ e \in Events /\ e.of = x /\ e.to = "ROUND_CREATED"
        /\ x \in DOMAIN Paths /\ x \notin RoundFiles /\ "ROUND_CREATED" \in States
    BY <1>6, FS_EmptySet, PathsAre DEF Event, Events, States
  <2>3. Fits(e, firm, log)
    BY <2>2, PathsAre DEF Fits, Next1
  <2>4. Stored(disk, firm, Append(log, e)) /\ Sound(run[r], disk, firm, Append(log, e))
    BY <2>3, Knows, AppendStores, AppendSound
  <2>5. log' = Append(log, e)
    BY <2>1 DEF Append1
  <2>6. /\ Append(log, e) \in Seq(Events) /\ Follows(Append(log, e))
        /\ Cardinality(Of(Append(log, e), x)) = 1
    BY <2>2, <2>4, Knows, AppendIs DEF Stored, StoreTypes, Lasting
  <2>7. Of(Append(log, e), x) # {}
    BY <2>6, FS_EmptySet
  <2>8. Append(log, e)[Max(Of(Append(log, e), x))].to = "ROUND_CREATED"
    BY <2>2, <2>6, <2>7, LastIs, PathsAre
  <2>9. s = "ROUND_CREATED" /\ v = 1
    BY <1>1, <2>5, <2>6, <2>7, <2>8 DEF State, Version
  <2>10. Knowing(run[r], Append(log, e)) /\ Has(Append(log, e), x, s)
    BY <2>2, <2>4, <2>9, Knows, AppendKnows DEF Sound
  <2>. HIDE DEF e
  <2>11. Sound(p, disk, firm, Append(log, e)) /\ Seen(p, disk, Append(log, e))
    BY <1>2, <1>5, <2>2, <2>6, <2>9, <2>10 DEF Sound
  <2>. QED  BY <1>4, <2>1, <2>3, <2>11, KeepingAppend
<1>7. CASE Of(log, x) # {}
  <2>1. UNCHANGED store
    BY <1>0, <1>7 DEF Create
  <2>2. s = State(x) /\ v = Version(x)
    BY <1>1, <2>1 DEF State, Version, store
  <2>3. Has(log, x, s) /\ v = Cardinality(Of(log, x)) /\ v \in Nat /\ s \in States
    BY <1>7, <2>2, StateIs, PathsAre, PathsDiffer
  <2>4. Sound(p, disk, firm, log) /\ Seen(p, disk, log)
    BY <1>2, <1>5, <2>3, Knows DEF Sound
  <2>. QED  BY <1>4, <2>1, <2>4, KeepingStore
<1>. QED  BY <1>6, <1>7

LEMMA AdvanceKeeps ==
  ASSUME Base, UNCHANGED hosts, NEW r \in hosts, NEW from, NEW to, Advance(r, from, to),
         run[r].pc \in {"round", "commit"},
         to = "MODEL_RESPONSE_COMMITTED" => run[r].pc = "commit"
  PROVE  Base'
<1>. DEFINE e == Event("round", to)
            p == [run[r] EXCEPT !.pc = "round", !.state = to, !.version = @ + 1]
<1>1. CASE Raises(r)
  BY <1>1, RaisesKeeps
<1>2. CASE Move("round", to, run[r].version) /\ Becomes(r, p)
  <2>1. Append1(e) /\ Becomes(r, p)
    BY <1>2 DEF Move
  <2>2. /\ e \in Events /\ e.of = "round" /\ e.to = to /\ Next1(log, e) /\ to \in States
        /\ run[r].version = Cardinality(Of(log, "round")) /\ "round" \notin RoundFiles
    BY <1>2, MoveIs, PathsAre DEF Move
  <2>3. Fits(e, firm, log)
    BY <2>2, Knows DEF Fits, Knowing
  <2>4. Sound(run[r], disk, firm, Append(log, e))
    BY <2>3, Knows, AppendSound
  <2>5. /\ Cardinality(Of(Append(log, e), "round")) = run[r].version + 1
        /\ Has(Append(log, e), "round", to)
    BY <2>2, Knows, AppendIs, AppendKnows
  <2>6. p \in Process
    <3>1. run[r].version + 1 \in Nat /\ run[r] \in Process
      BY Knows DEF Process
    <3>2. to \in {"absent"} \cup States /\ "round" \in Stages
      BY <2>2 DEF Stages
    <3>. QED  BY <3>1, <3>2 DEF Process
  <2>7. /\ p.pc = "round" /\ p.state = to /\ p.version = run[r].version + 1
        /\ p.pages = run[r].pages /\ p.version \in Nat
    BY Knows DEF Process
  <2>. HIDE DEF p, e
  <2>8. /\ Storing(p, disk, firm) /\ Knowing(p, Append(log, e)) /\ Reading(p, Append(log, e))
        /\ Seen(p, disk, Append(log, e))
    BY <2>4, <2>5, <2>7
    DEF Sound, Storing, Knowing, Reading, Seen, Committing, Looking, Ending
  <2>9. Sound(p, disk, firm, Append(log, e))
    BY <2>6, <2>8 DEF Sound
  <2>. QED  BY <2>1, <2>3, <2>8, <2>9, KeepingAppend
<1>. QED  BY <1>1, <1>2 DEF Advance

LEMMA FoundKeeps ==
  ASSUME Base, UNCHANGED hosts, NEW r \in hosts, Found(r)
  PROVE  Base'
<1>. DEFINE n == run[r].pc
            a == disk[n]
            todo == IF n = "response" THEN <<"response">> ELSE <<"raw", "response">>
            p == [run[r] EXCEPT !.pc = "link", !.answer = a, !.todo = todo]
<1>1. n \in {"response", "exchange", "failure"} /\ a # Nothing
  BY Knows DEF Found, Exists, Process, Stages, Looking, Committing, Ending, RoundFiles
<1>2. Becomes(r, p) /\ UNCHANGED store
  BY DEF Found, At
<1>3. p \in Process
  <2>1. n \in RoundFiles /\ StoreTypes(disk, firm, log)
    BY <1>1, Knows, NamesAre DEF Stored
  <2>2. a \in Answers /\ todo \in Todos /\ "link" \in Stages
    BY <2>1 DEF StoreTypes, Stages, Committing, Todos
  <2>. HIDE DEF a, todo
  <2>. QED  BY <2>2, Knows DEF Process
<1>4. /\ p.pc = "link" /\ p.answer = a /\ p.todo = todo
      /\ p.state = run[r].state /\ p.version = run[r].version /\ p.pages = run[r].pages
  BY Knows DEF Process
<1>5. Pending(p, disk, firm)
  <2>. HIDE DEF p
  <2>1. CASE n = "response"
    <3>1. a = Response(firm["raw"])
      BY <1>1, <2>1, Knows DEF Stored, Filed
    <3>2. Response(a) = a
      BY <3>1 DEF Response, Synthetic
    <3>. QED  BY <1>1, <1>4, <2>1, <3>2 DEF Pending
  <2>2. CASE n # "response"
    <3>1. Asked(a) /\ Source(a) = n
      BY <1>1, <2>2, Knows DEF Stored, Filed
    <3>. QED  BY <1>4, <2>2, <3>1 DEF Pending
  <2>. QED  BY <2>1, <2>2
<1>. HIDE DEF p
<1>6. Storing(p, disk, firm) /\ Knowing(p, log) /\ Reading(p, log) /\ Seen(p, disk, log)
  BY <1>1, <1>4, <1>5, Knows
  DEF Storing, Knowing, Reading, Seen, Committing, Looking, Ending
<1>7. Sound(p, disk, firm, log)
  BY <1>3, <1>6 DEF Sound
<1>. QED  BY <1>2, <1>6, <1>7, KeepingStore

LEMMA LookKeeps ==
  ASSUME Base, UNCHANGED hosts, NEW r \in hosts, Look(r)
  PROVE  Base'
<1>. DEFINE pc == Looks[run[r].pc]
            p == [run[r] EXCEPT !.pc = pc]
<1>1. /\ run[r].pc \in {"round", "response", "exchange", "failure"}
      /\ pc \in Looking /\ run[r].state = "MODEL_REQUEST_SENT"
  BY DEF Look, Looks, Looking
<1>2. Becomes(r, p) /\ UNCHANGED store
  BY DEF Look, Goes
<1>3. p \in Process
  BY <1>1, Knows DEF Process, Stages
<1>4. /\ p.pc = pc /\ p.state = run[r].state /\ p.version = run[r].version
      /\ p.pages = run[r].pages
  BY Knows DEF Process
<1>. HIDE DEF p, pc
<1>5. Storing(p, disk, firm) /\ Knowing(p, log) /\ Reading(p, log) /\ Seen(p, disk, log)
  BY <1>1, <1>4, Knows DEF Storing, Knowing, Reading, Seen, Committing, Looking, Ending
<1>6. Sound(p, disk, firm, log)
  BY <1>3, <1>5 DEF Sound
<1>. QED  BY <1>2, <1>5, <1>6, KeepingStore

(* An answer that ends the request: a good one, or the last allowed.       *)
LEMMA AnsweredKeeps ==
  ASSUME Base, UNCHANGED hosts, NEW r \in hosts, At(r, "ask"), UNCHANGED store,
         NEW n, NEW good \in BOOLEAN, Answered(r, n, good),
         n = IF good THEN "exchange" ELSE "failure",
         ~good => run[r].answers = MaxRepairs
  PROVE  Base'
<1>1. PICK a : a = [by |-> Fresh, answers |-> run[r].answers + 1, good |-> good]
  OBVIOUS
<1>. DEFINE p == [run[r] EXCEPT !.pc = "link", !.answers = 0, !.tries = 0, !.answer = a,
                                !.todo = <<n, "raw", "response">>]
<1>2. Becomes(r, p)
  BY <1>1 DEF Answered
<1>3. run[r].answers \in 0 .. MaxRepairs /\ MaxRepairs \in Nat /\ MaxAttempts \in Nat \ {0}
  BY Knows, BoundsAssumption DEF Process
<1>4. a \in Answers /\ Asked(a) /\ Source(a) = n
  BY <1>1, <1>3, FreshIs DEF Answers, Asked, Source
<1>5. p \in Process
  <2>1. <<n, "raw", "response">> \in Todos
    BY DEF Todos
  <2>2. 0 \in 0 .. MaxRepairs /\ 0 \in 0 .. MaxAttempts - 1 /\ "link" \in Stages
    BY <1>3 DEF Stages, Committing
  <2>. QED  BY <1>4, <2>1, <2>2, Knows DEF Process
<1>6. /\ p.pc = "link" /\ p.answer = a /\ p.todo = <<n, "raw", "response">>
      /\ p.state = run[r].state /\ p.version = run[r].version /\ p.pages = run[r].pages
  BY Knows DEF Process
<1>. HIDE DEF p
<1>7. Pending(p, disk, firm)
  BY <1>4, <1>6 DEF Pending
<1>8. Storing(p, disk, firm) /\ Knowing(p, log) /\ Reading(p, log) /\ Seen(p, disk, log)
  BY <1>6, <1>7, Knows DEF At, Storing, Knowing, Reading, Seen, Committing, Looking, Ending
<1>9. Sound(p, disk, firm, log)
  BY <1>5, <1>8 DEF Sound
<1>. QED  BY <1>2, <1>8, <1>9, KeepingStore

(* Another request, after a malformed answer or a failure.                 *)
LEMMA AskingKeeps ==
  ASSUME Base, UNCHANGED hosts, NEW r \in hosts, At(r, "ask"), UNCHANGED store,
         NEW k \in 0 .. MaxRepairs, NEW m \in 0 .. MaxAttempts - 1,
         Becomes(r, [run[r] EXCEPT !.answers = k, !.tries = m])
  PROVE  Base'
<1>. DEFINE p == [run[r] EXCEPT !.answers = k, !.tries = m]
<1>1. p \in Process
  BY Knows DEF Process
<1>2. /\ p.pc = "ask" /\ p.state = run[r].state /\ p.version = run[r].version
      /\ p.pages = run[r].pages
  BY Knows DEF Process, At
<1>. HIDE DEF p
<1>3. Storing(p, disk, firm) /\ Knowing(p, log) /\ Reading(p, log) /\ Seen(p, disk, log)
  BY <1>2, Knows DEF At, Storing, Knowing, Reading, Seen, Committing, Looking, Ending
<1>4. Sound(p, disk, firm, log)
  BY <1>1, <1>3 DEF Sound
<1>. QED  BY <1>3, <1>4, KeepingStore DEF p

LEMMA AskKeeps ==
  ASSUME Base, UNCHANGED hosts, NEW r \in hosts,
         Accept(r) \/ Reject(r) \/ Retry(r) \/ Refuse(r)
  PROVE  Base'
<1>1. /\ run[r].answers \in 0 .. MaxRepairs /\ run[r].tries \in 0 .. MaxAttempts - 1
      /\ MaxRepairs \in Nat /\ MaxAttempts \in Nat \ {0} /\ run[r] \in Process
  BY Knows, BoundsAssumption DEF Process
<1>2. CASE Accept(r)
  BY <1>2, AnsweredKeeps DEF Accept
<1>3. CASE Reject(r)
  <2>1. CASE run[r].answers = MaxRepairs
    BY <1>3, <2>1, AnsweredKeeps DEF Reject
  <2>2. CASE run[r].answers # MaxRepairs
    <3>1. PICK k \in 0 .. MaxRepairs : k = run[r].answers + 1
      BY <1>1, <2>2
    <3>2. 0 \in 0 .. MaxAttempts - 1
      BY <1>1
    <3>3. Becomes(r, [run[r] EXCEPT !.answers = k, !.tries = 0])
      BY <1>3, <2>2, <3>1 DEF Reject
    <3>. QED  BY <1>3, <3>2, <3>3, AskingKeeps DEF Reject
  <2>. QED  BY <2>1, <2>2
<1>4. CASE Retry(r)
  <2>1. PICK m \in 0 .. MaxAttempts - 1 : m = run[r].tries + 1
    BY <1>1, <1>4 DEF Retry
  <2>2. PICK k \in 0 .. MaxRepairs : k = run[r].answers
    BY <1>1
  <2>3. Becomes(r, [run[r] EXCEPT !.answers = k, !.tries = m])
    <3>1. [run[r] EXCEPT !.answers = k, !.tries = m] = [run[r] EXCEPT !.tries = @ + 1]
      BY <1>1, <2>1, <2>2 DEF Process
    <3>. QED  BY <1>4, <3>1 DEF Retry
  <2>. QED  BY <1>4, <2>3, AskingKeeps DEF Retry
<1>5. CASE Refuse(r)
  BY <1>5, RaisesKeeps DEF Refuse
<1>. QED  BY <1>2, <1>3, <1>4, <1>5

(* The file at hand is due, and its contents are what is committed.        *)
LEMMA HandIs ==
  ASSUME Base, NEW r \in hosts, run[r].pc \in Committing
  PROVE  LET n == Head(run[r].todo) IN
         /\ Pending(run[r], disk, firm) /\ run[r].todo \in Todos /\ n \in RoundFiles
         /\ Contents(r, n) = ContentsOf(run[r], n)
         /\ Contents(r, n) \in Answers \ {Nothing}
         /\ disk[n] = Contents(r, n) \/ Due(n, Contents(r, n), firm)
<1>. DEFINE n == Head(run[r].todo)
            a == run[r].answer
            c == Contents(r, n)
<1>1. Pending(run[r], disk, firm) /\ run[r].todo \in Todos /\ a \in Answers
  BY Knows DEF Storing, Process
<1>2. n \in RoundFiles /\ ContentsOf(run[r], n) # Nothing /\ a # Nothing
  BY <1>1, HeadsAre
<1>3. c = ContentsOf(run[r], n)
  BY DEF Contents, ContentsOf, Response
<1>4. c \in Answers \ {Nothing}
  BY <1>1, <1>2, <1>3 DEF ContentsOf, Response, Answers
<1>5. disk[n] = c \/ Due(n, c, firm)
  <2>1. CASE run[r].todo = <<Source(a), "raw", "response">> /\ Asked(a)
    BY <1>2, <1>3, <1>4, <2>1, NamesAre DEF Due, ContentsOf, Source
  <2>2. CASE run[r].todo = <<"raw", "response">>
    BY <1>2, <1>4, <2>2 DEF Due
  <2>3. CASE run[r].todo = <<"response">> /\ Made(a, firm)
    <3>1. n = "response" /\ firm["raw"] = a /\ c = Response(a)
      BY <1>3, <2>3 DEF ContentsOf, Made
    <3>. QED  BY <1>2, <1>4, <2>3, <3>1 DEF Due
  <2>4. CASE run[r].todo = <<"response">> /\ disk["response"] = Response(a)
    BY <1>3, <2>4 DEF ContentsOf
  <2>. QED  BY <1>1, <2>1, <2>2, <2>3, <2>4 DEF Pending
<1>. QED  BY <1>1, <1>2, <1>3, <1>4, <1>5

LEMMA TailIs ==
  ASSUME NEW t \in Todos, t # <<>>
  PROVE  Tail(t) \in Todos
<1>1. CASE t = <<"response">>
  <2>1. Tail(t) = <<>>
    BY <1>1
  <2>. QED  BY <2>1 DEF Todos
<1>2. CASE t = <<"raw", "response">>
  <2>1. Tail(t) = <<"response">>
    BY <1>2
  <2>. QED  BY <2>1 DEF Todos
<1>3. ASSUME NEW a, t = <<a, "raw", "response">>
      PROVE  Tail(t) \in Todos
  <2>1. Tail(t) = <<"raw", "response">>
    BY <1>3
  <2>2. <<"raw", "response">> \in Todos
    BY DEF Todos
  <2>. QED  BY <2>1, <2>2
<1>4. CASE t = <<"exchange", "raw", "response">>
  BY <1>3, <1>4, Zenon
<1>5. CASE t = <<"failure", "raw", "response">>
  BY <1>3, <1>5, Zenon
<1>. QED  BY <1>1, <1>2, <1>4, <1>5, Zenon DEF Todos

LEMMA LinkFileKeeps ==
  ASSUME Base, UNCHANGED hosts, NEW r \in hosts, LinkFile(r)
  PROVE  Base'
<1>. DEFINE p == [run[r] EXCEPT !.pc = "sync"]
<1>1. PICK n, c : n = Head(run[r].todo) /\ c = Contents(r, n)
  OBVIOUS
<1>2. run[r].pc = "link"
  BY DEF LinkFile, At
<1>3. /\ Pending(run[r], disk, firm) /\ n \in RoundFiles /\ c = ContentsOf(run[r], n)
      /\ disk[n] = c \/ Due(n, c, firm)
  BY <1>1, <1>2, HandIs DEF Committing
<1>4. CASE Raises(r)
  BY <1>4, RaisesKeeps
<1>5. CASE Link(n, c) /\ Goes(r, "sync")
  <2>1. /\ disk' = Written(disk, n, c) /\ firm' = firm /\ log' = log
        /\ disk[n] # Nothing => disk[n] = c
    BY <1>5 DEF Link, Linkable, Exists, Written
  <2>2. Stored(disk, firm, log)
    BY Knows
  <2>3. Stored(Written(disk, n, c), firm, log)
    BY <1>3, <2>1, <2>2, LinkStores
  <2>4. \A q : Sound(q, disk, firm, log) => Sound(q, Written(disk, n, c), firm, log)
    BY <1>3, <2>2, LinkSound
  <2>5. Written(disk, n, c)[n] = c
    BY <1>3, <2>1, <2>2, NamesAre DEF Written, Stored, StoreTypes
  <2>6. p \in Process
    BY Knows DEF Process, Stages, Committing
  <2>7. /\ p.pc = "sync" /\ p.answer = run[r].answer /\ p.todo = run[r].todo
        /\ p.state = run[r].state /\ p.version = run[r].version /\ p.pages = run[r].pages
    BY Knows DEF Process
  <2>8. Becomes(r, p)
    BY <1>5 DEF Goes
  <2>. HIDE DEF p
  <2>9. Storing(run[r], Written(disk, n, c), firm)
    BY <2>4, Knows DEF Sound
  <2>10. Storing(p, Written(disk, n, c), firm)
    <3>1. Pending(run[r], Written(disk, n, c), firm)
      BY <1>2, <2>9 DEF Storing, Committing
    <3>2. Pending(p, Written(disk, n, c), firm)
      BY <1>2, <2>7, <3>1 DEF Pending
    <3>3. Head(p.todo) = n /\ ContentsOf(p, n) = c
      BY <1>1, <1>3, <2>7 DEF ContentsOf
    <3>. QED  BY <2>5, <2>7, <3>2, <3>3 DEF Storing
  <2>11. Knowing(p, log) /\ Reading(p, log) /\ Seen(p, Written(disk, n, c), log)
    BY <1>2, <2>7, Knows DEF Knowing, Reading, Seen, Committing, Looking, Ending
  <2>12. Sound(p, Written(disk, n, c), firm, log)
    BY <2>6, <2>10, <2>11 DEF Sound
  <2>13. /\ Stored(disk', firm', log') /\ Sound(p, disk', firm', log')
         /\ \A q : Sound(q, disk, firm, log) => Sound(q, disk', firm', log')
         /\ Seen(p, disk', log')
    BY <2>1, <2>3, <2>4, <2>11, <2>12
  <2>. QED  BY <2>8, <2>13, Keeping
<1>. QED  BY <1>1, <1>4, <1>5 DEF LinkFile

LEMMA SyncFileKeeps ==
  ASSUME Base, UNCHANGED hosts, NEW r \in hosts, SyncFile(r)
  PROVE  Base'
<1>. DEFINE p == [run[r] EXCEPT !.pc = "row"]
<1>1. PICK n : n = Head(run[r].todo)
  OBVIOUS
<1>2. run[r].pc = "sync" /\ Sync(n) /\ Becomes(r, p)
  BY <1>1 DEF SyncFile, At, Goes
<1>3. Pending(run[r], disk, firm) /\ n \in RoundFiles /\ disk[n] = ContentsOf(run[r], n)
  BY <1>1, <1>2, HandIs, Knows DEF Committing, Storing
<1>4. PICK f : f = Synced(disk, firm, n)
  OBVIOUS
<1>5. disk' = disk /\ firm' = f /\ log' = log
  BY <1>2, <1>4 DEF Sync, Synced
<1>6. /\ Stored(disk, f, log) /\ \A m \in RoundFiles : f[m] = disk[m]
      /\ \A q : Sound(q, disk, firm, log) => Sound(q, disk, f, log)
  BY <1>3, <1>4, Knows, SyncStores, SyncSound, NamesAre
<1>7. p \in Process
  BY Knows DEF Process, Stages, Committing
<1>8. /\ p.pc = "row" /\ p.answer = run[r].answer /\ p.todo = run[r].todo
      /\ p.state = run[r].state /\ p.version = run[r].version /\ p.pages = run[r].pages
  BY Knows DEF Process
<1>. HIDE DEF p
<1>9. Storing(p, disk, f)
  <2>1. Storing(run[r], disk, f)
    BY <1>6, Knows DEF Sound
  <2>2. Pending(run[r], disk, f) /\ Source(run[r].answer) \in RoundFiles
    BY <1>2, <2>1, NamesAre DEF Storing, Committing
  <2>3. Pending(p, disk, f)
    BY <1>6, <1>8, <2>2 DEF Pending
  <2>4. Head(p.todo) = n /\ ContentsOf(p, n) = disk[n] /\ f[n] = disk[n]
    BY <1>1, <1>3, <1>6, <1>8 DEF ContentsOf
  <2>. QED  BY <2>3, <2>4 DEF Storing
<1>10. Knowing(p, log) /\ Reading(p, log) /\ Seen(p, disk, log)
  BY <1>2, <1>8, Knows DEF Knowing, Reading, Seen, Committing, Looking, Ending
<1>11. Sound(p, disk, f, log)
  BY <1>7, <1>9, <1>10 DEF Sound
<1>12. /\ Stored(disk', firm', log') /\ Sound(p, disk', firm', log')
       /\ \A q : Sound(q, disk, firm, log) => Sound(q, disk', firm', log')
       /\ Seen(p, disk', log')
  BY <1>5, <1>6, <1>10, <1>11
<1>. QED  BY <1>2, <1>12, Keeping

LEMMA RegisterFileKeeps ==
  ASSUME Base, UNCHANGED hosts, NEW r \in hosts, RegisterFile(r)
  PROVE  Base'
<1>1. PICK n, c : n = Head(run[r].todo) /\ c = Contents(r, n)
  OBVIOUS
<1>. DEFINE a == run[r].answer
            pc == IF n = "response" THEN "commit" ELSE "link"
            p == [run[r] EXCEPT !.pc = pc, !.todo = Tail(@)]
            e == Event(n, c)
<1>2. run[r].pc = "row"
  BY DEF RegisterFile, At
<1>3. /\ Pending(run[r], disk, firm) /\ n \in RoundFiles /\ run[r].todo \in Todos
      /\ c = ContentsOf(run[r], n) /\ c \in Answers \ {Nothing}
      /\ disk[n] = c /\ firm[n] = c
  BY <1>1, <1>2, HandIs, Knows DEF Committing, Storing
<1>4. CASE Raises(r)
  BY <1>4, RaisesKeeps
<1>5. CASE Register(n, c) /\ Becomes(r, p)
  <2>1. Tail(run[r].todo) \in Todos /\ pc \in Stages
    <3>1. run[r].todo # <<>>
      BY <1>3, HeadsAre
    <3>. QED  BY <1>3, <3>1, TailIs DEF Stages, Committing
  <2>2. p \in Process
    BY <2>1, Knows DEF Process
  <2>3. /\ p.pc = pc /\ p.answer = a /\ p.todo = Tail(run[r].todo)
        /\ p.state = run[r].state /\ p.version = run[r].version /\ p.pages = run[r].pages
    BY Knows DEF Process
  <2>4. Storing(p, disk, firm)
    <3>. HIDE DEF p
    <3>1. CASE run[r].todo = <<Source(a), "raw", "response">> /\ Asked(a)
      <4>1. n = Source(a) /\ n # "response" /\ c = a
        BY <1>1, <1>3, <3>1, NamesAre DEF ContentsOf
      <4>2. p.todo = <<"raw", "response">> /\ p.pc = "link"
        BY <2>3, <3>1, <4>1
      <4>. QED  BY <1>3, <2>3, <3>1, <4>1, <4>2 DEF Storing, Pending
    <3>2. CASE run[r].todo = <<"raw", "response">> /\ Asked(a) /\ firm[Source(a)] = a
      <4>1. n = "raw" /\ c = a
        BY <1>1, <1>3, <3>2 DEF ContentsOf
      <4>2. p.todo = <<"response">> /\ p.pc = "link"
        BY <2>3, <3>2, <4>1
      <4>3. Made(a, firm)
        BY <1>3, <3>2, <4>1 DEF Made
      <4>. QED  BY <2>3, <4>2, <4>3 DEF Storing, Pending
    <3>3. CASE run[r].todo = <<"response">>
      <4>1. p.pc = "commit"
        BY <1>1, <2>3, <3>3
      <4>. QED  BY <4>1 DEF Storing, Committing
    <3>. QED  BY <1>2, <1>3, <3>1, <3>2, <3>3 DEF Pending
  <2>5. ASSUME NEW l \in Seq(Events), Knowing(run[r], l), Of(l, n) # {}
        PROVE  Knowing(p, l) /\ Reading(p, l) /\ Seen(p, disk, l)
    BY <1>2, <2>3, <2>5, Knows DEF Knowing, Reading, Seen, Committing, Looking, Ending
  <2>6. CASE Of(log, n) = {}
    <3>1. Append1(e)
      BY <1>5, <2>6 DEF Register
    <3>2. e \in Events /\ e.of = n /\ e.to = c
      BY <1>3 DEF Event, Events
    <3>3. n \notin DOMAIN Paths /\ n # "round" /\ n # "experiment"
      BY <1>3, PathsAre
    <3>4. Fits(e, firm, log)
      BY <1>3, <2>6, <3>2, <3>3 DEF Fits, Next1
    <3>5. Stored(disk, firm, Append(log, e)) /\ Sound(run[r], disk, firm, Append(log, e))
      BY <3>4, Knows, AppendStores, AppendSound
    <3>6. Append(log, e) \in Seq(Events) /\ Of(Append(log, e), n) # {}
      BY <3>2, Knows, AppendIs, AppendKnows
    <3>. HIDE DEF p, e
    <3>7. Sound(p, disk, firm, Append(log, e)) /\ Seen(p, disk, Append(log, e))
      BY <2>2, <2>4, <2>5, <3>5, <3>6 DEF Sound
    <3>. QED  BY <1>5, <3>1, <3>4, <3>7, KeepingAppend DEF p
  <2>7. CASE Of(log, n) # {}
    <3>1. UNCHANGED store
      BY <1>5, <2>7 DEF Register
    <3>. HIDE DEF p
    <3>2. Sound(p, disk, firm, log) /\ Seen(p, disk, log)
      BY <2>2, <2>4, <2>5, <2>7, Knows DEF Sound
    <3>. QED  BY <1>5, <3>1, <3>2, KeepingStore DEF p
  <2>. QED  BY <2>6, <2>7
<1>. QED  BY <1>1, <1>4, <1>5 DEF RegisterFile

LEMMA CloseKeeps ==
  ASSUME Base, UNCHANGED hosts, NEW r \in hosts, Close(r)
  PROVE  Base'
<1>1. PICK pc : pc = IF State("experiment") = "RUNNING" THEN "finish" ELSE "read"
  OBVIOUS
<1>. DEFINE p == [Idle EXCEPT !.pc = pc]
<1>2. /\ run[r].pc = "round" /\ run[r].state = "MODEL_RESPONSE_COMMITTED"
      /\ Becomes(r, p) /\ UNCHANGED store
  BY <1>1 DEF Close, At
<1>3. /\ Cardinality(Of(log, "experiment")) >= 2
      /\ Has(log, "round", "MODEL_RESPONSE_COMMITTED")
  BY <1>2, Knows DEF Knowing
<1>4. pc = "read" => Cardinality(Of(log, "experiment")) = 3
  <2>1. /\ Cardinality(Of(log, "experiment")) \in 0 .. 3
        /\ Cardinality(Of(log, "experiment")) = 2 => State("experiment") = "RUNNING"
    BY StateIs, PathsAre
  <2>. QED  BY <1>1, <1>3, <2>1
<1>5. pc \in {"finish", "read"} /\ Idle \in Process
  BY <1>1, Knows, IdleIsSound DEF Sound
<1>6. p \in Process
  BY <1>5 DEF Process, Stages, Ending
<1>7. p.pc = pc /\ p.state = "absent" /\ p.version = 0 /\ p.pages = <<>>
  BY DEF Idle
<1>8. Cardinality(Of(log, "round")) \in Nat /\ \E n \in 0 .. Len(log) : <<>> = SubSeq(log, 1, n)
  <2>1. SubSeq(log, 1, 0) = <<>> /\ 0 \in 0 .. Len(log)
    BY Knows
  <2>. QED  BY <2>1, Knows, OfIs
<1>. HIDE DEF p
<1>9. Storing(p, disk, firm) /\ Knowing(p, log) /\ Reading(p, log) /\ Seen(p, disk, log)
  BY <1>3, <1>4, <1>5, <1>7, <1>8
  DEF Storing, Knowing, Reading, Seen, Committing, Looking, Ending
<1>10. Sound(p, disk, firm, log)
  BY <1>6, <1>9 DEF Sound
<1>. QED  BY <1>2, <1>9, <1>10, KeepingStore

LEMMA FinishKeeps ==
  ASSUME Base, UNCHANGED hosts, NEW r \in hosts, Finish(r)
  PROVE  Base'
<1>. DEFINE e == Event("experiment", "FINISHED")
            p == [run[r] EXCEPT !.pc = "read"]
<1>1. CASE Raises(r)
  BY <1>1, RaisesKeeps
<1>2. CASE Move("experiment", "FINISHED", Version("experiment")) /\ Goes(r, "read")
  <2>1. run[r].pc = "finish" /\ Becomes(r, p) /\ Append1(e)
    BY <1>2 DEF Finish, At, Goes, Move
  <2>2. /\ e \in Events /\ e.of = "experiment" /\ e.to = "FINISHED" /\ Next1(log, e)
        /\ Cardinality(Of(log, "experiment")) >= 2 /\ "experiment" \notin RoundFiles
        /\ Cardinality(Of(log, "experiment")) \in 0 .. 2
    <3>1. Cardinality(Of(log, "experiment")) >= 2
      BY <2>1, Knows DEF Knowing
    <3>2. Movable("experiment", "FINISHED", Version("experiment"))
      BY <1>2 DEF Move
    <3>3. "experiment" \in DOMAIN Paths /\ "experiment" \notin RoundFiles
          /\ Len(Paths["experiment"]) = 3
      BY PathsAre
    <3>4. /\ e \in Events /\ e.of = "experiment" /\ e.to = "FINISHED" /\ Next1(log, e)
          /\ Cardinality(Of(log, "experiment")) \in 1 .. Len(Paths["experiment"]) - 1
      BY <3>2, <3>3, MoveIs
    <3>. HIDE DEF e
    <3>. QED  BY <3>1, <3>3, <3>4
  <2>3. Fits(e, firm, log)
    BY <2>1, <2>2, Knows DEF Fits, Knowing
  <2>4. Sound(run[r], disk, firm, Append(log, e))
    BY <2>3, Knows, AppendSound
  <2>5. /\ Append(log, e) \in Seq(Events)
        /\ Cardinality(Of(Append(log, e), "experiment")) = 3
    BY <2>2, Knows, AppendIs
  <2>6. p \in Process
    BY Knows DEF Process, Stages, Ending
  <2>7. /\ p.pc = "read" /\ p.state = run[r].state /\ p.version = run[r].version
        /\ p.pages = run[r].pages
    BY Knows DEF Process
  <2>8. run[r].pages = <<>> /\ \E n \in 0 .. Len(Append(log, e)) :
                                 <<>> = SubSeq(Append(log, e), 1, n)
    <3>1. SubSeq(Append(log, e), 1, 0) = <<>> /\ 0 \in 0 .. Len(Append(log, e))
      BY <2>5
    <3>. QED  BY <2>1, <3>1, Knows DEF Reading, Ending
  <2>. HIDE DEF p, e
  <2>9. /\ Storing(p, disk, firm) /\ Knowing(p, Append(log, e)) /\ Reading(p, Append(log, e))
        /\ Seen(p, disk, Append(log, e))
    BY <2>1, <2>4, <2>5, <2>7, <2>8
    DEF Sound, Storing, Knowing, Reading, Seen, Committing, Looking, Ending
  <2>10. Sound(p, disk, firm, Append(log, e))
    BY <2>6, <2>9 DEF Sound
  <2>. QED  BY <2>1, <2>3, <2>9, <2>10, KeepingAppend
<1>. QED  BY <1>1, <1>2 DEF Finish

(* The pages read one after the other are the log up to some event.        *)
LEMMA PagesAre ==
  ASSUME NEW l \in Seq(Events), NEW n \in 0 .. Len(l), NEW m \in n .. Len(l)
  PROVE  /\ SubSeq(l, n + 1, m) = <<>> <=> m = n
         /\ SubSeq(l, 1, n) \o SubSeq(l, n + 1, m) = SubSeq(l, 1, m)
         /\ SubSeq(l, 1, Len(l)) = l
<1>. DEFINE b == SubSeq(l, n + 1, m)
<1>1. Len(l) \in Nat /\ n \in Nat /\ m \in Nat /\ n <= m
      /\ 1 \in 1 .. Len(l) + 1 /\ n \in 1 - 1 .. Len(l)
  OBVIOUS
<1>2. b \in Seq(Events) /\ Len(b) = m - n
  BY <1>1
<1>. HIDE DEF b
<1>3. b = <<>> <=> m = n
  BY <1>1, <1>2, EmptySeq
<1>4. SubSeq(l, 1, n) \o SubSeq(l, n + 1, m) = SubSeq(l, 1, m)
  BY <1>1, ConcatAdjacentSubSeq
<1>. QED  BY <1>3, <1>4, SubSeqFull DEF b

LEMMA ReadPageKeeps ==
  ASSUME Base, UNCHANGED hosts, NEW r \in hosts, ReadPage(r)
  PROVE  Base'
<1>1. run[r].pc = "read" /\ UNCHANGED store
  BY DEF ReadPage, At
<1>2. PICK n \in 0 .. Len(log) : run[r].pages = SubSeq(log, 1, n)
  BY <1>1, Knows DEF Reading
<1>3. /\ Len(run[r].pages) = n /\ log \in Seq(Events) /\ Len(log) \in Nat
      /\ PageSize \in Nat \ {0}
  BY <1>2, Knows, PrefixIs, BoundsAssumption
<1>4. PICK m \in n .. Len(log) : m = IF n + PageSize < Len(log) THEN n + PageSize ELSE Len(log)
  BY <1>3
<1>5. m \in 0 .. Len(log) /\ (m = n => n = Len(log))
  BY <1>2, <1>3, <1>4
<1>6. Page(Len(run[r].pages), PageSize) = SubSeq(log, n + 1, m)
  BY <1>3, <1>4 DEF Page
<1>. DEFINE p == [run[r] EXCEPT !.pc = "show"]
            q == [run[r] EXCEPT !.pages = SubSeq(log, 1, m)]
<1>7. CASE m = n
  <2>1. SubSeq(log, n + 1, m) = <<>> /\ run[r].pages = log
    BY <1>2, <1>3, <1>5, <1>7, PagesAre
  <2>2. Becomes(r, p)
    BY <1>6, <2>1 DEF ReadPage, Goes
  <2>3. p \in Process
    BY Knows DEF Process, Stages, Ending
  <2>4. /\ p.pc = "show" /\ p.state = run[r].state /\ p.version = run[r].version
        /\ p.pages = run[r].pages
    BY Knows DEF Process
  <2>. HIDE DEF p
  <2>5. Storing(p, disk, firm) /\ Knowing(p, log) /\ Reading(p, log) /\ Seen(p, disk, log)
    BY <1>1, <2>1, <2>4, Knows
    DEF Storing, Knowing, Reading, Seen, Committing, Looking, Ending
  <2>6. Sound(p, disk, firm, log)
    BY <2>3, <2>5 DEF Sound
  <2>. QED  BY <1>1, <2>2, <2>5, <2>6, KeepingStore
<1>8. CASE m # n
  <2>1. /\ SubSeq(log, n + 1, m) # <<>>
        /\ SubSeq(log, 1, n) \o SubSeq(log, n + 1, m) = SubSeq(log, 1, m)
    <3>. HIDE DEF p, q
    <3>1. log \in Seq(Events)
      BY <1>3
    <3>2. SubSeq(log, n + 1, m) = <<>> <=> m = n
      BY <3>1, PagesAre, Zenon
    <3>3. SubSeq(log, 1, n) \o SubSeq(log, n + 1, m) = SubSeq(log, 1, m)
      <4>1. \A l \in Seq(Events) : \A i \in 0 .. Len(l) : \A j \in i .. Len(l) :
              SubSeq(l, 1, i) \o SubSeq(l, i + 1, j) = SubSeq(l, 1, j)
        BY PagesAre
      <4>. QED  BY <3>1, <4>1
    <3>. QED  BY <1>8, <3>2, <3>3, Zenon
  <2>2. Becomes(r, q)
    BY <1>2, <1>6, <2>1 DEF ReadPage
  <2>3. q \in Process
    <3>1. SubSeq(log, 1, m) \in Seq(Events)
      BY <1>3, <1>5, PrefixIs
    <3>. HIDE DEF q
    <3>. QED  BY <3>1, Knows DEF Process, q
  <2>4. /\ q.pc = "read" /\ q.state = run[r].state /\ q.version = run[r].version
        /\ q.pages = SubSeq(log, 1, m)
    BY <1>1, Knows DEF Process
  <2>. HIDE DEF q
  <2>5. Storing(q, disk, firm) /\ Knowing(q, log) /\ Reading(q, log) /\ Seen(q, disk, log)
    BY <1>1, <1>5, <2>4, Knows
    DEF Storing, Knowing, Reading, Seen, Committing, Looking, Ending
  <2>6. Sound(q, disk, firm, log)
    BY <2>3, <2>5 DEF Sound
  <2>. QED  BY <1>1, <2>2, <2>5, <2>6, KeepingStore
<1>. QED  BY <1>7, <1>8

LEMMA ShowKeeps ==
  ASSUME Base, UNCHANGED hosts, NEW r \in hosts, Show(r)
  PROVE  Base'
<1>. DEFINE p == [run[r] EXCEPT !.pc = "shown"]
<1>1. run[r].pc = "show" /\ Becomes(r, p)
  BY DEF Show, At, Goes
<1>2. PICK c : c = run[r].pages
  OBVIOUS
<1>3. PICK d : d = [disk EXCEPT !["events"] = c]
  OBVIOUS
<1>4. disk' = d /\ firm' = firm /\ log' = log
  BY <1>2, <1>3 DEF Show, Replace
<1>5. c \in Seq(Events) /\ Follows(c)
  BY <1>1, <1>2, Knows, PrefixFollows DEF Reading
<1>6. Stored(d, firm, log) /\ \A q : Sound(q, disk, firm, log) => Sound(q, d, firm, log)
  BY <1>3, <1>5, Knows, ReplaceStores
<1>7. d["events"] = c
  BY <1>3, Knows, NamesAre DEF Stored, StoreTypes
<1>8. p \in Process
  BY Knows DEF Process, Stages, Ending
<1>9. /\ p.pc = "shown" /\ p.state = run[r].state /\ p.version = run[r].version
      /\ p.pages = run[r].pages
  BY Knows DEF Process
<1>. HIDE DEF p
<1>10. Storing(p, d, firm) /\ Knowing(p, log) /\ Reading(p, log)
  BY <1>1, <1>9, Knows DEF Storing, Knowing, Reading, Committing, Looking, Ending
<1>11. hosts = {r} => Seen(p, d, log)
  BY <1>1, <1>2, <1>7, <1>9, Knows DEF Seen
<1>12. Sound(p, d, firm, log)
  BY <1>8, <1>10 DEF Sound
<1>13. /\ Stored(disk', firm', log') /\ Sound(p, disk', firm', log')
       /\ \A q : Sound(q, disk, firm, log) => Sound(q, disk', firm', log')
       /\ hosts = {r} => Seen(p, disk', log')
  BY <1>4, <1>6, <1>11, <1>12
<1>. QED  BY <1>1, <1>13, Keeping

LEMMA ShownKeeps ==
  ASSUME Base, UNCHANGED hosts, NEW r \in hosts, Shown(r)
  PROVE  Base'
<1>1. PICK f : f = Synced(disk, firm, "events")
  OBVIOUS
<1>2. disk' = disk /\ firm' = f /\ log' = log /\ Becomes(r, Idle)
  BY <1>1 DEF Shown, Sync, Synced, Ends
<1>3. Stored(disk, f, log) /\ \A q : Sound(q, disk, firm, log) => Sound(q, disk, f, log)
  BY <1>1, Knows, SyncStores, SyncSound, NamesAre
<1>4. Sound(Idle, disk, f, log) /\ Seen(Idle, disk, log)
  BY <1>3, IdleIsSound
<1>5. /\ Stored(disk', firm', log') /\ Sound(Idle, disk', firm', log')
      /\ \A q : Sound(q, disk, firm, log) => Sound(q, disk', firm', log')
      /\ Seen(Idle, disk', log')
  BY <1>2, <1>3, <1>4
<1>. QED  BY <1>2, <1>5, Keeping

LEMMA PowerLossKeeps ==
  ASSUME Base, UNCHANGED hosts, PowerLoss
  PROVE  Base'
<1>1. Stored(disk, firm, log)
  BY DEF Base
<1>2. PICK lost : disk' = Left(disk, firm, lost)
  BY DEF PowerLoss, PowerFails, Left
<1>3. PICK n \in 0 .. Len(log) : log' = SubSeq(log, 1, n)
  BY DEF PowerLoss, PowerFails
<1>4. Stored(Left(disk, firm, lost), Left(disk, firm, lost), SubSeq(log, 1, n))
  BY <1>1, LossStores
<1>5. firm' = disk' /\ run' = [r \in Runs |-> Idle]
  BY DEF PowerLoss, PowerFails
<1>6. Stored(disk', firm', log')
  BY <1>2, <1>3, <1>4, <1>5
<1>7. Sound(Idle, disk', firm', log') /\ Seen(Idle, disk', log')
  BY <1>6, IdleIsSound
<1>. QED  BY <1>5, <1>6, <1>7 DEF Base

-----------------------------------------------------------------------------
(* The invariant.                                                          *)

LEMMA InitIs == Init => Base
<1>. SUFFICES ASSUME Init
              PROVE  Base
  OBVIOUS
<1>1. /\ disk = Blank /\ firm = Blank /\ log = <<>>
      /\ \A n \in RoundFiles : Blank[n] = Nothing
      /\ Blank["events"] = <<>> /\ Blank = [n \in Files |-> Blank[n]]
  BY NamesAre DEF Init, Empty, Blank
<1>2. Nothing \in Answers /\ <<>> \in Seq(Events) /\ Follows(<<>>) /\ \A x : Of(<<>>, x) = {}
  BY EmptyFollows DEF Answers, Of
<1>3. Stored(Blank, Blank, <<>>)
  <2>1. StoreTypes(Blank, Blank, <<>>) /\ Kept(Blank, Blank) /\ Lasting(Blank, Blank, <<>>)
    BY <1>1, <1>2 DEF StoreTypes, Kept, Lasting
  <2>2. Filed(Blank, Blank)
    BY <1>1, NamesAre DEF Filed
  <2>3. Rows(Blank, <<>>) /\ Ordered(<<>>)
    BY <1>2 DEF Rows, Ordered
  <2>. QED  BY <2>1, <2>2, <2>3 DEF Stored
<1>4. Stored(disk, firm, log) /\ Sound(Idle, disk, firm, log) /\ Seen(Idle, disk, log)
  BY <1>1, <1>3, IdleIsSound
<1>. QED  BY <1>4 DEF Base, Init

LEMMA NextKeeps == Base /\ [Next]_vars => Base'
<1>. SUFFICES ASSUME Base, [Next]_vars
              PROVE  Base'
  OBVIOUS
<1>1. CASE UNCHANGED vars
  BY <1>1 DEF vars, store, Base
<1>2. CASE Next
  <2>1. UNCHANGED hosts
    BY <1>2 DEF Next
  <2>2. CASE PowerLoss
    BY <2>1, <2>2, PowerLossKeeps
  <2>3. ASSUME NEW r \in hosts, Crash(r)
        PROVE  Base'
    BY <2>1, <2>3, RaisesKeeps DEF Crash
  <2>4. ASSUME NEW r \in hosts, Step(r)
        PROVE  Base'
    <3>1. CASE Begin(r)
      BY <2>1, <3>1, BeginKeeps
    <3>2. CASE CreateExperiment(r)
      BY <2>1, <3>2, CreateExperimentKeeps
    <3>3. CASE Open(r)
      BY <2>1, <3>3, OpenKeeps
    <3>4. CASE StartRound(r)
      BY <2>1, <3>4, StartRoundKeeps
    <3>5. CASE CommitPrompt(r) \/ Send(r) \/ Commit(r)
      BY <2>1, <3>5, AdvanceKeeps DEF CommitPrompt, Send, Commit, At
    <3>6. CASE Found(r)
      BY <2>1, <3>6, FoundKeeps
    <3>7. CASE Look(r)
      BY <2>1, <3>7, LookKeeps
    <3>8. CASE Accept(r) \/ Reject(r) \/ Retry(r) \/ Refuse(r)
      BY <2>1, <3>8, AskKeeps
    <3>9. CASE LinkFile(r)
      BY <2>1, <3>9, LinkFileKeeps
    <3>10. CASE SyncFile(r)
      BY <2>1, <3>10, SyncFileKeeps
    <3>11. CASE RegisterFile(r)
      BY <2>1, <3>11, RegisterFileKeeps
    <3>12. CASE Close(r)
      BY <2>1, <3>12, CloseKeeps
    <3>13. CASE Finish(r)
      BY <2>1, <3>13, FinishKeeps
    <3>14. CASE ReadPage(r)
      BY <2>1, <3>14, ReadPageKeeps
    <3>15. CASE Show(r)
      BY <2>1, <3>15, ShowKeeps
    <3>16. CASE Shown(r)
      BY <2>1, <3>16, ShownKeeps
    <3>. QED  BY <2>4, <3>1, <3>2, <3>3, <3>4, <3>5, <3>6, <3>7, <3>8, <3>9, <3>10, <3>11,
                 <3>12, <3>13, <3>14, <3>15, <3>16 DEF Step
  <2>. QED  BY <1>2, <2>2, <2>3, <2>4 DEF Next
<1>. QED  BY <1>1, <1>2

LEMMA BaseHolds == Spec => []Base
<1>1. Init => Base
  BY InitIs
<1>2. Base /\ [Next]_vars => Base'
  BY NextKeeps
<1>. QED  BY <1>1, <1>2, PTL DEF Spec

(* A round that was committed once is committed.                           *)
LEMMA CommittedIs ==
  ASSUME Base, Has(log, "round", "MODEL_RESPONSE_COMMITTED")
  PROVE  Committed /\ Of(log, "response") # {}
<1>1. log \in Seq(Events) /\ Follows(log) /\ Ordered(log)
  BY DEF Base, Stored, StoreTypes, Lasting
<1>2. PICK i \in Of(log, "round") : log[i].to = "MODEL_RESPONSE_COMMITTED"
  BY DEF Has
<1>3. /\ "round" \in DOMAIN Paths /\ Len(Paths["round"]) = 4
      /\ Paths["round"][4] = "MODEL_RESPONSE_COMMITTED"
  BY PathsAre
<1>4. Cardinality(Of(log, "round")) >= 4
  BY <1>1, <1>2, <1>3, EndIs
<1>5. Cardinality(Of(log, "round")) = 4
  BY <1>3, <1>4, StateIs
<1>6. State("round") = "MODEL_RESPONSE_COMMITTED"
  BY <1>3, <1>5, StateIs
<1>7. Of(log, "response") # {}
  BY <1>1, <1>2 DEF Ordered
<1>. QED  BY <1>6, <1>7 DEF Committed

LEMMA FinishedIs ==
  ASSUME Base
  PROVE  /\ Committed <=> Has(log, "round", "MODEL_RESPONSE_COMMITTED")
         /\ State("experiment") = "FINISHED" <=> Cardinality(Of(log, "experiment")) = 3
         /\ State("experiment") = "FINISHED" => Committed
<1>1. ASSUME NEW x \in DOMAIN Paths, NEW n \in 1 .. Len(Paths[x]), State(x) = Paths[x][n]
      PROVE  Cardinality(Of(log, x)) = n /\ Has(log, x, Paths[x][n])
  <2>1. Paths[x][n] # "absent" /\ Paths[x][n] \in States
    BY PathsDiffer DEF States
  <2>2. PICK k : k = Cardinality(Of(log, x))
    OBVIOUS
  <2>3. k \in 1 .. Len(Paths[x]) /\ State(x) = Paths[x][k] /\ Has(log, x, State(x))
    BY <1>1, <2>1, <2>2, StateIs
  <2>4. k = n
    BY <1>1, <2>3, PathsDiffer
  <2>. QED  BY <1>1, <2>2, <2>3, <2>4
<1>2. Committed <=> Has(log, "round", "MODEL_RESPONSE_COMMITTED")
  BY <1>1, CommittedIs, PathsAre DEF Committed
<1>3. State("experiment") = "FINISHED" <=> Cardinality(Of(log, "experiment")) = 3
  BY <1>1, StateIs, PathsAre
<1>4. ASSUME State("experiment") = "FINISHED"
      PROVE  Committed
  <2>1. Has(log, "experiment", "FINISHED")
    BY <1>1, <1>4, PathsAre
  <2>2. Has(log, "round", "MODEL_RESPONSE_COMMITTED")
    BY <2>1 DEF Has, Base, Stored, Ordered
  <2>. QED  BY <2>2, CommittedIs
<1>. QED  BY <1>2, <1>3, <1>4

LEMMA RowsAre ==
  ASSUME Base
  PROVE  /\ RowsMatch
         /\ Of(log, "response") # {} => Exists("response") /\ Cardinality(Of(log, "response")) = 1
<1>1. log \in Seq(Events) /\ Follows(log) /\ Rows(firm, log) /\ Kept(disk, firm)
  BY DEF Base, Stored, StoreTypes, Lasting
<1>2. ASSUME NEW n \in RoundFiles, NEW i \in Of(log, n)
      PROVE  disk[n] = log[i].to /\ disk[n] # Nothing
  BY <1>1 DEF Rows, Kept
<1>3. RowsMatch
  BY <1>2 DEF RowsMatch, Of
<1>4. "response" \in RoundFiles
  BY NamesAre
<1>5. Cardinality(Of(log, "response")) <= 1
  BY <1>1, <1>4, FollowsMeans
<1>. QED  BY <1>1, <1>2, <1>3, <1>4, <1>5, OfIs DEF Exists

-----------------------------------------------------------------------------
(* Types: and with them that no run asks for more answers than             *)
(* maximum_format_repair_retries allows, nor tries more often than         *)
(* api_attempts, in complete_model_response() and the transport below it,  *)
(* and that there is always a number to tell a new answer from the others. *)
THEOREM TypesHold == Spec => []TypeOK
<1>1. Base => TypeOK
  <2>. SUFFICES ASSUME Base
                PROVE  TypeOK
    OBVIOUS
  <2>1. \A n \in RoundFiles : disk[n] \in Answers /\ firm[n] \in Answers
    BY DEF Base, Stored, StoreTypes, Kept, Answers
  <2>2. \A i \in DOMAIN log : log[i].of \in DOMAIN Paths \cup RoundFiles
    <3>1. log \in Seq(Events)
      BY DEF Base, Stored, StoreTypes
    <3>2. \A i \in DOMAIN log : log[i] \in Events
      BY <3>1
    <3>. QED  BY <3>2 DEF Events
  <2>3. ASSUME NEW r \in Runs
        PROVE  /\ run[r].pc \in Stages
               /\ run[r].version \in 0 .. Len(Paths["round"])
               /\ run[r].answers \in 0 .. MaxRepairs
               /\ run[r].tries \in 0 .. MaxAttempts - 1
               /\ run[r].answer \in Answers
    <3>1. run[r] \in Process /\ run[r].version <= Cardinality(Of(log, "round"))
      BY DEF Base, Sound, Knowing
    <3>2. Cardinality(Of(log, "round")) \in 0 .. 4 /\ Len(Paths["round"]) = 4
      BY StateIs, PathsAre
    <3>. QED  BY <3>1, <3>2 DEF Process
  <2>. QED  BY <2>1, <2>2, <2>3
            DEF Base, TypeOK, Stages, Looking, Committing, Ending
<1>. QED  BY <1>1, BaseHolds, PTL

(* Whatever controllers run at once and whatever is lost in between, a row *)
(* of register_artifact() is of the file that is there; the response is of *)
(* the call whose raw answers and exchange are there, and stands for a     *)
(* failure only after all the answers a round may ask for; a committed     *)
(* round has its response registered, once; and a finished experiment has  *)
(* a committed round (_commit_json(), complete_model_response(), run()).   *)
THEOREM RecordsAreTrue == Spec => []RecordIsTrue
<1>1. Base => RecordIsTrue
  <2>. SUFFICES ASSUME Base
                PROVE  RecordIsTrue
    OBVIOUS
  <2>1. ASSUME Exists("response")
        PROVE  IF disk["response"].good
               THEN disk["exchange"] = disk["response"] /\ disk["raw"] = disk["response"]
               ELSE /\ disk["failure"] = disk["raw"]
                    /\ disk["raw"].answers = MaxRepairs + 1 /\ ~disk["raw"].good
    <3>1. PICK a : a = firm["raw"]
      OBVIOUS
    <3>2. Made(a, firm) /\ disk["response"] = Response(a)
      BY <2>1, <3>1 DEF Base, Stored, Filed, Exists
    <3>3. a # Nothing /\ Asked(a) /\ firm[Source(a)] = a /\ Source(a) \in RoundFiles
      BY <3>2, NotNothing, NamesAre DEF Made
    <3>4. disk["raw"] = a /\ disk[Source(a)] = a
      BY <3>1, <3>3, NamesAre DEF Base, Stored, Kept
    <3>. QED  BY <3>2, <3>3, <3>4 DEF Source, Response, Synthetic, Asked
  <2>2. RowsMatch /\ (Committed => Cardinality(Of(log, "response")) = 1)
    BY RowsAre, FinishedIs, CommittedIs
  <2>. QED  BY <2>1, <2>2, FinishedIs DEF RecordIsTrue
<1>. QED  BY <1>1, BaseHolds, PTL

(* The events of the experiment and of the round are the beginning of the  *)
(* path the state machine allows, in the log and in events.jsonl, after    *)
(* any number of controllers, crashes and losses of power; a controller    *)
(* that has the store to itself and comes to the end of run() leaves a     *)
(* record that RunVerifier accepts.                                        *)
THEOREM HistoriesArePaths == Spec => []HistoryIsAPath
<1>1. Base => HistoryIsAPath
  <2>. SUFFICES ASSUME Base
                PROVE  HistoryIsAPath
    OBVIOUS
  <2>1. Follows(log) /\ Follows(disk["events"])
    BY DEF Base, Stored, Lasting
  <2>2. ASSUME NEW r \in Runs, hosts = {r}, At(r, "shown")
        PROVE  Verifies
    <3>1. Seen(run[r], disk, log) /\ Knowing(run[r], log)
      BY <2>2 DEF Base, Sound
    <3>2. disk["events"] = log
      BY <2>2, <3>1 DEF Seen, At
    <3>3. /\ Has(log, "round", "MODEL_RESPONSE_COMMITTED")
          /\ Cardinality(Of(log, "experiment")) = 3
      BY <2>2, <3>1 DEF Knowing, At, Ending
    <3>4. Committed /\ State("experiment") = "FINISHED" /\ Of(log, "response") # {}
      BY <3>3, FinishedIs, CommittedIs
    <3>. QED  BY <3>2, <3>4, RowsAre DEF Verifies, ProjectionMatches, LifecycleEnded
  <2>. QED  BY <2>1, <2>2 DEF HistoryIsAPath
<1>. QED  BY <1>1, BaseHolds, PTL

-----------------------------------------------------------------------------
(* What is committed stays.                                                *)

Stays(d, f, e, g) == \A n \in RoundFiles : f[n] # Nothing => e[n] = f[n] /\ g[n] = f[n]

(* A file of a round whose name is durable is never changed, replaced or   *)
(* lost, whatever controllers do and however often the power fails.        *)
CommittedFilesStay == [][Stays(disk, firm, disk', firm')]_vars

LEMMA FewWrite ==
  ASSUME NEW r \in hosts, Step(r)
  PROVE  \/ disk' = disk /\ firm' = firm
         \/ LinkFile(r) \/ SyncFile(r) \/ Show(r) \/ Shown(r)
<1>. USE DEF Append1, Raises, store
<1>1. ASSUME NEW x, Create(x)
      PROVE  disk' = disk /\ firm' = firm
  BY <1>1 DEF Create
<1>2. ASSUME NEW x, NEW to, NEW v, Move(x, to, v)
      PROVE  disk' = disk /\ firm' = firm
  BY <1>2 DEF Move
<1>3. ASSUME NEW n, NEW c, Register(n, c)
      PROVE  disk' = disk /\ firm' = firm
  BY <1>3 DEF Register
<1>4. ASSUME NEW from, NEW to, Advance(r, from, to)
      PROVE  disk' = disk /\ firm' = firm
  BY <1>2, <1>4 DEF Advance
<1>5. CASE Begin(r) \/ Found(r) \/ Look(r) \/ Close(r) \/ ReadPage(r)
  BY <1>5 DEF Begin, Found, Look, Close, ReadPage
<1>6. CASE Accept(r) \/ Reject(r) \/ Retry(r) \/ Refuse(r)
  BY <1>6 DEF Accept, Reject, Retry, Refuse
<1>7. CASE CreateExperiment(r) \/ StartRound(r)
  BY <1>1, <1>7 DEF CreateExperiment, StartRound
<1>8. CASE Open(r) \/ Finish(r)
  BY <1>2, <1>8 DEF Open, Finish
<1>9. CASE CommitPrompt(r) \/ Send(r) \/ Commit(r)
  BY <1>4, <1>9 DEF CommitPrompt, Send, Commit
<1>10. CASE RegisterFile(r)
  BY <1>3, <1>10 DEF RegisterFile
<1>. QED  BY <1>5, <1>6, <1>7, <1>8, <1>9, <1>10 DEF Step

(* put_stream() links, and never renames over a file of a round; what it   *)
(* synced is there after any number of losses of power (_fsync_directory). *)
THEOREM FilesStay == Spec => CommittedFilesStay
<1>1. ASSUME Base, [Next]_vars
      PROVE  [Stays(disk, firm, disk', firm')]_vars
  <2>1. StoreTypes(disk, firm, log) /\ \A n \in RoundFiles : firm[n] \in {Nothing, disk[n]}
    BY <1>1 DEF Base, Stored, Kept
  <2>2. disk' = disk /\ firm' = firm => Stays(disk, firm, disk', firm')
    BY <2>1 DEF Stays
  <2>3. CASE UNCHANGED vars
    BY <2>3
  <2>4. CASE PowerLoss
    <3>1. PICK lost : disk' = Left(disk, firm, lost)
      BY <2>4 DEF PowerLoss, PowerFails, Left
    <3>2. firm' = disk'
      BY <2>4 DEF PowerLoss, PowerFails
    <3>. QED  BY <2>1, <3>1, <3>2, NamesAre DEF Stays, Left
  <2>5. ASSUME NEW r \in hosts, Crash(r)
        PROVE  disk' = disk /\ firm' = firm
    BY <2>5 DEF Crash, Raises, store
  <2>6. ASSUME NEW r \in hosts, Step(r)
        PROVE  Stays(disk, firm, disk', firm')
    <3>1. CASE LinkFile(r)
      <4>1. PICK n, c : Link(n, c) \/ Raises(r)
        BY <3>1 DEF LinkFile
      <4>. QED  BY <2>1, <2>2, <4>1, NamesAre
                DEF Link, Linkable, Exists, Raises, store, Stays, StoreTypes
    <3>2. CASE SyncFile(r) \/ Shown(r)
      <4>1. PICK n : Sync(n)
        BY <3>2 DEF SyncFile, Shown
      <4>2. /\ disk' = disk
            /\ \A m \in RoundFiles : firm'[m] \in {firm[m], disk[m]}
        BY <4>1, NamesAre DEF Sync
      <4>. QED  BY <2>1, <4>2 DEF Stays
    <3>3. CASE Show(r)
      <4>1. firm' = firm /\ \A m \in RoundFiles : disk'[m] = disk[m]
        BY <2>1, <3>3, NamesAre DEF Show, Replace, StoreTypes
      <4>. QED  BY <2>1, <4>1 DEF Stays
    <3>. QED  BY <2>2, <2>6, <3>1, <3>2, <3>3, FewWrite
  <2>. QED  BY <1>1, <2>2, <2>3, <2>4, <2>5, <2>6 DEF Next
<1>. QED  BY <1>1, BaseHolds, PTL DEF Spec, CommittedFilesStay
=============================================================================
