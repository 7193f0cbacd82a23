-------------------------- MODULE Solutions_proofs --------------------------
(***************************************************************************)
(* Proofs about Solutions, for any number of administrators, any versions,   *)
(* any number of commands and any number of faults.                          *)
(***************************************************************************)
EXTENDS Solutions, FiniteSetTheorems, WellFoundedInduction, TLAPS

-----------------------------------------------------------------------------
(* The greatest version.                                                     *)

LEMMA Least ==
  ASSUME NEW T \in SUBSET Nat, T # {}
  PROVE  \E x \in T : \A y \in T : x <= y
<1>1. IsWellFoundedOn(OpToRel(<, Nat), Nat)
  BY NatLessThanWellFounded
<1>2. \E x \in T : \A y \in T : ~(<<y, x>> \in OpToRel(<, Nat))
  BY <1>1, WFMin
<1>3. \E x \in T : \A y \in T : ~(y < x)
  BY <1>2 DEF OpToRel
<1> QED BY <1>3

\* Induction, as a fact about sets: no operator is a parameter.
LEMMA Induction ==
  ASSUME NEW S, 0 \in S, \A n \in Nat : n \in S => n + 1 \in S
  PROVE  Nat \subseteq S
<1> SUFFICES ASSUME ~(Nat \subseteq S) PROVE FALSE
  OBVIOUS
<1>1. PICK x \in Nat \ S : \A y \in Nat \ S : x <= y
  <2>1. (Nat \ S) \in SUBSET Nat /\ (Nat \ S) # {}
    OBVIOUS
  <2> QED BY ONLY <2>1, Least
<1>2. x # 0 /\ x - 1 \in Nat /\ x - 1 \in S
  BY <1>1
<1> QED BY <1>1, <1>2

LEMMA Greatest ==
  ASSUME NEW T \in SUBSET Nat, T # {}, IsFiniteSet(T)
  PROVE  Max(T) \in T /\ \A y \in T : Max(T) >= y
<1> DEFINE Bounded(S) == \E x \in S : \A y \in S : x >= y
           Sizes == {n \in Nat : \A S \in SUBSET Nat :
                       S # {} /\ IsFiniteSet(S) /\ Cardinality(S) = n => Bounded(S)}
<1>1. 0 \in Sizes
  BY FS_EmptySet
<1>2. ASSUME NEW n \in Nat, n \in Sizes PROVE n + 1 \in Sizes
  <2> SUFFICES ASSUME NEW S \in SUBSET Nat, S # {}, IsFiniteSet(S), Cardinality(S) = n + 1
               PROVE  Bounded(S)
    OBVIOUS
  <2>1. PICK x \in S : TRUE
    OBVIOUS
  <2>2. IsFiniteSet(S \ {x}) /\ Cardinality(S \ {x}) = n
    <3>1. Cardinality(S \ {x}) = Cardinality(S) - 1 /\ IsFiniteSet(S \ {x})
      BY <2>1, FS_RemoveElement
    <3> QED BY <3>1
  <2>3. CASE S \ {x} = {}
    BY <2>1, <2>3
  <2>4. CASE S \ {x} # {}
    <3>1. (S \ {x}) \in SUBSET Nat
      OBVIOUS
    <3>2. Bounded(S \ {x})
      BY <1>2, <2>2, <2>4, <3>1
    <3>3. PICK m \in S \ {x} : \A y \in S \ {x} : m >= y
      BY <3>2
    <3>4. IF m >= x THEN \A y \in S : m >= y ELSE \A y \in S : x >= y
      BY <2>1, <3>3
    <3> QED BY <2>1, <3>3, <3>4
  <2> QED BY <2>3, <2>4
<1>3. Nat \subseteq Sizes
  <2> HIDE DEF Sizes
  <2> QED BY <1>1, <1>2, Induction
<1>4. Bounded(T)
  BY <1>3, FS_CardinalityType
<1> QED BY <1>4 DEF Max

LEMMA SomeVersions ==
  ASSUME NEW S \in SUBSET Versions, S # {}
  PROVE  Max(S) \in S /\ Min(S) \in S
<1>1. S \in SUBSET Nat /\ IsFiniteSet(S)
  BY VersionsAssumption, FS_Subset
<1>2. \E x \in S : \A y \in S : x <= y
  BY <1>1, Least
<1> QED BY <1>1, <1>2, Greatest DEF Min

\* The latest version is no version, and neither is the absence of one.
LEMMA LatestIsNoVersion ==
  Latest \in Nat /\ Latest # Nothing /\ Latest \notin Versions /\ Nothing \notin Versions
<1>1. Versions \in SUBSET Nat /\ Versions # {} /\ IsFiniteSet(Versions) /\ 0 \notin Versions
  BY VersionsAssumption
<1>2. Max(Versions) \in Versions /\ \A y \in Versions : Max(Versions) >= y
  BY <1>1, Greatest
<1> DEFINE m == Max(Versions)
<1>3. m \in Nat /\ m + 1 \notin Versions /\ 1 + m = m + 1 /\ m + 1 # 0
  <2> HIDE DEF m
  <2>1. m \in Nat /\ \A y \in Versions : m >= y
    BY <1>1, <1>2 DEF m
  <2> QED BY <1>1, <2>1
<1> QED BY <1>1, <1>3 DEF Latest, Nothing

-----------------------------------------------------------------------------
(* The objects of the API server and what the writers have read of them.     *)

\* What a step of w leaves to the other writers: only the version gets old.
OthersRead(w) ==
  \A x \in Writers \ {w} : seen[x] # None => seen'[x] # None /\ seen'[x].of = seen[x].of

BodiesOf(o) == IF o = "configMap" THEN Published ELSE Versions

LEMMA NoneIsNothing ==
  /\ None \notin Versions /\ None # Nothing /\ None \notin Reading
  /\ None \notin Objects /\ None \notin Writers
  /\ \A o \in Objects : None \notin Stored(o)
BY NoneAssumption, NoneIsNoObject

LEMMA AgedReads ==
  ASSUME ObjectsOK, NEW w \in Writers \cup {None}, NEW o, seen' = Aged(w, o)
  PROVE  seen' \in [Writers -> {None} \cup Reading] /\ OthersRead(w)
<1>1. seen' = [x \in Writers |-> seen'[x]]
  BY DEF Aged
<1>2. ASSUME NEW x \in Writers
      PROVE  /\ seen'[x] \in {None} \cup Reading
             /\ x # w /\ seen[x] # None => seen'[x] # None /\ seen'[x].of = seen[x].of
  <2>1. seen[x] \in {None} \cup Reading
    BY DEF ObjectsOK
  <2>2. seen'[x] = IF x = w THEN None
                   ELSE IF seen[x] # None /\ seen[x].of = o THEN [seen[x] EXCEPT !.fresh = FALSE]
                   ELSE seen[x]
    BY DEF Aged
  <2>3. seen[x] \in Reading => [seen[x] EXCEPT !.fresh = FALSE] \in Reading
                                /\ [seen[x] EXCEPT !.fresh = FALSE].of = seen[x].of
    BY DEF Reading
  <2> QED BY <2>1, <2>2, <2>3, NoneIsNothing
<1> QED BY <1>1, <1>2 DEF OthersRead

LEMMA LookOK ==
  ASSUME ObjectsOK, NEW w \in Writers, NEW o \in Objects, Look(w, o)
  PROVE  ObjectsOK' /\ OthersRead(w) /\ seen'[w] # None /\ seen'[w].of = o
<1> DEFINE r == [of |-> o, was |-> Exists(o), fresh |-> TRUE]
<1>1. r \in Reading /\ r.of = o
  BY DEF Reading, Exists
<1>2. seen'[w] = r /\ \A x \in Writers \ {w} : seen'[x] = seen[x]
  BY DEF Look, ObjectsOK
<1>3. seen' \in [Writers -> {None} \cup Reading] /\ api' = api
  BY <1>1 DEF Look, ObjectsOK
<1> HIDE DEF r
<1> QED BY <1>1, <1>2, <1>3, NoneIsNothing DEF ObjectsOK, OthersRead, Exists

LEMMA ForgetOK ==
  ASSUME ObjectsOK, NEW w \in Writers, Forget(w)
  PROVE  ObjectsOK' /\ OthersRead(w)
BY DEF Forget, ObjectsOK, OthersRead, Exists

LEMMA PutOK ==
  ASSUME ObjectsOK, NEW w \in Writers, NEW b, seen[w] # None, b \in BodiesOf(seen[w].of),
         Put(w, b)
  PROVE  /\ ObjectsOK' /\ OthersRead(w)
         /\ api'[seen[w].of] # None /\ api'[seen[w].of].body = b
         /\ \A o \in Objects : o # seen[w].of => api'[o] = api[o]
<1> DEFINE o == seen[w].of
<1>1. o \in Objects
  BY DEF ObjectsOK, Reading
<1> DEFINE r == [body |-> b, going |-> Exists(o) /\ api[o].going]
<1>2. /\ api'[o] = r /\ DOMAIN api' = Objects
      /\ \A x \in Objects : x # o => api'[x] = api[x]
  BY <1>1 DEF Put, ObjectsOK
<1> HIDE DEF o
<1>3. api'[o] \in Stored(o) /\ api'[o].body = b /\ (o # "crd" => ~api'[o].going)
  <2>1. Exists(o) => api[o] \in Stored(o) /\ (o # "crd" => ~api[o].going)
    BY <1>1 DEF ObjectsOK, Exists
  <2>2. (Exists(o) /\ api[o].going) \in BOOLEAN
    BY <2>1
  <2>3. r.body = b /\ (r.going <=> Exists(o) /\ api[o].going)
    OBVIOUS
  <2>4. r \in Stored(o)
    BY <2>2 DEF Stored, BodiesOf, o
  <2> HIDE DEF r
  <2> QED BY <1>2, <2>1, <2>3, <2>4
<1> HIDE DEF r
<1>4. /\ \A x \in Objects : api'[x] \in {None} \cup Stored(x)
      /\ \A x \in Objects \ {"crd"} : api'[x] # None => ~api'[x].going
  BY <1>2, <1>3 DEF ObjectsOK, Exists
<1>5. seen' \in [Writers -> {None} \cup Reading] /\ OthersRead(w)
  BY AgedReads DEF Put
<1> QED BY <1>1, <1>2, <1>3, <1>4, <1>5, NoneIsNothing DEF ObjectsOK, Exists, o

LEMMA PatchOK ==
  ASSUME ObjectsOK, NEW w \in Writers, NEW o \in Objects, NEW b \in BodiesOf(o), Patch(w, o, b)
  PROVE  /\ ObjectsOK' /\ OthersRead(w)
         /\ Exists(o)' /\ api'[o].body = b
         /\ \A x \in Objects : x # o => api'[x] = api[x]
<1>1. Exists(o)
  BY DEF Patch, Handled
<1>2. api[o] \in Stored(o) /\ (o # "crd" => ~api[o].going)
  BY <1>1 DEF ObjectsOK, Exists
<1>3. /\ api'[o] = [api[o] EXCEPT !.body = b]
      /\ DOMAIN api' = Objects
      /\ \A x \in Objects : x # o => api'[x] = api[x]
  BY DEF Patch, ObjectsOK
<1>4. api'[o] \in Stored(o) /\ api'[o].body = b /\ api'[o].going = api[o].going
  BY <1>2, <1>3 DEF Stored, BodiesOf
<1>5. /\ \A x \in Objects : api'[x] \in {None} \cup Stored(x)
      /\ \A x \in Objects \ {"crd"} : api'[x] # None => ~api'[x].going
  BY <1>2, <1>3, <1>4 DEF ObjectsOK, Exists
<1>6. seen' \in [Writers -> {None} \cup Reading] /\ OthersRead(w)
  BY AgedReads DEF Patch
<1> QED BY <1>3, <1>4, <1>5, <1>6, NoneIsNothing DEF ObjectsOK, Exists

LEMMA DeleteOK ==
  ASSUME ObjectsOK, NEW w \in Writers, seen[w] # None, seen[w].of = "crd", Delete(w)
  PROVE  /\ ObjectsOK' /\ OthersRead(w)
         /\ \A x \in Objects : x # "crd" => api'[x] = api[x]
<1>1. "crd" \in Objects
  BY SolutionObjectsAssumption DEF SolutionObjects
<1>2. CASE seen[w].was /\ Exists("crd")
  <2>1. api["crd"] \in Stored("crd")
    BY <1>1, <1>2 DEF ObjectsOK, Exists
  <2>2. /\ api'["crd"] = [api["crd"] EXCEPT !.going = TRUE]
        /\ DOMAIN api' = Objects
        /\ \A x \in Objects : x # "crd" => api'[x] = api[x]
    BY <1>1, <1>2 DEF Delete, ObjectsOK
  <2>3. api'["crd"] \in Stored("crd")
    BY <2>1, <2>2 DEF Stored
  <2>4. /\ \A x \in Objects : api'[x] \in {None} \cup Stored(x)
        /\ \A x \in Objects \ {"crd"} : api'[x] # None => ~api'[x].going
    BY <2>2, <2>3 DEF ObjectsOK, Exists
  <2>5. seen' \in [Writers -> {None} \cup Reading] /\ OthersRead(w)
    BY <1>2, AgedReads DEF Delete
  <2> QED BY <2>2, <2>4, <2>5 DEF ObjectsOK, Exists
<1>3. CASE ~(seen[w].was /\ Exists("crd"))
  <2>1. Forget(w)
    BY <1>3 DEF Delete
  <2> QED BY <2>1, ForgetOK DEF Forget
<1> QED BY <1>2, <1>3

LEMMA CollectOK ==
  ASSUME ObjectsOK, NEW o \in Objects, Collect(o)
  PROVE  /\ ObjectsOK' /\ OthersRead(None)
         /\ \A x \in Objects : x # "crd" => api'[x] = api[x]
<1>1. o = "crd"
  BY DEF Collect, ObjectsOK
<1>2. /\ DOMAIN api' = Objects /\ api'[o] = None
      /\ \A x \in Objects : x # o => api'[x] = api[x]
  BY DEF Collect, ObjectsOK
<1>3. seen' \in [Writers -> {None} \cup Reading] /\ OthersRead(None)
  BY AgedReads DEF Collect
<1> QED BY <1>1, <1>2, <1>3 DEF ObjectsOK, Exists

-----------------------------------------------------------------------------
(* The jobs.                                                                 *)

\* A job before it is settled: it may have failed.
Motion == {j \in [cmd : Commands \cup {"none"}, arg : Versions \cup {Nothing, Latest},
                  pc : Points \cup {"failure"}, cfg : Config \cup {None},
                  pillar : Pillar \cup {None}, ok : BOOLEAN,
                  tried : SUBSET Parts, done : SUBSET Parts] :
             j.pc = "idle" <=> j.cmd = "none"}

Moved(a, j) ==
  /\ job' \in [Writers -> Job]
  /\ \A b \in Writers \ {a} : job'[b] = job[b]
  /\ j.pc = "failure" => job'[a].pc = "idle" /\ job'[a].cmd = "none"
  /\ j.pc = "success" =>
       job'[a].pc = "success" /\ job'[a].cmd = j.cmd /\ job'[a].arg = j.arg
  /\ j.pc \notin {"failure", "success"} => job'[a] = j

LEMMA IdleIsJob == Idle \in Job /\ Idle.pc = "idle" /\ Idle.cmd = "none"
BY DEF Idle, Job, Points

LEMMA Moves ==
  ASSUME job \in [Writers -> Job], NEW a \in Writers, NEW j \in Motion, Become(a, j)
  PROVE  Moved(a, j)
<1>1. j.pc \in Points \cup {"failure"}
  BY DEF Motion
<1>2. CASE j.pc = "failure"
  <2>1. job' = [job EXCEPT ![a] = Idle]
    BY <1>2 DEF Become, Settled
  <2> QED BY <1>2, <2>1, IdleIsJob DEF Moved
<1>3. CASE j.pc = "success"
  <2> DEFINE s == [Idle EXCEPT !.cmd = j.cmd, !.arg = j.arg, !.pc = "success"]
  <2>1. job' = [job EXCEPT ![a] = s]
    BY <1>3 DEF Become, Settled
  <2>2. s \in Job /\ s.pc = "success" /\ s.cmd = j.cmd /\ s.arg = j.arg
    BY DEF Idle, Job, Points, Motion
  <2> HIDE DEF s
  <2> QED BY <1>3, <2>1, <2>2 DEF Moved
<1>4. CASE j.pc \notin {"failure", "success"}
  <2>1. job' = [job EXCEPT ![a] = j]
    BY <1>4 DEF Become, Settled
  <2>2. j \in Job
    BY <1>1, <1>4 DEF Job, Motion
  <2> QED BY <1>4, <2>1, <2>2 DEF Moved
<1> QED BY <1>2, <1>3, <1>4

\* A step that only changes where the job is.
LEMMA Goes ==
  ASSUME job \in [Writers -> Job], NEW a \in Writers, job[a].cmd # "none",
         NEW pc \in (Points \ {"idle"}) \cup {"failure"}, Goto(a, pc)
  PROVE  /\ job' \in [Writers -> Job]
         /\ \A b \in Writers \ {a} : job'[b] = job[b]
         /\ pc = "failure" => job'[a].pc = "idle" /\ job'[a].cmd = "none"
         /\ pc # "failure" => /\ job'[a].pc = pc /\ job'[a].cmd = job[a].cmd
                             /\ job'[a].arg = job[a].arg
         /\ pc \notin {"failure", "success"} =>
              /\ job'[a].cfg = job[a].cfg /\ job'[a].pillar = job[a].pillar
              /\ job'[a].ok = job[a].ok
              /\ job'[a].tried = job[a].tried /\ job'[a].done = job[a].done
<1> DEFINE j == [job[a] EXCEPT !.pc = pc]
<1>1. j \in Motion /\ j.pc = pc /\ j.cmd = job[a].cmd /\ j.arg = job[a].arg
      /\ j.cfg = job[a].cfg /\ j.pillar = job[a].pillar /\ j.ok = job[a].ok
      /\ j.tried = job[a].tried /\ j.done = job[a].done
  BY DEF Job, Motion
<1>2. Become(a, j)
  BY DEF Goto
<1> HIDE DEF j
<1>3. Moved(a, j)
  BY <1>1, <1>2, Moves
<1> QED BY <1>1, <1>3 DEF Moved

-----------------------------------------------------------------------------
(* Types.                                                                    *)

\* What a step of a leaves to the jobs of the others.
OthersWait(a) == OthersRead(a) /\ \A b \in Writers \ {a} : job'[b] = job[b]

LEMMA FaultsCount ==
  ASSUME faults \in Nat, NoFault \/ \E kind \in FaultKinds : Fault(kind)
  PROVE  faults' \in Nat
BY DEF NoFault, Fault

LEMMA Quiet ==
  ASSUME ObjectsOK, NEW a \in Writers, UNCHANGED <<api, seen>>
  PROVE  ObjectsOK' /\ OthersRead(a)
BY DEF ObjectsOK, OthersRead, Exists

LEMMA TypeStep ==
  ASSUME TypeOK, NEW a \in Writers,
         config' \in Config, env' \in Environment,
         mounted' \subseteq Versions, exposed' \subseteq Versions, imported' \subseteq Versions,
         NoFault \/ \E kind \in FaultKinds : Fault(kind),
         UNCHANGED <<commands, overlapped, collected>>,
         ObjectsOK', OthersWait(a), job' \in [Writers -> Job], JobFits(a)'
  PROVE  TypeOK'
<1>1. faults' \in Nat
  BY FaultsCount DEF TypeOK
<1>2. ASSUME NEW b \in Writers \ {a} PROVE JobFits(b)'
  <2>1. job'[b] = job[b] /\ JobFits(b)
    BY DEF OthersWait, TypeOK
  <2>2. seen[b] # None => seen'[b] # None /\ seen'[b].of = seen[b].of
    BY DEF OthersWait, OthersRead
  <2> QED BY <2>1, <2>2 DEF JobFits
<1> QED BY <1>1, <1>2 DEF TypeOK

\* A pillar that was compiled now.
LEMMA Loaded ==
  ASSUME TypeOK, NEW failing \in SUBSET Listings
  PROVE  LET p == _load_solutions(failing)
         IN  /\ p \in Pillar
             /\ p.config = config /\ p.environment.data = env.data
             /\ p.availableErrors <=>
                  "active" \in failing \/ "available" \in failing \/ ~Readable
             /\ p.available \subseteq mounted /\ p.active \subseteq mounted
             /\ p.active \subseteq list_active
             /\ ~p.availableErrors =>
                  p.available = mounted /\ p.active = list_active \cap mounted
<1> DEFINE p == _load_solutions(failing)
           errors == "active" \in failing \/ "available" \in failing \/ ~Readable
           e == list_environments
<1>1. /\ p.config = config
      /\ p.available = IF "available" \in failing THEN {} ELSE mounted
      /\ p.availableErrors <=> errors
      /\ p.active = IF errors THEN {} ELSE list_active \cap mounted
      /\ p.environment = e
  BY DEF _load_solutions
<1>2. e \in [known : BOOLEAN, data : Versions \cup {Nothing, None}] /\ e.data = env.data
  BY DEF list_environments, TypeOK, Environment
<1>3. errors \in BOOLEAN
  OBVIOUS
<1>4. p \in Pillar
  <2>1. (IF errors THEN {} ELSE list_active \cap mounted) \in SUBSET Versions
    BY DEF TypeOK
  <2>2. (IF "available" \in failing THEN {} ELSE mounted) \in SUBSET Versions
    BY DEF TypeOK
  <2>3. config \in Config
    BY DEF TypeOK
  <2> HIDE DEF errors, e
  <2> QED BY <1>2, <1>3, <2>1, <2>2, <2>3 DEF _load_solutions, Pillar, errors, e
<1>5. p.availableErrors \in BOOLEAN
  BY <1>4 DEF Pillar
<1> HIDE DEF p, e
<1> SUFFICES /\ p \in Pillar
             /\ p.config = config /\ p.environment.data = env.data
             /\ p.availableErrors <=> errors
             /\ p.available \subseteq mounted /\ p.active \subseteq mounted
             /\ p.active \subseteq list_active
             /\ ~p.availableErrors =>
                  p.available = mounted /\ p.active = list_active \cap mounted
  BY DEF p
<1> QED BY <1>1, <1>2, <1>4, <1>5

Typed == job' \in [Writers -> Job]
Waiting(a) == \A b \in Writers \ {a} : job'[b] = job[b]

LEMMA Busy ==
  ASSUME TypeOK, NEW a \in Writers, job[a].pc # "idle"
  PROVE  job[a] \in Job /\ job[a].cmd # "none" /\ JobFits(a)
BY DEF TypeOK, JobFits

\* A command ends.
LEMMA Ends ==
  ASSUME TypeOK, NEW a \in Writers, job[a].pc # "idle",
         NEW pc \in {"failure", "success"}, Goto(a, pc)
  PROVE  Typed /\ Waiting(a) /\ JobFits(a)'
<1>1. job \in [Writers -> Job] /\ job[a].cmd # "none" /\ JobFits(a)
  BY Busy DEF TypeOK
<1>2. pc \in (Points \ {"idle"}) \cup {"failure"}
  BY DEF Points
<1>3. /\ job' \in [Writers -> Job] /\ \A b \in Writers \ {a} : job'[b] = job[b]
      /\ pc = "failure" => job'[a].pc = "idle" /\ job'[a].cmd = "none"
      /\ pc = "success" => job'[a].pc = pc /\ job'[a].cmd = job[a].cmd /\ job'[a].arg = job[a].arg
  BY <1>1, <1>2, Goes
<1> QED BY <1>1, <1>3 DEF JobFits, Typed, Waiting

\* A command goes on, to a point where nothing is needed.
LEMMA GoesOn ==
  ASSUME TypeOK, NEW a \in Writers, job[a].pc # "idle",
         NEW pc \in {"dump", "import", "publish", "master", "deploy", "label", "configmap",
                     "configure", "prepare"},
         pc = "dump" => job[a].pc = "truncate",
         pc \in {"import", "publish", "master"} => job[a].cmd \in {"import", "unimport"},
         pc = "deploy" => job[a].cmd \in {"activate", "deactivate"},
         pc \in {"label", "configmap"} => job[a].cmd = "createEnv",
         pc \in {"configure", "prepare"} =>
           job[a].cmd \in {"add", "delete"} /\ job[a].pc \in {"start", "configure"},
         Goto(a, pc)
  PROVE  Typed /\ Waiting(a) /\ JobFits(a)'
<1>1. job \in [Writers -> Job] /\ job[a].cmd # "none" /\ JobFits(a)
  BY Busy DEF TypeOK
<1>2. pc \in (Points \ {"idle"}) \cup {"failure"} /\ pc \notin {"failure", "success"}
  BY DEF Points
<1>3. /\ job' \in [Writers -> Job] /\ \A b \in Writers \ {a} : job'[b] = job[b]
      /\ job'[a].pc = pc /\ job'[a].cmd = job[a].cmd /\ job'[a].arg = job[a].arg
      /\ job'[a].cfg = job[a].cfg /\ job'[a].done = job[a].done
  BY <1>1, <1>2, Goes
<1> QED BY <1>1, <1>3 DEF JobFits, Typed, Waiting

LEMMA StartType ==
  ASSUME TypeOK, NEW a \in Writers, NEW cmd \in Commands, NEW arg \in Versions \cup {Nothing, Latest},
         cmd \in {"import", "unimport", "add"} => arg \in Versions,
         cmd = "activate" => arg \in Versions \cup {Latest},
         cmd \in {"deactivate", "delete"} => arg = Nothing,
         Start(a, cmd, arg)
  PROVE  TypeOK'
<1> DEFINE s == [Idle EXCEPT !.cmd = cmd, !.arg = arg, !.pc = "start"]
<1>1. s \in Job /\ s.cmd = cmd /\ s.arg = arg /\ s.pc = "start" /\ s.done = {}
  BY DEF Idle, Job, Points
<1>2. \A b \in Writers : job'[b] = IF b = a THEN s ELSE IF Running(b) THEN job[b] ELSE Idle
  BY DEF Start
<1> HIDE DEF s
<1>3. ASSUME NEW b \in Writers PROVE job'[b] \in Job /\ JobFits(b)'
  <2>1. CASE b = a
    BY <1>1, <1>2, <2>1 DEF JobFits, Commands, ConfigCommands
  <2>2. CASE b # a /\ Running(b)
    <3>1. job'[b] = job[b] /\ JobFits(b) /\ seen' = seen
      BY <1>2, <2>2 DEF TypeOK, Start
    <3> QED BY <3>1 DEF JobFits, TypeOK
  <2>3. CASE b # a /\ ~Running(b)
    <3>1. job'[b] = Idle
      BY <1>2, <2>3
    <3> QED BY <3>1, IdleIsJob DEF JobFits
  <2> QED BY <2>1, <2>2, <2>3
<1>4. job' \in [Writers -> Job]
  <2>1. job' = [b \in Writers |-> job'[b]]
    BY DEF Start
  <2> QED BY <1>3, <2>1
<1>5. ObjectsOK'
  BY Quiet DEF Start, TypeOK
<1>6. commands' \in Nat /\ overlapped' \in BOOLEAN /\ imported' \subseteq Versions
  BY DEF Start, TypeOK
<1> QED BY <1>3, <1>4, <1>5, <1>6 DEF Start, TypeOK

LEMMA CommandType ==
  ASSUME TypeOK, NEW a \in Writers, Command(a)
  PROVE  TypeOK'
<1> USE DEF Commands, ConfigCommands
<1>1. CASE import_solution(a)
  BY <1>1, StartType DEF import_solution
<1>2. CASE unimport_solution(a)
  BY <1>2, StartType DEF unimport_solution
<1>3. CASE activate_command(a)
  BY <1>3, StartType DEF activate_command
<1>4. CASE deactivate_command(a)
  BY <1>4, StartType DEF deactivate_command
<1>5. CASE create_environment(a)
  BY <1>5, StartType DEF create_environment
<1>6. CASE delete_environment(a)
  BY <1>6, StartType DEF delete_environment
<1>7. CASE add_solution(a)
  BY <1>7, StartType DEF add_solution
<1>8. CASE delete_solution(a)
  BY <1>8, StartType DEF delete_solution
<1> QED BY <1>1, <1>2, <1>3, <1>4, <1>5, <1>6, <1>7, <1>8 DEF Command

\* What a command writes into the configuration: the file it read was c.
Changed(j, c, new) ==
  /\ new.state = "good"
  /\ j.cmd = "import" => new.archives = c.archives \cup {j.arg}
  /\ j.cmd = "unimport" => new.archives = c.archives \ {j.arg}
  /\ j.cmd \in {"activate", "deactivate"} => new.archives = c.archives /\ new.active = j.arg

LEMMA ReadConfigStep ==
  ASSUME TypeOK, NEW a \in Writers, ReadConfig(a)
  PROVE  /\ config' \in Config /\ Typed /\ Waiting(a)
         /\ job[a].cmd \in ConfigCommands /\ job[a].pc = "start"
         /\ \/ Goto(a, "failure") /\ config' = config
            \/ /\ config'.state = "good"
               /\ config' = config \/ (config.state = "missing" /\ config'.archives = {})
               /\ job'[a].pc = "truncate" /\ job'[a].cfg \in Config
               /\ job'[a].cmd = job[a].cmd /\ job'[a].arg = job[a].arg
               /\ Changed(job[a], config', job'[a].cfg)
<1> DEFINE j == job[a]
           create == j.cmd \in {"import", "unimport"}
           read == IF config.state = "missing" /\ create THEN EmptyConfig ELSE config
           new == CASE j.cmd = "import" -> configure_archive(read, j.arg, FALSE)
                    [] j.cmd = "unimport" -> configure_archive(read, j.arg, TRUE)
                    [] j.cmd = "activate" -> [read EXCEPT !.active = j.arg]
                    [] j.cmd = "deactivate" -> [read EXCEPT !.active = Nothing]
           next == [j EXCEPT !.cfg = new, !.pc = "truncate"]
<1>1. j.pc = "start" /\ j.cmd \in ConfigCommands /\ j \in Job /\ JobFits(a)
  BY Busy DEF ReadConfig, At, ConfigCommands
<1>2. CASE Goto(a, "failure") /\ config' = config
  <2>1. Typed /\ Waiting(a)
    BY <1>1, <1>2, Ends
  <2> QED BY <1>1, <1>2, <2>1 DEF TypeOK
<1>3. CASE Become(a, next) /\ config' = read /\ read.state = "good"
  <2>1. read \in Config /\ (read = config \/ (config.state = "missing" /\ read.archives = {}))
    BY DEF TypeOK, EmptyConfig, Config
  <2>2. /\ j.cmd \in {"import", "unimport"} => j.arg \in Versions
        /\ j.cmd = "activate" => j.arg \in Versions \cup {Latest}
        /\ j.cmd = "deactivate" => j.arg = Nothing
    BY <1>1 DEF JobFits
  <2> HIDE DEF read
  <2>3. new \in Config /\ Changed(j, read, new)
    <3>1. CASE j.cmd = "import"
      BY <1>3, <2>1, <2>2, <3>1 DEF configure_archive, Config, Changed
    <3>2. CASE j.cmd = "unimport"
      BY <1>3, <2>1, <2>2, <3>2 DEF configure_archive, Config, Changed
    <3>3. CASE j.cmd = "activate"
      BY <1>3, <2>1, <2>2, <3>3 DEF Config, Changed
    <3>4. CASE j.cmd = "deactivate"
      BY <1>3, <2>1, <2>2, <3>4 DEF Config, Changed
    <3> QED BY <1>1, <3>1, <3>2, <3>3, <3>4 DEF ConfigCommands
  <2> HIDE DEF new
  <2>4. next \in Motion /\ next.pc = "truncate" /\ next.cmd = j.cmd /\ next.arg = j.arg
        /\ next.cfg = new
    BY <1>1, <2>3 DEF Motion, Job, Points, ConfigCommands
  <2> HIDE DEF next
  <2>5. Moved(a, next)
    BY <1>3, <2>4, Moves DEF TypeOK
  <2> QED BY <1>1, <1>3, <2>1, <2>3, <2>4, <2>5 DEF Moved, Typed, Waiting
<1> QED BY <1>2, <1>3 DEF ReadConfig, Fail

LEMMA ReadConfigType ==
  ASSUME TypeOK, NEW a \in Writers, ReadConfig(a)
  PROVE  TypeOK'
<1>1. /\ config' \in Config /\ Typed /\ Waiting(a) /\ job[a].cmd \in ConfigCommands
      /\ job[a].pc = "start"
  BY ReadConfigStep
<1>2. JobFits(a)'
  <2>1. CASE Goto(a, "failure")
    BY <1>1, <2>1, Ends
  <2>2. CASE /\ job'[a].pc = "truncate" /\ job'[a].cfg \in Config
             /\ job'[a].cmd = job[a].cmd /\ job'[a].arg = job[a].arg
    BY <1>1, <2>2, Busy DEF JobFits
  <2> QED BY <2>1, <2>2, ReadConfigStep
<1>3. ObjectsOK' /\ OthersRead(a)
  BY Quiet DEF ReadConfig, TypeOK
<1> QED BY <1>1, <1>2, <1>3, TypeStep DEF ReadConfig, Fail, TypeOK, Typed, Waiting, OthersWait, adminVars

LEMMA TruncateType ==
  ASSUME TypeOK, NEW a \in Writers, Truncate(a)
  PROVE  TypeOK'
<1>1. job[a].pc = "truncate" /\ Goto(a, "dump")
  BY DEF Truncate, At
<1>2. Typed /\ Waiting(a) /\ JobFits(a)'
  BY <1>1, GoesOn
<1>3. ObjectsOK' /\ OthersRead(a)
  BY Quiet DEF Truncate, TypeOK
<1>4. config' \in Config
  BY DEF Truncate, TypeOK, Config
<1> QED BY <1>2, <1>3, <1>4, TypeStep DEF Truncate, TypeOK, Typed, Waiting, OthersWait, adminVars, NoFault

LEMMA DumpStep ==
  ASSUME TypeOK, NEW a \in Writers, Dump(a)
  PROVE  /\ Typed /\ Waiting(a)
         /\ job[a].pc = "dump" /\ job[a].cmd \in ConfigCommands /\ job[a].cfg \in Config
         /\ job'[a].pc = IF job[a].cmd \in {"import", "unimport"} THEN "import" ELSE "deploy"
         /\ job'[a].cmd = job[a].cmd /\ job'[a].arg = job[a].arg
<1> DEFINE pc == IF job[a].cmd \in {"import", "unimport"} THEN "import" ELSE "deploy"
           next == [job[a] EXCEPT !.cfg = None, !.pc = pc]
<1>1. job[a].pc = "dump" /\ job[a].cmd \in ConfigCommands /\ job[a] \in Job /\ job[a].cfg \in Config
  BY Busy DEF Dump, At, JobFits
<1>2. next \in Motion /\ next.pc = pc /\ next.cmd = job[a].cmd /\ next.arg = job[a].arg
      /\ pc \in {"import", "deploy"}
  BY <1>1 DEF Motion, Job, Points, ConfigCommands
<1>3. Become(a, next)
  BY DEF Dump
<1> HIDE DEF next
<1>4. Moved(a, next)
  BY <1>2, <1>3, Moves DEF TypeOK
<1> QED BY <1>1, <1>2, <1>4 DEF Moved, Typed, Waiting

LEMMA DumpType ==
  ASSUME TypeOK, NEW a \in Writers, Dump(a)
  PROVE  TypeOK'
<1>1. JobFits(a)'
  BY DumpStep, Busy DEF JobFits, ConfigCommands
<1>2. ObjectsOK' /\ OthersRead(a)
  BY Quiet DEF Dump, TypeOK
<1>3. config' \in Config
  BY DumpStep DEF Dump
<1> QED BY <1>1, <1>2, <1>3, DumpStep, TypeStep
        DEF Dump, TypeOK, Typed, Waiting, OthersWait, adminVars, NoFault

\* What a pillar tells of the state it is compiled in.
Tells(p) ==
  /\ p.config = config /\ p.environment.data = env.data
  /\ ~p.availableErrors => Readable
  /\ p.available \subseteq mounted /\ p.active \subseteq mounted
  /\ p.active \subseteq list_active
  /\ ~p.availableErrors => p.available = mounted /\ p.active = list_active \cap mounted

LEMMA CompileStep ==
  ASSUME TypeOK, NEW a \in Writers, NEW from \in Points \ {"idle"},
         NEW to \in {"mount", "look", "check"}, Compile(a, from, to)
  PROVE  /\ Typed /\ Waiting(a) /\ job[a].pc = from
         /\ \/ Goto(a, "failure")
            \/ /\ job'[a].pc = to /\ job'[a].cmd = job[a].cmd /\ job'[a].arg = job[a].arg
               /\ job'[a].done = job[a].done
               /\ job'[a].pillar \in Pillar /\ Tells(job'[a].pillar)
<1>1. PICK failing \in SUBSET Listings :
        LET p == _load_solutions(failing)
        IN  IF Broken(p) THEN Goto(a, "failure")
            ELSE Become(a, [job[a] EXCEPT !.pc = to, !.pillar = p])
  BY DEF Compile
<1> DEFINE p == _load_solutions(failing)
           next == [job[a] EXCEPT !.pc = to, !.pillar = p]
<1>2. job[a].pc = from /\ job[a] \in Job /\ job[a].cmd # "none"
  BY Busy DEF Compile, At
<1>3. p \in Pillar /\ Tells(p)
  BY Loaded DEF Tells
<1> HIDE DEF p
<1>4. CASE Goto(a, "failure")
  BY <1>2, <1>4, Ends
<1>5. CASE Become(a, next)
  <2>1. next \in Motion /\ next.pc = to /\ next.cmd = job[a].cmd /\ next.arg = job[a].arg
        /\ next.done = job[a].done /\ next.pillar = p
    BY <1>2, <1>3 DEF Motion, Job, Points
  <2> HIDE DEF next
  <2>2. Moved(a, next)
    BY <1>5, <2>1, Moves DEF TypeOK
  <2> QED BY <1>2, <1>3, <2>1, <2>2 DEF Moved, Typed, Waiting
<1> QED BY <1>1, <1>4, <1>5 DEF p

LEMMA CompileType ==
  ASSUME TypeOK, NEW a \in Writers, NEW from, NEW to,
         <<from, to>> \in {<<"import", "mount">>, <<"publish", "look">>, <<"deploy", "look">>,
                          <<"prepare", "check">>},
         Compile(a, from, to)
  PROVE  TypeOK'
<1>1. from \in Points \ {"idle"} /\ to \in {"mount", "look", "check"}
  BY DEF Points
<1>2. JobFits(a)'
  <2>1. CASE Goto(a, "failure")
    BY <1>1, <2>1, CompileStep, Ends
  <2>2. CASE /\ job'[a].pc = to /\ job'[a].cmd = job[a].cmd /\ job'[a].arg = job[a].arg
             /\ job'[a].done = job[a].done /\ job'[a].pillar \in Pillar
    <3>1. job[a].pc = from /\ JobFits(a)
      BY <1>1, CompileStep, Busy
    <3> QED BY <2>2, <3>1 DEF JobFits, ConfigCommands
  <2> QED BY <1>1, <2>1, <2>2, CompileStep
<1>3. ObjectsOK' /\ OthersRead(a)
  BY Quiet DEF Compile, TypeOK
<1>4. Typed /\ Waiting(a)
  BY <1>1, CompileStep
<1>5. NoFault \/ \E kind \in FaultKinds : Fault(kind)
  BY DEF Compile, FaultKinds
<1> QED BY <1>2, <1>3, <1>4, <1>5, TypeStep
        DEF Compile, TypeOK, Typed, Waiting, OthersWait, adminVars

LEMMA MountStep ==
  ASSUME TypeOK, NEW a \in Writers, Mount(a)
  PROVE  LET p == job[a].pillar
         IN  /\ job[a].pc = "mount" /\ p \in Pillar
             /\ \/ Goto(a, "failure") /\ mounted' = mounted
                \/ /\ ConfigGood(p) /\ ~p.availableErrors
                   /\ mounted' \subseteq mounted \cup p.config.archives
                   /\ mounted \ Removable(p) \subseteq mounted'
                   /\ \/ Goto(a, "failure")
                      \/ /\ Goto(a, "publish")
                         /\ Unwanted(p) \cap p.active = {}
                         /\ mounted' = (mounted \cup p.config.archives) \ Removable(p)
<1>1. job[a].pc = "mount" /\ job[a].pillar \in Pillar
  BY Busy DEF Mount, At, JobFits
<1> QED BY <1>1 DEF Mount

LEMMA MountType ==
  ASSUME TypeOK, NEW a \in Writers, Mount(a)
  PROVE  TypeOK'
<1>1. job[a].pc = "mount" /\ job[a].pillar \in Pillar /\ job[a].cmd \in {"import", "unimport"}
  BY Busy DEF Mount, At, JobFits
<1>2. Typed /\ Waiting(a) /\ JobFits(a)'
  <2>1. CASE Goto(a, "failure")
    BY <1>1, <2>1, Ends
  <2>2. CASE Goto(a, "publish")
    BY <1>1, <2>2, GoesOn
  <2> QED BY <2>1, <2>2, MountStep
<1>3. ObjectsOK' /\ OthersRead(a)
  BY Quiet DEF Mount, TypeOK
<1>4. mounted' \subseteq Versions
  BY <1>1, MountStep DEF TypeOK, Pillar, Config
<1>5. NoFault \/ \E kind \in FaultKinds : Fault(kind)
  BY DEF Mount, FaultKinds
<1> QED BY <1>2, <1>3, <1>4, <1>5, TypeStep
        DEF Mount, TypeOK, Typed, Waiting, OthersWait, adminVars

LEMMA ConfigureMasterType ==
  ASSUME TypeOK, NEW a \in Writers, ConfigureMaster(a)
  PROVE  TypeOK'
<1>1. job[a].pc = "master" /\ (Goto(a, "success") \/ Goto(a, "failure"))
  BY DEF ConfigureMaster, At
<1>2. Typed /\ Waiting(a) /\ JobFits(a)'
  BY <1>1, Ends
<1>3. ObjectsOK' /\ OthersRead(a)
  BY Quiet DEF ConfigureMaster, TypeOK
<1>4. exposed' \subseteq Versions /\ imported' \subseteq Versions
  BY <1>1, Busy DEF ConfigureMaster, TypeOK, JobFits
<1>5. NoFault \/ \E kind \in FaultKinds : Fault(kind)
  BY DEF ConfigureMaster, FaultKinds
<1> QED BY <1>2, <1>3, <1>4, <1>5, TypeStep
        DEF ConfigureMaster, TypeOK, Typed, Waiting, OthersWait, adminVars

LEMMA AfterPutStep ==
  ASSUME TypeOK, NEW a \in Writers, job[a].pc \in {"look", "put"}, NEW ok \in BOOLEAN,
         AfterPut(a, ok)
  PROVE  LET deploying == job[a].cmd \in {"activate", "deactivate"}
         IN  /\ Typed /\ Waiting(a) /\ JobFits(a)'
             /\ ~deploying => job'[a].pc = IF ok THEN "master" ELSE "idle"
             /\ deploying => job'[a].pc = IF Errors(job[a].pillar) THEN "idle" ELSE "crd"
             /\ job'[a].pc # "idle" =>
                  /\ job'[a].cmd = job[a].cmd /\ job'[a].arg = job[a].arg
                  /\ job'[a].pillar = job[a].pillar
<1> DEFINE deploying == job[a].cmd \in {"activate", "deactivate"}
           pc == IF ~deploying THEN (IF ok THEN "master" ELSE "failure")
                 ELSE IF Errors(job[a].pillar) THEN "failure" ELSE "crd"
           next == [job[a] EXCEPT !.pc = pc, !.ok = @ /\ ok]
<1>1. job[a] \in Job /\ JobFits(a) /\ job[a].cmd \in ConfigCommands /\ job[a].pillar \in Pillar
  BY Busy DEF JobFits
<1>2. Become(a, next)
  BY DEF AfterPut
<1>3. pc \in {"master", "failure", "crd"}
  OBVIOUS
<1> HIDE DEF pc
<1>4. next \in Motion /\ next.pc = pc /\ next.cmd = job[a].cmd /\ next.arg = job[a].arg
      /\ next.pillar = job[a].pillar
  BY <1>1, <1>3 DEF Motion, Job, Points, ConfigCommands
<1> HIDE DEF next
<1>5. Moved(a, next)
  BY <1>2, <1>4, Moves DEF TypeOK
<1>6. JobFits(a)'
  BY <1>1, <1>3, <1>4, <1>5 DEF Moved, JobFits, pc, ConfigCommands
<1> QED BY <1>3, <1>4, <1>5, <1>6 DEF Moved, Typed, Waiting, pc

LEMMA FlaggingStep ==
  ASSUME TypeOK, NEW a \in Writers, job[a].pc \in {"crd", "crdWrite"}, NEW ok \in BOOLEAN,
         Flagging(a, ok)
  PROVE  /\ Typed /\ Waiting(a) /\ JobFits(a)'
         /\ job'[a].pc = "flags" /\ job'[a].cmd = job[a].cmd /\ job'[a].arg = job[a].arg
         /\ job'[a].pillar = job[a].pillar /\ (job'[a].ok => ok)
<1> DEFINE next == [job[a] EXCEPT !.pc = "flags", !.ok = @ /\ ok]
<1>1. /\ job[a] \in Job /\ JobFits(a) /\ job[a].pillar \in Pillar
      /\ job[a].cmd \in {"activate", "deactivate"}
  BY Busy DEF JobFits
<1>2. Become(a, next)
  BY DEF Flagging
<1>3. next \in Motion /\ next.pc = "flags" /\ next.cmd = job[a].cmd /\ next.arg = job[a].arg
      /\ next.pillar = job[a].pillar /\ (next.ok => ok)
  BY <1>1 DEF Motion, Job, Points
<1> HIDE DEF next
<1>4. Moved(a, next)
  BY <1>2, <1>3, Moves DEF TypeOK
<1>5. JobFits(a)'
  BY <1>1, <1>3, <1>4 DEF Moved, JobFits
<1> QED BY <1>3, <1>4, <1>5 DEF Moved, Typed, Waiting

LEMMA PublishedBody ==
  ASSUME NEW p \in Pillar
  PROVE  /\ FromPillar(p) \in BodiesOf("configMap")
         /\ FromPillar(p).listed = p.available /\ FromPillar(p).active = p.active
         /\ FromPillar(p).errors = p.availableErrors
<1>1. p.availableErrors \in BOOLEAN /\ p.available \subseteq Versions /\ p.active \subseteq Versions
  BY DEF Pillar
<1>2. FromPillar(p) \in Published
  BY <1>1 DEF FromPillar, Published
<1> QED BY <1>1, <1>2 DEF FromPillar, BodiesOf

LEMMA Names == {"configMap", "crd"} \cup Parts \subseteq Objects
BY SolutionObjectsAssumption DEF SolutionObjects

LEMMA LookConfigMapStep ==
  ASSUME TypeOK, NEW a \in Writers, LookConfigMap(a)
  PROVE  /\ job[a].pc = "look" /\ ObjectsOK' /\ OthersWait(a) /\ Typed /\ JobFits(a)'
         /\ UNCHANGED api
         /\ \/ /\ job'[a].pc = "put" /\ job'[a].cmd = job[a].cmd /\ job'[a].arg = job[a].arg
               /\ job'[a].pillar = job[a].pillar
            \/ AfterPut(a, FALSE)
<1>1. job[a].pc = "look" /\ job[a] \in Job /\ JobFits(a) /\ job[a].cmd # "none" /\ ObjectsOK
  BY Busy DEF LookConfigMap, At, TypeOK
<1>2. CASE Look(a, "configMap") /\ Goto(a, "put")
  <2>1. ObjectsOK' /\ OthersRead(a) /\ seen'[a] # None /\ seen'[a].of = "configMap"
    BY <1>1, <1>2, Names, LookOK
  <2>2. /\ Typed /\ Waiting(a) /\ job'[a].pc = "put" /\ job'[a].cmd = job[a].cmd
        /\ job'[a].arg = job[a].arg /\ job'[a].pillar = job[a].pillar
    BY <1>1, <1>2, Goes DEF TypeOK, Typed, Waiting, Points
  <2>3. JobFits(a)'
    BY <1>1, <2>1, <2>2 DEF JobFits
  <2> QED BY <1>1, <1>2, <2>1, <2>2, <2>3 DEF OthersWait, Waiting, Look
<1>3. CASE Forget(a) /\ AfterPut(a, FALSE)
  <2>1. ObjectsOK' /\ OthersRead(a)
    BY <1>1, <1>3, ForgetOK
  <2>2. Typed /\ Waiting(a) /\ JobFits(a)'
    BY <1>1, <1>3, AfterPutStep
  <2> QED BY <1>1, <1>3, <2>1, <2>2 DEF OthersWait, Waiting, Forget
<1> QED BY <1>2, <1>3 DEF LookConfigMap

LEMMA PutConfigMapStep ==
  ASSUME TypeOK, NEW a \in Writers, PutConfigMap(a)
  PROVE  /\ job[a].pc = "put" /\ ObjectsOK' /\ OthersWait(a) /\ Typed /\ JobFits(a)'
         /\ job[a].pillar \in Pillar
         /\ \A o \in Objects : o # "configMap" => api'[o] = api[o]
         /\ \/ /\ api'["configMap"] # None
               /\ api'["configMap"].body = FromPillar(job[a].pillar)
               /\ AfterPut(a, TRUE)
            \/ api' = api /\ AfterPut(a, FALSE)
<1>1. /\ job[a].pc = "put" /\ job[a] \in Job /\ JobFits(a) /\ ObjectsOK
      /\ job[a].pillar \in Pillar /\ seen[a] # None /\ seen[a].of = "configMap"
  BY Busy DEF PutConfigMap, At, TypeOK, JobFits
<1>2. CASE Put(a, FromPillar(job[a].pillar)) /\ AfterPut(a, TRUE)
  <2>1. FromPillar(job[a].pillar) \in BodiesOf(seen[a].of)
    BY <1>1, PublishedBody
  <2>2. /\ ObjectsOK' /\ OthersRead(a)
        /\ api'["configMap"] # None /\ api'["configMap"].body = FromPillar(job[a].pillar)
        /\ \A o \in Objects : o # "configMap" => api'[o] = api[o]
    BY <1>1, <1>2, <2>1, PutOK
  <2>3. Typed /\ Waiting(a) /\ JobFits(a)'
    BY <1>1, <1>2, AfterPutStep
  <2> QED BY <1>1, <1>2, <2>2, <2>3 DEF OthersWait, Waiting
<1>3. CASE Forget(a) /\ AfterPut(a, FALSE)
  <2>1. ObjectsOK' /\ OthersRead(a)
    BY <1>1, <1>3, ForgetOK
  <2>2. Typed /\ Waiting(a) /\ JobFits(a)'
    BY <1>1, <1>3, AfterPutStep
  <2> QED BY <1>1, <1>3, <2>1, <2>2 DEF OthersWait, Waiting, Forget
<1> QED BY <1>2, <1>3 DEF PutConfigMap

LEMMA LookCrdStep ==
  ASSUME TypeOK, NEW a \in Writers, LookCrd(a)
  PROVE  LET p == job[a].pillar
         IN  /\ job[a].pc = "crd" /\ p \in Pillar
             /\ ObjectsOK' /\ OthersWait(a) /\ Typed /\ JobFits(a)' /\ UNCHANGED api
             /\ job'[a].cmd = job[a].cmd /\ job'[a].arg = job[a].arg /\ job'[a].pillar = p
             /\ job'[a].pc \in {"crdWrite", "flags"}
             /\ (job'[a].pc = "flags" /\ job'[a].ok) => CrdVersion(p) = Nothing
<1> DEFINE p == job[a].pillar
<1>1. /\ job[a].pc = "crd" /\ job[a] \in Job /\ JobFits(a) /\ ObjectsOK /\ job[a].cmd # "none"
      /\ p \in Pillar
  BY Busy DEF LookCrd, At, TypeOK, JobFits
<1>2. CASE Manipulated(p) /\ Look(a, "crd") /\ Goto(a, "crdWrite")
  <2>1. ObjectsOK' /\ OthersRead(a) /\ seen'[a] # None /\ seen'[a].of = "crd"
    BY <1>1, <1>2, Names, LookOK
  <2>2. /\ Typed /\ Waiting(a) /\ job'[a].pc = "crdWrite" /\ job'[a].cmd = job[a].cmd
        /\ job'[a].arg = job[a].arg /\ job'[a].pillar = p
    BY <1>1, <1>2, Goes DEF TypeOK, Typed, Waiting, Points
  <2>3. CrdVersion(p) \in p.available
    BY <1>2 DEF Manipulated
  <2>4. JobFits(a)'
    BY <1>1, <2>1, <2>2, <2>3 DEF JobFits
  <2> QED BY <1>1, <1>2, <2>1, <2>2, <2>4 DEF OthersWait, Waiting, Look
<1>3. ASSUME Forget(a), NEW ok \in BOOLEAN, Flagging(a, ok), ok => CrdVersion(p) = Nothing
      PROVE  /\ ObjectsOK' /\ OthersWait(a) /\ Typed /\ JobFits(a)' /\ UNCHANGED api
             /\ job'[a].cmd = job[a].cmd /\ job'[a].arg = job[a].arg /\ job'[a].pillar = p
             /\ job'[a].pc \in {"crdWrite", "flags"}
             /\ (job'[a].pc = "flags" /\ job'[a].ok) => CrdVersion(p) = Nothing
  <2>1. ObjectsOK' /\ OthersRead(a)
    BY <1>1, <1>3, ForgetOK
  <2>2. /\ Typed /\ Waiting(a) /\ JobFits(a)' /\ job'[a].pc = "flags"
        /\ job'[a].cmd = job[a].cmd /\ job'[a].arg = job[a].arg
        /\ job'[a].pillar = p /\ (job'[a].ok => ok)
    BY <1>1, <1>3, FlaggingStep
  <2> QED BY <1>3, <2>1, <2>2 DEF OthersWait, Waiting, Forget
<1>4. CASE Forget(a) /\ Flagging(a, CrdVersion(p) = Nothing)
  <2>1. CASE CrdVersion(p) = Nothing
    <3>1. (CrdVersion(p) = Nothing) = TRUE
      BY <2>1
    <3>2. Flagging(a, TRUE)
      BY <1>4, <3>1
    <3> QED BY <1>1, <1>3, <1>4, <2>1, <3>2
  <2>2. CASE CrdVersion(p) # Nothing
    <3>1. (CrdVersion(p) = Nothing) = FALSE
      BY <2>2
    <3>2. Flagging(a, FALSE)
      BY <1>4, <3>1
    <3> QED BY <1>1, <1>3, <1>4, <3>2
  <2> QED BY <2>1, <2>2
<1>5. CASE Forget(a) /\ Flagging(a, FALSE)
  BY <1>1, <1>3, <1>5
<1>6. \/ Manipulated(p) /\ Look(a, "crd") /\ Goto(a, "crdWrite")
      \/ Forget(a) /\ Flagging(a, CrdVersion(p) = Nothing)
      \/ Forget(a) /\ Flagging(a, FALSE)
  BY DEF LookCrd
<1> HIDE DEF p
<1>7. CASE Manipulated(p) /\ Look(a, "crd") /\ Goto(a, "crdWrite")
  BY <1>1, <1>2, <1>7 DEF p
<1> QED BY <1>1, <1>4, <1>5, <1>6, <1>7 DEF p

LEMMA WriteCrdStep ==
  ASSUME TypeOK, NEW a \in Writers, WriteCrd(a)
  PROVE  LET p == job[a].pillar
         IN  /\ job[a].pc = "crdWrite" /\ p \in Pillar /\ CrdVersion(p) \in p.available
             /\ ObjectsOK' /\ OthersWait(a) /\ Typed /\ JobFits(a)'
             /\ \A o \in Objects : o # "crd" => api'[o] = api[o]
             /\ job'[a].cmd = job[a].cmd /\ job'[a].arg = job[a].arg /\ job'[a].pillar = p
             /\ job'[a].pc = "flags"
             /\ job'[a].ok /\ Desired(p) # Nothing =>
                  api'["crd"] # None /\ api'["crd"].body = CrdVersion(p)
<1> DEFINE p == job[a].pillar
           present == Desired(p) # Nothing
<1>1. /\ job[a].pc = "crdWrite" /\ job[a] \in Job /\ JobFits(a) /\ ObjectsOK /\ p \in Pillar
      /\ seen[a] # None /\ seen[a].of = "crd" /\ CrdVersion(p) \in p.available
  BY Busy DEF WriteCrd, At, TypeOK, JobFits
<1>2. ASSUME NEW ok \in BOOLEAN, Flagging(a, ok)
      PROVE  /\ Typed /\ Waiting(a) /\ JobFits(a)' /\ job'[a].pc = "flags"
             /\ job'[a].cmd = job[a].cmd /\ job'[a].arg = job[a].arg
             /\ job'[a].pillar = p /\ (job'[a].ok => ok)
  BY <1>1, <1>2, FlaggingStep
<1>3. CASE present /\ Put(a, CrdVersion(p)) /\ Flagging(a, TRUE)
  <2>1. CrdVersion(p) \in BodiesOf(seen[a].of)
    BY <1>1 DEF BodiesOf, Pillar
  <2>2. /\ ObjectsOK' /\ OthersRead(a)
        /\ api'["crd"] # None /\ api'["crd"].body = CrdVersion(p)
        /\ \A o \in Objects : o # "crd" => api'[o] = api[o]
    BY <1>1, <1>3, <2>1, PutOK
  <2> QED BY <1>1, <1>2, <1>3, <2>2 DEF OthersWait, Waiting
<1>4. CASE ~present /\ Delete(a) /\ Flagging(a, TRUE)
  <2>1. ObjectsOK' /\ OthersRead(a) /\ \A o \in Objects : o # "crd" => api'[o] = api[o]
    BY <1>1, <1>4, DeleteOK
  <2> QED BY <1>1, <1>2, <1>4, <2>1 DEF OthersWait, Waiting
<1>5. CASE Forget(a) /\ Flagging(a, FALSE)
  <2>1. ObjectsOK' /\ OthersRead(a)
    BY <1>1, <1>5, ForgetOK
  <2> QED BY <1>1, <1>2, <1>5, <2>1 DEF OthersWait, Waiting, Forget
<1> QED BY <1>3, <1>4, <1>5 DEF WriteCrd

LEMMA ListActive ==
  ASSUME TypeOK
  PROVE  /\ list_active \subseteq Versions /\ Listed \subseteq Versions
         /\ Exists("configMap") => Body("configMap") \in Published
BY Names DEF TypeOK, ObjectsOK, Exists, Body, Stored, Published, list_active, Listed

LEMMA UpdateFlagsStep ==
  ASSUME TypeOK, NEW a \in Writers, UpdateFlags(a)
  PROVE  LET p == job[a].pillar
         IN  /\ job[a].pc = "flags" /\ p \in Pillar
             /\ ObjectsOK' /\ OthersWait(a) /\ Typed /\ JobFits(a)'
             /\ \A o \in Objects : o # "configMap" => api'[o] = api[o]
             /\ \/ /\ p.available # {} /\ api'["configMap"] # None
                   /\ api'["configMap"].body.active = Flags(p)
                   /\ (Goto(a, "success") /\ job[a].ok) \/ Goto(a, "failure")
                \/ /\ api' = api
                   /\ (Goto(a, "success") /\ p.available = {} /\ job[a].ok) \/ Goto(a, "failure")
<1> DEFINE p == job[a].pillar
           body == [Body("configMap") EXCEPT !.listed = p.available, !.flags = TRUE,
                                             !.active = Flags(p)]
<1>1. job[a].pc = "flags" /\ ObjectsOK /\ p \in Pillar
  BY Busy DEF UpdateFlags, At, TypeOK, JobFits
<1>2. Goto(a, "success") \/ Goto(a, "failure") => Typed /\ Waiting(a) /\ JobFits(a)'
  BY <1>1, Ends
<1>3. CASE /\ p.available # {} /\ Patch(a, "configMap", body)
           /\ (Goto(a, "success") /\ job[a].ok) \/ Goto(a, "failure")
  <2>1. Exists("configMap")
    BY <1>3 DEF Patch, Handled
  <2>2. body \in Published /\ body.active = Flags(p)
    <3>1. Flags(p) \subseteq Versions /\ p.available \subseteq Versions
      BY <1>1 DEF Flags, Pillar
    <3>2. Body("configMap") \in Published
      BY <2>1, ListActive
    <3> QED BY <3>1, <3>2 DEF Published
  <2> HIDE DEF body
  <2>3. body \in BodiesOf("configMap")
    BY <2>2 DEF BodiesOf
  <2>4. /\ ObjectsOK' /\ OthersRead(a)
        /\ api'["configMap"] # None /\ api'["configMap"].body = body
        /\ \A o \in Objects : o # "configMap" => api'[o] = api[o]
    BY <1>1, <1>3, <2>3, Names, PatchOK DEF Exists
  <2> QED BY <1>1, <1>2, <1>3, <2>2, <2>4 DEF OthersWait, Waiting
<1>4. CASE /\ Forget(a)
           /\ (Goto(a, "success") /\ p.available = {} /\ job[a].ok) \/ Goto(a, "failure")
  <2>1. ObjectsOK' /\ OthersRead(a)
    BY <1>1, <1>4, ForgetOK
  <2> QED BY <1>1, <1>2, <1>4, <2>1 DEF OthersWait, Waiting, Forget
<1> QED BY <1>3, <1>4 DEF UpdateFlags, Ended

LEMMA ObjectStepType ==
  ASSUME TypeOK, NEW a \in Writers,
         LookConfigMap(a) \/ PutConfigMap(a) \/ LookCrd(a) \/ WriteCrd(a) \/ UpdateFlags(a)
  PROVE  TypeOK'
<1>1. ObjectsOK' /\ OthersWait(a) /\ Typed /\ JobFits(a)'
  BY LookConfigMapStep, PutConfigMapStep, LookCrdStep, WriteCrdStep, UpdateFlagsStep
<1>2. /\ UNCHANGED <<config, mounted, exposed, env, imported, commands, overlapped, collected>>
      /\ NoFault \/ \E kind \in FaultKinds : Fault(kind)
  BY DEF LookConfigMap, PutConfigMap, LookCrd, WriteCrd, UpdateFlags, adminVars, FaultKinds
<1> QED BY <1>1, <1>2, TypeStep DEF TypeOK, Typed

LEMMA NamespaceType ==
  ASSUME TypeOK, NEW a \in Writers,
         CreateNamespace(a) \/ LabelNamespace(a) \/ CreateConfigMap(a)
  PROVE  TypeOK'
<1>1. job[a].pc # "idle" /\ job[a].cmd = "createEnv"
  BY Busy DEF CreateNamespace, LabelNamespace, CreateConfigMap, At, JobFits
<1>2. \E pc \in {"label", "configmap", "failure", "success"} : Goto(a, pc)
  BY DEF CreateNamespace, LabelNamespace, CreateConfigMap
<1>3. Typed /\ Waiting(a) /\ JobFits(a)'
  BY <1>1, <1>2, Ends, GoesOn
<1>4. ObjectsOK' /\ OthersRead(a)
  BY Quiet DEF CreateNamespace, LabelNamespace, CreateConfigMap, TypeOK
<1>5. env' \in Environment
  BY DEF CreateNamespace, LabelNamespace, CreateConfigMap, TypeOK, Environment
<1>6. /\ UNCHANGED <<config, mounted, exposed, imported, commands, overlapped, collected>>
      /\ NoFault \/ \E kind \in FaultKinds : Fault(kind)
  BY DEF CreateNamespace, LabelNamespace, CreateConfigMap, adminVars, FaultKinds
<1> QED BY <1>3, <1>4, <1>5, <1>6, TypeStep DEF TypeOK, Typed, Waiting, OthersWait

LEMMA DeleteNamespaceType ==
  ASSUME TypeOK, NEW a \in Writers, DeleteNamespace(a)
  PROVE  TypeOK'
<1>1. job[a].pc # "idle" /\ (Goto(a, "success") \/ Goto(a, "failure"))
  BY DEF DeleteNamespace, At
<1>2. Typed /\ Waiting(a) /\ JobFits(a)'
  BY <1>1, Ends
<1>3. ObjectsOK' /\ OthersRead(a)
  <2>1. api' = api \/ api' = [o \in Objects |-> IF o \in Parts THEN None ELSE api[o]]
    BY DEF DeleteNamespace
  <2>2. seen' = seen
    BY DEF DeleteNamespace
  <2> QED BY <2>1, <2>2 DEF ObjectsOK, OthersRead, Exists, TypeOK
<1>4. env' \in Environment
  <2>1. NoEnv \in Environment
    BY DEF NoEnv, Environment
  <2> QED BY <2>1 DEF DeleteNamespace, TypeOK
<1>5. /\ UNCHANGED <<config, mounted, exposed, imported, commands, overlapped, collected>>
      /\ NoFault \/ \E kind \in FaultKinds : Fault(kind)
  BY DEF DeleteNamespace, adminVars, FaultKinds
<1> QED BY <1>2, <1>3, <1>4, <1>5, TypeStep DEF TypeOK, Typed, Waiting, OthersWait

LEMMA EnvironmentType ==
  ASSUME TypeOK, NEW a \in Writers, CheckEnvironment(a) \/ PatchEnvironment(a)
  PROVE  TypeOK'
<1>1. /\ job[a].pc \in {"start", "configure"} /\ job[a].cmd \in {"add", "delete"}
      /\ job[a].arg \in Versions \cup {Nothing}
  BY Busy DEF CheckEnvironment, PatchEnvironment, At, JobFits
<1>2. \E pc \in {"configure", "prepare", "failure"} : Goto(a, pc)
  BY DEF CheckEnvironment, PatchEnvironment
<1>3. Typed /\ Waiting(a) /\ JobFits(a)'
  BY <1>1, <1>2, Ends, GoesOn
<1>4. ObjectsOK' /\ OthersRead(a)
  BY Quiet DEF CheckEnvironment, PatchEnvironment, TypeOK
<1>5. env' \in Environment
  BY <1>1 DEF CheckEnvironment, PatchEnvironment, TypeOK, Environment
<1>6. /\ UNCHANGED <<config, mounted, exposed, imported, commands, overlapped, collected>>
      /\ NoFault \/ \E kind \in FaultKinds : Fault(kind)
  BY DEF CheckEnvironment, PatchEnvironment, adminVars, FaultKinds
<1> QED BY <1>3, <1>4, <1>5, <1>6, TypeStep DEF TypeOK, Typed, Waiting, OthersWait

LEMMA CheckPillarStep ==
  ASSUME TypeOK, NEW a \in Writers, CheckPillar(a)
  PROVE  LET version == job[a].pillar.environment.data
         IN  /\ job[a].pc = "check" /\ Typed /\ Waiting(a) /\ JobFits(a)'
             /\ UNCHANGED <<config, mounted, exposed, env, imported, adminVars, api, seen>> /\ NoFault
             /\ \/ job'[a].pc = "idle"
                \/ /\ job'[a].pc = "success" /\ version \in {None, Nothing}
                   /\ job'[a].cmd = job[a].cmd /\ job'[a].arg = job[a].arg
                \/ /\ job'[a].pc = "apply" /\ version \in Versions /\ job'[a].done = {}
                   /\ job'[a].cmd = job[a].cmd /\ job'[a].arg = job[a].arg
                   /\ job'[a].pillar = job[a].pillar
<1> DEFINE p == job[a].pillar
           version == p.environment.data
<1>1. /\ job[a].pc = "check" /\ job[a] \in Job /\ job[a].cmd # "none" /\ JobFits(a)
      /\ p \in Pillar /\ job[a].done = {} /\ job \in [Writers -> Job]
  BY Busy DEF CheckPillar, At, JobFits, TypeOK
<1>2. \/ Goto(a, "failure")
      \/ Goto(a, "success") /\ version \in {None, Nothing}
      \/ Goto(a, "apply") /\ version \notin {None, Nothing}
  BY DEF CheckPillar
<1>3. version \in Versions \cup {Nothing, None}
  BY <1>1 DEF Pillar
<1>4. UNCHANGED <<config, mounted, exposed, env, imported, adminVars, api, seen>> /\ NoFault
  BY DEF CheckPillar
<1>5. CASE Goto(a, "failure")
  BY <1>1, <1>4, <1>5, Ends, Goes DEF Points
<1>6. CASE Goto(a, "success") /\ version \in {None, Nothing}
  BY <1>1, <1>4, <1>6, Ends, Goes DEF Points
<1>7. CASE Goto(a, "apply") /\ version \notin {None, Nothing}
  <2>1. /\ Typed /\ Waiting(a) /\ job'[a].pc = "apply" /\ job'[a].cmd = job[a].cmd
        /\ job'[a].arg = job[a].arg /\ job'[a].pillar = job[a].pillar
        /\ job'[a].done = job[a].done
    BY <1>1, <1>7, Goes DEF Points, Typed, Waiting
  <2>2. JobFits(a)'
    BY <1>1, <1>3, <1>7, <2>1 DEF JobFits
  <2> QED BY <1>1, <1>3, <1>4, <1>7, <2>1, <2>2
<1> QED BY <1>2, <1>5, <1>6, <1>7

LEMMA CheckPillarType ==
  ASSUME TypeOK, NEW a \in Writers, CheckPillar(a)
  PROVE  TypeOK'
<1>1. Typed /\ Waiting(a) /\ JobFits(a)' /\ NoFault
      /\ UNCHANGED <<config, mounted, exposed, env, imported, adminVars, api, seen>>
  BY CheckPillarStep
<1>2. ObjectsOK' /\ OthersRead(a)
  BY <1>1, Quiet DEF TypeOK
<1> QED BY <1>1, <1>2, TypeStep DEF TypeOK, Typed, Waiting, OthersWait, adminVars

LEMMA ApplyStep ==
  ASSUME TypeOK, NEW a \in Writers, NEW o \in Parts, Apply(a, o)
  PROVE  LET j == job[a]
             v == j.pillar.environment.data
         IN  /\ j.pc = "apply" /\ v \in Versions /\ ObjectsOK' /\ OthersWait(a) /\ Typed
             /\ JobFits(a)'
             /\ \A x \in Objects : x # o => api'[x] = api[x]
             /\ \/ job'[a].pc = "idle"
                \/ /\ job'[a].pc = "apply" /\ job'[a].pillar = j.pillar
                   /\ job'[a].cmd = j.cmd /\ job'[a].arg = j.arg
                   /\ job'[a].done = j.done /\ api' = api
                \/ /\ job'[a].pc \in {"apply", "success", "idle"}
                   /\ api'[o] # None /\ api'[o].body = v /\ Needs(o) \subseteq j.done
                   /\ job'[a].pc # "idle" => job'[a].cmd = j.cmd /\ job'[a].arg = j.arg
                   /\ job'[a].pc = "apply" =>
                        job'[a].pillar = j.pillar /\ job'[a].done = j.done \cup {o}
                   /\ job'[a].pc = "success" => j.done \cup {o} = Parts
             /\ (api'[o] # None /\ api'[o] # api[o]) =>
                  api'[o].body = v /\ Needs(o) \subseteq j.done
<1> DEFINE j == job[a]
           v == j.pillar.environment.data
           tried == j.tried \cup {o}
           pc(ok) == IF tried # Parts THEN j.pc
                     ELSE IF ok /\ j.done = Parts \ {o} THEN "success" ELSE "failure"
           done(ok) == IF ok THEN j.done \cup {o} ELSE j.done
           next(ok) == [j EXCEPT !.tried = tried, !.done = done(ok), !.pc = pc(ok)]
<1>1. /\ j.pc = "apply" /\ j \in Job /\ j.cmd # "none" /\ v \in Versions
      /\ o \in Objects \ {"configMap", "crd"} /\ ObjectsOK
  BY Busy, Names DEF Apply, At, JobFits, TypeOK, Parts, Operator
<1>2. ASSUME NEW ok \in BOOLEAN, Become(a, next(ok))
      PROVE  /\ Typed /\ Waiting(a) /\ JobFits(a)'
             /\ pc(ok) = "failure" => job'[a].pc = "idle"
             /\ pc(ok) = "success" =>
                  job'[a].pc = "success" /\ job'[a].cmd = j.cmd /\ job'[a].arg = j.arg
             /\ pc(ok) = "apply" =>
                  /\ job'[a].pc = "apply" /\ job'[a].cmd = j.cmd /\ job'[a].arg = j.arg
                  /\ job'[a].pillar = j.pillar /\ job'[a].done = done(ok)
             /\ pc(ok) \in {"failure", "success", "apply"}
  <2>1. pc(ok) \in {"failure", "success", "apply"}
    BY <1>1
  <2> DEFINE n == next(ok)
  <2>2. done(ok) \in SUBSET Parts /\ tried \in SUBSET Parts
    BY <1>1 DEF Job
  <2> HIDE DEF pc, done, tried
  <2>3. n \in Motion /\ n.pc = pc(ok) /\ n.cmd = j.cmd /\ n.arg = j.arg
        /\ n.pillar = j.pillar /\ n.done = done(ok)
    BY <1>1, <2>1, <2>2 DEF Motion, Job, Points
  <2> HIDE DEF n
  <2>4. Moved(a, n)
    BY <1>2, <2>3, Moves DEF TypeOK, n
  <2>5. JobFits(a)'
    <3>1. JobFits(a)
      BY <1>1, Busy
    <3> QED BY <1>1, <2>1, <2>3, <2>4, <3>1 DEF Moved, JobFits
  <2> QED BY <2>1, <2>3, <2>4, <2>5 DEF Moved, Typed, Waiting
<1>3. CASE /\ Needs(o) \subseteq j.done
           /\ api' = [api EXCEPT ![o] = [body |-> v, going |-> FALSE]]
           /\ Become(a, next(TRUE))
  <2>1. /\ api'[o] = [body |-> v, going |-> FALSE] /\ DOMAIN api' = Objects
        /\ \A x \in Objects : x # o => api'[x] = api[x]
    BY <1>1, <1>3 DEF ObjectsOK
  <2>2. api'[o] \in Stored(o) /\ api'[o].body = v /\ ~api'[o].going
    BY <1>1, <2>1 DEF Stored
  <2>3. seen' = seen
    BY DEF Apply
  <2>4. ObjectsOK' /\ OthersRead(a) /\ api'[o] # None
    <3>1. \A x \in Objects : api'[x] \in {None} \cup Stored(x)
      BY <1>1, <2>1, <2>2 DEF ObjectsOK
    <3>2. \A x \in Objects \ {"crd"} : api'[x] # None => ~api'[x].going
      BY <1>1, <2>1, <2>2 DEF ObjectsOK, Exists
    <3> QED BY <1>1, <2>1, <2>2, <2>3, <3>1, <3>2, NoneIsNothing DEF ObjectsOK, OthersRead, Exists
  <2>5. pc(TRUE) = "success" => j.done \cup {o} = Parts
    BY <1>1
  <2> HIDE DEF pc, next
  <2> QED BY <1>1, <1>2, <1>3, <2>1, <2>4, <2>5 DEF OthersWait, Waiting
<1>4. CASE Become(a, next(FALSE)) /\ UNCHANGED api
  <2>1. ObjectsOK' /\ OthersRead(a)
    BY <1>1, <1>4, Quiet DEF Apply
  <2>2. pc(FALSE) # "success"
    BY <1>1
  <2> HIDE DEF pc, next
  <2> QED BY <1>1, <1>2, <1>4, <2>1, <2>2 DEF OthersWait, Waiting
<1> HIDE DEF pc, done
<1> QED BY <1>3, <1>4 DEF Apply, pc, done

LEMMA ApplyType ==
  ASSUME TypeOK, NEW a \in Writers, NEW o \in Parts, Apply(a, o)
  PROVE  TypeOK'
<1>1. ObjectsOK' /\ OthersWait(a) /\ Typed /\ JobFits(a)'
  BY ApplyStep
<1>2. /\ UNCHANGED <<config, mounted, exposed, env, imported, commands, overlapped, collected>>
      /\ NoFault \/ \E kind \in FaultKinds : Fault(kind)
  BY DEF Apply, adminVars, FaultKinds
<1> QED BY <1>1, <1>2, TypeStep DEF TypeOK, Typed

LEMMA KillType ==
  ASSUME TypeOK, NEW a \in Writers, Kill(a)
  PROVE  TypeOK'
<1>1. job[a].pc # "idle" /\ Goto(a, "failure") /\ Forget(a)
  BY DEF Kill, Running
<1>2. Typed /\ Waiting(a) /\ JobFits(a)'
  BY <1>1, Ends
<1>3. ObjectsOK' /\ OthersRead(a)
  BY <1>1, ForgetOK DEF TypeOK
<1>4. /\ UNCHANGED <<config, mounted, exposed, env, imported, commands, overlapped, collected>>
      /\ NoFault \/ \E kind \in FaultKinds : Fault(kind)
  BY DEF Kill, adminVars, FaultKinds
<1> QED BY <1>2, <1>3, <1>4, TypeStep DEF TypeOK, Typed, Waiting, OthersWait

LEMMA GarbageType ==
  ASSUME TypeOK, GarbageCollect
  PROVE  TypeOK'
<1>1. PICK o \in Objects : Collect(o)
  BY DEF GarbageCollect
<1>2. ObjectsOK' /\ OthersRead(None)
  BY <1>1, CollectOK DEF TypeOK
<1>3. UNCHANGED <<config, mounted, exposed, env, job, faults, commands, overlapped, imported>>
      /\ collected' = TRUE
  BY DEF GarbageCollect
<1>4. ASSUME NEW a \in Writers PROVE JobFits(a)'
  <2>1. job'[a] = job[a] /\ JobFits(a)
    BY <1>3 DEF TypeOK
  <2>2. seen[a] # None => seen'[a] # None /\ seen'[a].of = seen[a].of
    BY <1>2, NoneIsNothing DEF OthersRead
  <2> QED BY <2>1, <2>2 DEF JobFits
<1> QED BY <1>2, <1>3, <1>4 DEF TypeOK

LEMMA StepType ==
  ASSUME TypeOK, NEW a \in Writers, Step(a)
  PROVE  TypeOK'
<1>1. CASE CompileImport(a) \/ CompilePublish(a) \/ CompileDeploy(a) \/ CompilePrepare(a)
  BY <1>1, CompileType DEF CompileImport, CompilePublish, CompileDeploy, CompilePrepare
<1>2. CASE \E o \in Parts : Apply(a, o)
  BY <1>2, ApplyType
<1>3. CASE ReadConfig(a) \/ Truncate(a) \/ Dump(a) \/ Mount(a) \/ ConfigureMaster(a)
  BY <1>3, ReadConfigType, TruncateType, DumpType, MountType, ConfigureMasterType
<1>4. CASE CreateNamespace(a) \/ LabelNamespace(a) \/ CreateConfigMap(a) \/ DeleteNamespace(a)
           \/ CheckEnvironment(a) \/ PatchEnvironment(a) \/ CheckPillar(a)
  BY <1>4, NamespaceType, DeleteNamespaceType, EnvironmentType, CheckPillarType
<1>5. CASE LookConfigMap(a) \/ PutConfigMap(a) \/ LookCrd(a) \/ WriteCrd(a) \/ UpdateFlags(a)
  BY <1>5, ObjectStepType
<1> QED BY <1>1, <1>2, <1>3, <1>4, <1>5 DEF Step

LEMMA InitType == Init => TypeOK
<1> SUFFICES ASSUME Init PROVE TypeOK
  OBVIOUS
<1>1. config \in Config /\ env \in Environment
  BY DEF Init, EmptyConfig, Config, NoEnv, Environment
<1>2. ObjectsOK
  BY DEF Init, ApiInit, ObjectsOK, Exists
<1>3. job \in [Writers -> Job] /\ \A a \in Writers : JobFits(a)
  BY IdleIsJob DEF Init, JobFits
<1> QED BY <1>1, <1>2, <1>3 DEF Init, TypeOK

LEMMA NextType ==
  ASSUME TypeOK, [Next]_vars
  PROVE  TypeOK'
<1>1. CASE \E a \in Writers : Command(a) \/ Step(a) \/ Kill(a)
  BY <1>1, CommandType, StepType, KillType
<1>2. CASE GarbageCollect
  BY <1>2, GarbageType
<1>3. CASE UNCHANGED vars
  BY <1>3 DEF vars, TypeOK, ObjectsOK, JobFits, Exists
<1> QED BY <1>1, <1>2, <1>3 DEF Next

(***************************************************************************)
(* Every variable has its type, and a command holds what its next step uses: *)
(* a pillar that was compiled, an object that was read, a version of which   *)
(* the archive was there.                                                    *)
(***************************************************************************)
THEOREM TypeCorrect == Spec => []TypeOK
BY InitType, NextType, PTL DEF Spec

-----------------------------------------------------------------------------
(* Where a step leads and what it leaves alone.                              *)

LEMMA Lands ==
  ASSUME TypeOK, NEW a \in Writers, job[a].pc # "idle",
         NEW pc \in (Points \ {"idle"}) \cup {"failure"}, Goto(a, pc)
  PROVE  job'[a].pc = IF pc = "failure" THEN "idle" ELSE pc
BY Busy, Goes DEF TypeOK

LEMMA Stops ==
  ASSUME TypeOK, NEW a \in Writers, job[a].pc # "idle", Goto(a, "failure")
  PROVE  job'[a].pc = "idle" /\ job'[a].cmd = "none"
<1>1. JobFits(a)'
  BY Ends
<1>2. job'[a].pc = "idle"
  BY Lands
<1> QED BY <1>1, <1>2 DEF JobFits

Quietly(a) ==
  \/ ReadConfig(a) \/ Truncate(a) \/ Dump(a) \/ Mount(a) \/ ConfigureMaster(a)
  \/ CreateNamespace(a) \/ LabelNamespace(a) \/ CreateConfigMap(a) \/ DeleteNamespace(a)
  \/ CheckEnvironment(a) \/ PatchEnvironment(a) \/ CheckPillar(a) \/ Kill(a)

Compiles(a) ==
  CompileImport(a) \/ CompilePublish(a) \/ CompileDeploy(a) \/ CompilePrepare(a)

LEMMA StepKinds ==
  ASSUME NEW a \in Writers, Step(a) \/ Kill(a)
  PROVE  \/ Quietly(a) \/ Compiles(a) \/ \E o \in Parts : Apply(a, o)
         \/ LookConfigMap(a) \/ PutConfigMap(a) \/ LookCrd(a) \/ WriteCrd(a) \/ UpdateFlags(a)
BY DEF Step, Quietly, Compiles

LEMMA CompilesFrom ==
  ASSUME TypeOK, NEW a \in Writers, Compiles(a)
  PROVE  \E from \in Points \ {"idle"}, to \in {"mount", "look", "check"} :
           /\ <<from, to>> \in {<<"import", "mount">>, <<"publish", "look">>,
                                <<"deploy", "look">>, <<"prepare", "check">>}
           /\ Compile(a, from, to)
BY DEF Compiles, CompileImport, CompilePublish, CompileDeploy, CompilePrepare, Points

\* The ConfigMap metalk8s-solutions is written by two actions only.
LEMMA ConfigMapKept ==
  ASSUME TypeOK, NEW a \in Writers,
         \/ Command(a) \/ Quietly(a) \/ Compiles(a) \/ LookConfigMap(a)
         \/ \E o \in Parts : Apply(a, o)
         \/ LookCrd(a) \/ WriteCrd(a) \/ GarbageCollect
  PROVE  api'["configMap"] = api["configMap"]
<1>0. "configMap" \in Objects /\ "configMap" \notin Parts
  BY Names DEF Parts, Operator
<1>1. CASE Command(a)
  BY <1>1 DEF Command, Start, import_solution, unimport_solution, activate_command,
              deactivate_command, create_environment, delete_environment, add_solution,
              delete_solution
<1>2. CASE Quietly(a)
  BY <1>0, <1>2 DEF Quietly, ReadConfig, Truncate, Dump, Mount, ConfigureMaster, CreateNamespace,
              LabelNamespace, CreateConfigMap, DeleteNamespace, CheckEnvironment,
              PatchEnvironment, CheckPillar, Kill, Forget, Fail
<1>3. CASE Compiles(a)
  BY <1>3 DEF Compiles, CompileImport, CompilePublish, CompileDeploy, CompilePrepare, Compile
<1>4. CASE LookConfigMap(a) \/ LookCrd(a)
  BY <1>4, LookConfigMapStep, LookCrdStep
<1>5. CASE WriteCrd(a)
  BY <1>0, <1>5, WriteCrdStep
<1>6. CASE \E o \in Parts : Apply(a, o)
  BY <1>0, <1>6, ApplyStep
<1>7. CASE GarbageCollect
  BY <1>0, <1>7, CollectOK DEF GarbageCollect, TypeOK
<1> QED BY <1>1, <1>2, <1>3, <1>4, <1>5, <1>6, <1>7

LEMMA ConfigMapSame ==
  ASSUME api'["configMap"] = api["configMap"]
  PROVE  list_active' = list_active /\ Listed' = Listed /\ (Readable' <=> Readable)
BY DEF list_active, Listed, Readable, Exists, Body

\* Where a step of the first kind may lead.
LEMMA QuietlyLands ==
  ASSUME TypeOK, NEW a \in Writers, Quietly(a)
  PROVE  /\ Waiting(a)
         /\ job'[a].pc \in {"idle", "truncate", "dump", "import", "deploy", "publish", "success",
                           "label", "configmap", "configure", "prepare", "apply"}
<1>1. CASE ReadConfig(a)
  <2>1. CASE Goto(a, "failure")
    BY <1>1, <2>1, ReadConfigStep, Lands
  <2> QED BY <1>1, <2>1, ReadConfigStep
<1>2. CASE Dump(a)
  BY <1>2, DumpStep
<1>3. CASE CheckPillar(a)
  BY <1>3, CheckPillarStep
<1>4. CASE Quietly(a) /\ ~ReadConfig(a) /\ ~Dump(a) /\ ~CheckPillar(a)
  <2>1. job[a].pc # "idle"
    BY <1>4 DEF Quietly, Truncate, Mount, ConfigureMaster, CreateNamespace,
              LabelNamespace, CreateConfigMap, DeleteNamespace, CheckEnvironment,
              PatchEnvironment, Kill, At, Running
  <2>2. \E pc \in {"failure", "success", "dump", "publish", "label", "configmap", "configure", "prepare"} :
          Goto(a, pc)
    BY <1>4 DEF Quietly, Truncate, Mount, ConfigureMaster, CreateNamespace,
              LabelNamespace, CreateConfigMap, DeleteNamespace, CheckEnvironment,
              PatchEnvironment, Kill
  <2>3. PICK pc \in {"failure", "success", "dump", "publish", "label", "configmap", "configure",
                     "prepare"} : Goto(a, pc)
    BY <2>2
  <2>4. pc \in (Points \ {"idle"}) \cup {"failure"}
    BY DEF Points
  <2>5. job'[a].pc = IF pc = "failure" THEN "idle" ELSE pc
    BY <2>1, <2>3, <2>4, Lands
  <2>6. Waiting(a)
    BY <2>1, <2>3, <2>4, Busy, Goes DEF TypeOK, Waiting
  <2> QED BY <2>5, <2>6
<1> QED BY <1>1, <1>2, <1>3, <1>4

-----------------------------------------------------------------------------
(* One active version.                                                       *)

Single(S) == \A x, y \in S : x = y

\* What is written into the ConfigMap was read from it, or are the flags.
OneInv ==
  /\ Single(list_active)
  /\ \A a \in Writers :
       job[a].pc \in {"mount", "look", "put"} => Single(job[a].pillar.active)

LEMMA StartKeeps ==
  ASSUME NEW a \in Writers, NEW cmd, NEW arg, Start(a, cmd, arg)
  PROVE  /\ UNCHANGED <<config, mounted, exposed, env, collected, api, seen>>
         /\ \A b \in Writers \ {a} : job'[b] = IF Running(b) THEN job[b] ELSE Idle
         /\ job'[a].pc = "start" /\ job'[a].cmd = cmd /\ job'[a].arg = arg
         /\ imported' = IF cmd = "unimport" THEN imported \ {arg} ELSE imported
         /\ overlapped' <=> (overlapped \/ \E b \in Writers \ {a} : Running(b))
BY DEF Start, Idle

LEMMA CommandStarts ==
  ASSUME NEW a \in Writers, Command(a)
  PROVE  \E cmd \in Commands, arg \in Versions \cup {Nothing, Latest} : Start(a, cmd, arg)
BY DEF Command, import_solution, unimport_solution, activate_command, deactivate_command,
       create_environment, delete_environment, add_solution, delete_solution,
       Commands, ConfigCommands

LEMMA OneStep ==
  ASSUME TypeOK, OneInv, NEW a \in Writers, Step(a) \/ Kill(a)
  PROVE  OneInv'
<1> DEFINE Fine(j) == j.pc \in {"mount", "look", "put"} => Single(j.pillar.active)
<1> SUFFICES Waiting(a) /\ Fine(job'[a]) /\ Single(list_active')
  BY DEF OneInv, Waiting
<1>1. CASE Quietly(a)
  BY <1>1, QuietlyLands, ConfigMapKept, ConfigMapSame DEF OneInv
<1>2. CASE Compiles(a)
  <2>1. Waiting(a) /\ (job'[a].pc = "idle" \/ Tells(job'[a].pillar))
    <3>1. PICK from \in Points \ {"idle"}, to \in {"mount", "look", "check"} : Compile(a, from, to)
      BY <1>2, CompilesFrom
    <3>2. Waiting(a) /\ job[a].pc # "idle" /\ (Goto(a, "failure") \/ Tells(job'[a].pillar))
      BY <3>1, CompileStep
    <3> QED BY <3>2, Lands
  <2>2. Fine(job'[a])
    BY <2>1 DEF OneInv, Tells, Single
  <2> QED BY <1>2, <2>1, <2>2, ConfigMapKept, ConfigMapSame DEF OneInv
<1>3. CASE \E o \in Parts : Apply(a, o)
  <2>1. Waiting(a) /\ job'[a].pc \in {"idle", "apply", "success"}
    BY <1>3, ApplyStep DEF OthersWait, Waiting
  <2> QED BY <1>3, <2>1, ConfigMapKept, ConfigMapSame DEF OneInv
<1>4. CASE LookConfigMap(a)
  <2>1. Waiting(a) /\ job[a].pc = "look"
    BY <1>4, LookConfigMapStep DEF OthersWait, Waiting
  <2>2. Fine(job'[a])
    <3>1. CASE job'[a].pillar = job[a].pillar
      BY <2>1, <3>1 DEF OneInv
    <3>2. CASE AfterPut(a, FALSE)
      BY <2>1, <3>2, AfterPutStep
    <3> QED BY <1>4, <3>1, <3>2, LookConfigMapStep
  <2> QED BY <1>4, <2>1, <2>2, ConfigMapKept, ConfigMapSame DEF OneInv
<1>5. CASE PutConfigMap(a)
  <2>1. Waiting(a) /\ job[a].pc = "put" /\ job[a].pillar \in Pillar
    BY <1>5, PutConfigMapStep DEF OthersWait, Waiting
  <2>2. Fine(job'[a])
    BY <1>5, <2>1, PutConfigMapStep, AfterPutStep
  <2>3. Single(list_active')
    <3>1. CASE /\ api'["configMap"] # None
               /\ api'["configMap"].body = FromPillar(job[a].pillar)
      <4>1. list_active' = job[a].pillar.active
        BY <2>1, <3>1, PublishedBody DEF list_active, Exists, Body
      <4> QED BY <2>1, <4>1 DEF OneInv
    <3>2. CASE api' = api
      BY <3>2, ConfigMapSame DEF OneInv
    <3> QED BY <1>5, <3>1, <3>2, PutConfigMapStep
  <2> QED BY <2>1, <2>2, <2>3
<1>6. CASE LookCrd(a) \/ WriteCrd(a)
  <2>1. Waiting(a) /\ Fine(job'[a])
    BY <1>6, LookCrdStep, WriteCrdStep DEF OthersWait, Waiting
  <2> QED BY <1>6, <2>1, ConfigMapKept, ConfigMapSame DEF OneInv
<1>7. CASE UpdateFlags(a)
  <2>1. Waiting(a) /\ job[a].pc = "flags"
    BY <1>7, UpdateFlagsStep DEF OthersWait, Waiting
  <2>2. Fine(job'[a])
    BY <1>7, <2>1, UpdateFlagsStep, Lands DEF Points
  <2>3. Single(list_active')
    <3>1. CASE /\ api'["configMap"] # None
               /\ api'["configMap"].body.active = Flags(job[a].pillar)
      BY <3>1 DEF list_active, Exists, Body, Flags, Single
    <3>2. CASE api' = api
      BY <3>2, ConfigMapSame DEF OneInv
    <3> QED BY <1>7, <3>1, <3>2, UpdateFlagsStep
  <2> QED BY <2>1, <2>2, <2>3
<1> QED BY <1>1, <1>2, <1>3, <1>4, <1>5, <1>6, <1>7, StepKinds

LEMMA OneNext ==
  ASSUME TypeOK, OneInv, [Next]_vars
  PROVE  OneInv'
<1>1. ASSUME NEW a \in Writers, Command(a) PROVE OneInv'
  <2>1. PICK cmd, arg : Start(a, cmd, arg)
    BY <1>1, CommandStarts
  <2>2. api' = api /\ \A b \in Writers : job'[b] = job[b] \/ job'[b].pc \in {"idle", "start"}
    BY <2>1, StartKeeps, IdleIsJob
  <2> QED BY <2>2, ConfigMapSame DEF OneInv
<1>2. ASSUME NEW a \in Writers, Step(a) \/ Kill(a) PROVE OneInv'
  BY <1>2, OneStep
<1>3. CASE GarbageCollect
  <2>1. api'["configMap"] = api["configMap"]
    BY <1>3, Names, CollectOK DEF GarbageCollect, TypeOK
  <2> QED BY <1>3, <2>1, ConfigMapSame DEF OneInv, GarbageCollect
<1>4. CASE UNCHANGED vars
  BY <1>4, ConfigMapSame DEF OneInv, vars
<1> QED BY <1>1, <1>2, <1>3, <1>4 DEF Next

(***************************************************************************)
(* At most one version of a Solution is active, whatever any number of       *)
(* administrators do at the same time and whatever fails: the flags of all   *)
(* versions are written at once, from one wanted version or from a pillar    *)
(* that had read them.                                                       *)
(***************************************************************************)
THEOREM OneActive == Spec => []OneActiveVersion
<1>1. Init => OneInv
  BY Names DEF Init, ApiInit, OneInv, Idle, list_active, Exists, Single
<1>2. TypeOK /\ OneInv => OneActiveVersion
  <2> SUFFICES ASSUME TypeOK, OneInv PROVE Cardinality(list_active) <= 1
    BY DEF OneActiveVersion
  <2>1. CASE list_active = {}
    BY <2>1, FS_EmptySet
  <2>2. CASE list_active # {}
    <3>1. PICK x \in list_active : list_active = {x}
      BY <2>2 DEF OneInv, Single
    <3> QED BY <3>1, FS_Singleton
  <2> QED BY <2>1, <2>2
<1> QED BY <1>1, <1>2, InitType, NextType, OneNext, PTL DEF Spec

-----------------------------------------------------------------------------
(* One command at a time.                                                    *)

Alone == \A a, b \in Writers : job[a].pc # "idle" /\ job[b].pc # "idle" => a = b

\* The archive of the active version is mounted, and so is, and stays configured,
\* what was imported.
World ==
  /\ list_active \subseteq mounted
  /\ imported \subseteq mounted
  /\ config.state = "missing" => imported = {}
  /\ config.state = "good" => imported \subseteq config.archives

\* The configuration c says what the command j wants.
Effect(j, c) ==
  /\ c.state = "good"
  /\ j.cmd = "import" => j.arg \in c.archives
  /\ j.cmd = "unimport" => j.arg \notin c.archives
  /\ j.cmd \in {"activate", "deactivate"} => c.active = j.arg

ConfigStep(a) ==
  LET j == job[a]
  IN  /\ j.cmd = "unimport" => j.arg \notin imported
      /\ j.pc \in {"truncate", "dump"} =>
           config.state # "missing" /\ imported \subseteq j.cfg.archives /\ Effect(j, j.cfg)
      /\ j.pc \in {"import", "mount", "publish", "look", "put", "master", "deploy", "crd",
                  "crdWrite", "flags"} => Effect(j, config)

\* Nothing has changed what a pillar tells.
PillarStep(a) ==
  LET j == job[a]
      p == j.pillar
  IN  /\ j.pc \in {"mount", "look", "put", "crd", "crdWrite", "flags"} =>
           /\ p.config = config
           /\ p.active \subseteq mounted /\ p.available \subseteq mounted
           /\ ~p.availableErrors => p.available = mounted
      /\ j.pc = "mount" /\ ~p.availableErrors => p.active = list_active
      /\ j.pc \in {"crd", "crdWrite", "flags"} => ~Errors(p)

ImportStep(a) ==
  LET j == job[a]
  IN  /\ j.pc \in {"publish", "look", "put", "master"} =>
           /\ j.cmd = "import" => j.arg \in mounted
           /\ j.cmd = "unimport" => j.arg \notin mounted
      /\ j.pc = "master" => Exists("configMap") /\ (Readable => Listed = mounted)

\* An activation that has not failed has put the CRDs.
DeployStep(a) ==
  LET v == Desired(job[a].pillar)
  IN  job[a].pc = "flags" /\ job[a].ok /\ job[a].cmd = "activate" =>
        /\ v \in job[a].pillar.available
        /\ ~collected => Exists("crd") /\ Body("crd") = v

EnvStep(a) ==
  LET j == job[a]
      v == j.pillar.environment.data
  IN  /\ j.pc = "prepare" /\ j.cmd = "add" => env.data = j.arg
      /\ j.pc \in {"check", "apply"} /\ j.cmd = "add" => v = j.arg
      /\ j.pc = "apply" =>
           /\ \A o \in j.done : Exists(o) /\ Body(o) = v
           /\ "binding" \in j.done => {"account", "role"} \subseteq j.done

SuccessOf(a) ==
  LET j == job[a]
  IN  j.pc = "success" =>
        /\ j.cmd = "import" => j.arg \in mounted \cap exposed \cap Listed
        /\ j.cmd = "unimport" => j.arg \notin mounted \cup exposed \cup Listed
        /\ j.cmd = "activate" =>
             /\ list_active = {IF j.arg = Latest THEN Max(mounted) ELSE j.arg}
             /\ ~collected => Exists("crd") /\ Body("crd") \in list_active
        /\ j.cmd = "deactivate" => list_active = {}
        /\ j.cmd = "add" => \A o \in Parts : Exists(o) /\ Body(o) = j.arg

Sound(a) ==
  /\ ConfigStep(a) /\ PillarStep(a) /\ ImportStep(a) /\ DeployStep(a) /\ EnvStep(a)
  /\ SuccessOf(a)

IInv == ~overlapped => Alone /\ World /\ \A a \in Writers : Sound(a)

LEMMA IdleIsSound ==
  ASSUME NEW a \in Writers, job'[a].pc = "idle", job'[a].cmd = "none"
  PROVE  Sound(a)'
BY DEF Sound, ConfigStep, PillarStep, ImportStep, DeployStep, EnvStep, SuccessOf

LEMMA WorldSame ==
  ASSUME World, api'["configMap"] = api["configMap"], UNCHANGED <<config, mounted, imported>>
  PROVE  World'
BY ConfigMapSame DEF World

\* The command that runs, and what it relies on.
Runs(a) == TypeOK /\ World /\ Sound(a)

LEMMA ReadConfigSound ==
  ASSUME NEW a \in Writers, Runs(a), ReadConfig(a)
  PROVE  World' /\ Sound(a)'
<1>1. UNCHANGED <<mounted, exposed, env, imported, collected, api>>
  BY DEF ReadConfig, Fail, adminVars
<1>2. CASE Goto(a, "failure") /\ config' = config
  <2>1. job'[a].pc = "idle" /\ job'[a].cmd = "none"
    BY <1>2, ReadConfigStep, Stops DEF Runs
  <2> QED BY <1>1, <1>2, <2>1, IdleIsSound, WorldSame DEF Runs
<1>3. CASE /\ config'.state = "good"
           /\ config' = config \/ (config.state = "missing" /\ config'.archives = {})
           /\ job'[a].pc = "truncate" /\ job'[a].cfg \in Config
           /\ job'[a].cmd = job[a].cmd /\ job'[a].arg = job[a].arg
           /\ Changed(job[a], config', job'[a].cfg)
  <2>1. World'
    BY <1>1, <1>3, ConfigMapSame DEF Runs, World
  <2>2. job[a].cmd = "unimport" => job[a].arg \notin imported
    BY DEF Runs, Sound, ConfigStep
  <2>3. job[a].cmd \in ConfigCommands
    BY ReadConfigStep DEF Runs
  <2>4. ConfigStep(a)'
    BY <1>1, <1>3, <2>1, <2>2, <2>3 DEF ConfigStep, Changed, Effect, World, ConfigCommands
  <2> QED BY <1>3, <2>1, <2>4 DEF Sound, PillarStep, ImportStep, DeployStep, EnvStep, SuccessOf
<1> QED BY <1>2, <1>3, ReadConfigStep DEF Runs

LEMMA TruncateSound ==
  ASSUME NEW a \in Writers, Runs(a), Truncate(a)
  PROVE  World' /\ Sound(a)'
<1>1. /\ UNCHANGED <<mounted, exposed, env, imported, collected, api>>
      /\ config'.state = "torn" /\ job[a].pc = "truncate" /\ Goto(a, "dump")
  BY DEF Truncate, adminVars, At, Runs, TypeOK, Config
<1>2. /\ job'[a].pc = "dump" /\ job'[a].cmd = job[a].cmd /\ job'[a].arg = job[a].arg
      /\ job'[a].cfg = job[a].cfg
  BY <1>1, Busy, Goes DEF Runs, TypeOK, Points
<1>3. World'
  BY <1>1, ConfigMapSame DEF Runs, World
<1>4. ConfigStep(a)'
  BY <1>1, <1>2 DEF Runs, Sound, ConfigStep, Effect
<1> QED BY <1>2, <1>3, <1>4 DEF Sound, PillarStep, ImportStep, DeployStep, EnvStep, SuccessOf

LEMMA DumpSound ==
  ASSUME NEW a \in Writers, Runs(a), Dump(a)
  PROVE  World' /\ Sound(a)'
<1>1. /\ UNCHANGED <<mounted, exposed, env, imported, collected, api>>
      /\ config' = job[a].cfg /\ job[a].pc = "dump"
      /\ job'[a].pc \in {"import", "deploy"}
      /\ job'[a].cmd = job[a].cmd /\ job'[a].arg = job[a].arg
  BY DumpStep DEF Dump, adminVars, Runs
<1>2. World'
  BY <1>1, ConfigMapSame DEF Runs, World, Sound, ConfigStep, Effect
<1>3. ConfigStep(a)'
  BY <1>1 DEF Runs, Sound, ConfigStep, Effect
<1> QED BY <1>1, <1>2, <1>3 DEF Sound, PillarStep, ImportStep, DeployStep, EnvStep, SuccessOf

LEMMA CompileSound ==
  ASSUME NEW a \in Writers, Runs(a), Compiles(a)
  PROVE  World' /\ Sound(a)'
<1>1. /\ UNCHANGED <<config, mounted, exposed, env, imported, collected, api>>
  BY DEF Compiles, CompileImport, CompilePublish, CompileDeploy, CompilePrepare, Compile, adminVars
<1>2. World' /\ list_active' = list_active
  BY <1>1, WorldSame, ConfigMapSame DEF Runs
<1>3. PICK from \in Points \ {"idle"}, to \in {"mount", "look", "check"} :
        /\ <<from, to>> \in {<<"import", "mount">>, <<"publish", "look">>, <<"deploy", "look">>,
                           <<"prepare", "check">>}
        /\ Compile(a, from, to)
  BY CompilesFrom DEF Runs
<1>4. CASE Goto(a, "failure")
  <2>1. job'[a].pc = "idle" /\ job'[a].cmd = "none"
    BY <1>3, <1>4, CompileStep, Stops DEF Runs
  <2> QED BY <1>2, <2>1, IdleIsSound
<1>5. CASE /\ job'[a].pc = to /\ job'[a].cmd = job[a].cmd /\ job'[a].arg = job[a].arg
           /\ job'[a].pillar \in Pillar /\ Tells(job'[a].pillar)
  <2>1. job[a].pc = from /\ JobFits(a)
    BY <1>3, CompileStep, Busy DEF Runs
  <2>2. ConfigStep(a)'
    BY <1>1, <1>3, <1>5, <2>1 DEF Runs, Sound, ConfigStep, Effect
  <2>3. PillarStep(a)'
    BY <1>1, <1>2, <1>3, <1>5 DEF Runs, World, PillarStep, Tells
  <2>4. ImportStep(a)'
    BY <1>1, <1>3, <1>5, <2>1 DEF Runs, Sound, ImportStep, JobFits
  <2>5. EnvStep(a)'
    BY <1>1, <1>3, <1>5, <2>1 DEF Runs, Sound, EnvStep, Tells
  <2> QED BY <1>2, <1>5, <2>2, <2>3, <2>4, <2>5 DEF Sound, DeployStep, SuccessOf
<1> QED BY <1>3, <1>4, <1>5, CompileStep DEF Runs

LEMMA MountSound ==
  ASSUME NEW a \in Writers, Runs(a), Mount(a)
  PROVE  World' /\ Sound(a)'
<1> DEFINE p == job[a].pillar
<1>1. /\ UNCHANGED <<config, exposed, env, imported, collected, api>>
      /\ job[a].pc = "mount" /\ p \in Pillar /\ job[a].cmd \in {"import", "unimport"}
  BY Busy DEF Mount, adminVars, At, Runs, JobFits
<1>2. /\ p.config = config /\ Effect(job[a], config)
      /\ ~p.availableErrors => p.available = mounted /\ p.active = list_active
  BY <1>1 DEF Runs, Sound, ConfigStep, PillarStep
<1>3. list_active \subseteq mounted /\ imported \subseteq mounted
      /\ (config.state = "good" => imported \subseteq config.archives)
  BY DEF Runs, World
<1>4. World'
  <2>1. CASE mounted' = mounted
    BY <1>1, <2>1, WorldSame DEF Runs
  <2>2. CASE ConfigGood(p) /\ ~p.availableErrors /\ mounted \ Removable(p) \subseteq mounted'
    <3>1. list_active \subseteq mounted' /\ imported \subseteq mounted'
      BY <1>2, <1>3, <2>2 DEF Removable, Unwanted, ConfigGood
    <3> QED BY <1>1, <3>1, ConfigMapSame DEF World, Runs
  <2> QED BY <2>1, <2>2, MountStep DEF Runs
<1>5. CASE Goto(a, "failure")
  <2>1. job'[a].pc = "idle" /\ job'[a].cmd = "none"
    BY <1>1, <1>5, Stops DEF Runs
  <2> QED BY <1>4, <2>1, IdleIsSound
<1>6. CASE /\ ~p.availableErrors /\ Goto(a, "publish")
           /\ Unwanted(p) \cap p.active = {}
           /\ mounted' = (mounted \cup p.config.archives) \ Removable(p)
  <2>1. job'[a].pc = "publish" /\ job'[a].cmd = job[a].cmd /\ job'[a].arg = job[a].arg
    BY <1>1, <1>6, Busy, Goes DEF Runs, TypeOK, Points
  <2>2. /\ job[a].cmd = "import" => job[a].arg \in mounted'
        /\ job[a].cmd = "unimport" => job[a].arg \notin mounted'
    BY <1>2, <1>6 DEF Removable, Unwanted, Effect
  <2>3. ConfigStep(a)'
    BY <1>1, <1>2, <2>1 DEF Runs, Sound, ConfigStep, Effect
  <2>4. ImportStep(a)'
    BY <2>1, <2>2 DEF ImportStep
  <2> QED BY <1>4, <2>1, <2>3, <2>4 DEF Sound, PillarStep, DeployStep, EnvStep, SuccessOf
<1> QED BY <1>5, <1>6, MountStep DEF Runs

LEMMA ConfigureMasterSound ==
  ASSUME NEW a \in Writers, Runs(a), ConfigureMaster(a)
  PROVE  World' /\ Sound(a)'
<1>1. /\ UNCHANGED <<config, mounted, env, collected, api>>
      /\ job[a].pc = "master" /\ job[a].cmd \in {"import", "unimport"}
  BY Busy DEF ConfigureMaster, adminVars, At, Runs, JobFits
<1>2. /\ Effect(job[a], config) /\ Exists("configMap") /\ (Readable => Listed = mounted)
      /\ job[a].cmd = "import" => job[a].arg \in mounted
      /\ job[a].cmd = "unimport" => job[a].arg \notin mounted /\ job[a].arg \notin imported
  BY <1>1 DEF Runs, Sound, ConfigStep, ImportStep
<1>3. CASE Goto(a, "failure") /\ imported' = imported
  <2>1. job'[a].pc = "idle" /\ job'[a].cmd = "none"
    BY <1>1, <1>3, Stops DEF Runs
  <2> QED BY <1>1, <1>3, <2>1, IdleIsSound, WorldSame DEF Runs
<1>4. CASE /\ Readable /\ exposed' = mounted /\ Goto(a, "success")
           /\ imported' = IF job[a].cmd = "import" THEN imported \cup {job[a].arg} ELSE imported
  <2>1. job'[a].pc = "success" /\ job'[a].cmd = job[a].cmd /\ job'[a].arg = job[a].arg
    BY <1>1, <1>4, Busy, Goes DEF Runs, TypeOK, Points
  <2>2. list_active' = list_active /\ Listed' = Listed
    BY <1>1, ConfigMapSame
  <2>3. World'
    BY <1>1, <1>2, <1>4, <2>2 DEF Runs, World, Effect
  <2>4. ConfigStep(a)'
    BY <1>2, <1>4, <2>1 DEF ConfigStep
  <2>5. SuccessOf(a)'
    BY <1>1, <1>2, <1>4, <2>1, <2>2 DEF SuccessOf
  <2> QED BY <2>1, <2>3, <2>4, <2>5 DEF Sound, PillarStep, ImportStep, DeployStep, EnvStep
<1> QED BY <1>3, <1>4 DEF ConfigureMaster

\* The pillar of a command that puts the ConfigMap, and then deploys or goes on
\* with the import.
LEMMA AfterPutSound ==
  ASSUME NEW a \in Writers, Runs(a), job[a].pc \in {"look", "put"}, NEW ok \in BOOLEAN,
         AfterPut(a, ok), UNCHANGED <<config, mounted, exposed, env, imported, collected>>,
         ok => /\ api'["configMap"] # None
               /\ api'["configMap"].body = FromPillar(job[a].pillar)
  PROVE  Sound(a)'
<1> DEFINE p == job[a].pillar
<1>1. JobFits(a) /\ p \in Pillar
  BY Busy DEF Runs, JobFits
<1>2. /\ p.config = config /\ p.active \subseteq mounted /\ p.available \subseteq mounted
      /\ ~p.availableErrors => p.available = mounted
      /\ Effect(job[a], config) /\ (job[a].cmd = "unimport" => job[a].arg \notin imported)
      /\ job[a].cmd = "import" => job[a].arg \in mounted
      /\ job[a].cmd = "unimport" => job[a].arg \notin mounted
  BY DEF Runs, Sound, ConfigStep, PillarStep, ImportStep
<1>3. JobFits(a)' /\ job[a].cmd \in ConfigCommands
  BY <1>1, AfterPutStep DEF Runs, JobFits
<1>4. CASE job'[a].pc = "idle"
  BY <1>3, <1>4, IdleIsSound DEF JobFits
<1>5. CASE job'[a].pc # "idle"
  <2>1. /\ job'[a].cmd = job[a].cmd /\ job'[a].arg = job[a].arg /\ job'[a].pillar = p
        /\ \/ job'[a].pc = "master" /\ ok /\ job[a].cmd \in {"import", "unimport"}
           \/ job'[a].pc = "crd" /\ ~Errors(p)
    BY <1>3, <1>5, AfterPutStep DEF Runs, ConfigCommands
  <2>2. ConfigStep(a)'
    BY <1>2, <2>1 DEF ConfigStep, Effect
  <2>3. PillarStep(a)'
    BY <1>2, <2>1 DEF PillarStep
  <2>4. ImportStep(a)'
    <3>1. CASE job'[a].pc = "master"
      <4>1. api'["configMap"] # None /\ api'["configMap"].body.listed = p.available
            /\ api'["configMap"].body.errors = p.availableErrors
        BY <1>1, <2>1, <3>1, PublishedBody
      <4>2. Exists("configMap")' /\ (Readable' => Listed' = mounted')
        BY <1>2, <4>1 DEF Exists, Readable, Listed, Body
      <4> QED BY <1>2, <2>1, <3>1, <4>2 DEF ImportStep
    <3>2. CASE job'[a].pc = "crd"
      BY <3>2 DEF ImportStep
    <3> QED BY <2>1, <3>1, <3>2
  <2> QED BY <2>1, <2>2, <2>3, <2>4 DEF Sound, DeployStep, EnvStep, SuccessOf
<1> QED BY <1>4, <1>5

LEMMA LookConfigMapSound ==
  ASSUME NEW a \in Writers, Runs(a), LookConfigMap(a)
  PROVE  World' /\ Sound(a)'
<1>1. /\ UNCHANGED <<config, mounted, exposed, env, imported, collected>>
      /\ job[a].pc = "look" /\ api' = api
  BY LookConfigMapStep DEF LookConfigMap, adminVars, Runs
<1>2. World'
  BY <1>1, WorldSame DEF Runs
<1>3. CASE AfterPut(a, FALSE)
  BY <1>1, <1>2, <1>3, AfterPutSound
<1>4. CASE /\ job'[a].pc = "put" /\ job'[a].cmd = job[a].cmd /\ job'[a].arg = job[a].arg
           /\ job'[a].pillar = job[a].pillar
  <2>1. ConfigStep(a)'
    BY <1>1, <1>4 DEF Runs, Sound, ConfigStep, Effect
  <2>2. PillarStep(a)'
    BY <1>1, <1>4 DEF Runs, Sound, PillarStep
  <2>3. ImportStep(a)'
    BY <1>1, <1>4 DEF Runs, Sound, ImportStep
  <2> QED BY <1>2, <1>4, <2>1, <2>2, <2>3 DEF Sound, DeployStep, EnvStep, SuccessOf
<1> QED BY <1>3, <1>4, LookConfigMapStep DEF Runs

LEMMA PutConfigMapSound ==
  ASSUME NEW a \in Writers, Runs(a), PutConfigMap(a)
  PROVE  World' /\ Sound(a)'
<1>1. /\ UNCHANGED <<config, mounted, exposed, env, imported, collected>>
      /\ job[a].pc = "put" /\ job[a].pillar \in Pillar
  BY PutConfigMapStep DEF PutConfigMap, adminVars, Runs
<1>2. CASE /\ api'["configMap"] # None
           /\ api'["configMap"].body = FromPillar(job[a].pillar)
           /\ AfterPut(a, TRUE)
  <2>1. list_active' = job[a].pillar.active
    BY <1>1, <1>2, PublishedBody DEF list_active, Exists, Body
  <2>2. job[a].pillar.active \subseteq mounted
    BY <1>1 DEF Runs, Sound, PillarStep
  <2>3. World'
    BY <1>1, <2>1, <2>2 DEF Runs, World
  <2> QED BY <1>1, <1>2, <2>3, AfterPutSound
<1>3. CASE api' = api /\ AfterPut(a, FALSE)
  BY <1>1, <1>3, WorldSame, AfterPutSound DEF Runs
<1> QED BY <1>2, <1>3, PutConfigMapStep DEF Runs

LEMMA DesiredVersion ==
  ASSUME NEW a \in Writers, Runs(a), job[a].pc \in {"crd", "crdWrite", "flags"}
  PROVE  LET p == job[a].pillar
         IN  /\ p \in Pillar /\ p.config.active = job[a].arg
             /\ job[a].cmd \in {"activate", "deactivate"}
             /\ p.available \subseteq Versions /\ p.available = mounted
             /\ job[a].cmd = "deactivate" => Desired(p) = Nothing
             /\ job[a].cmd = "activate" =>
                  /\ Desired(p) # Nothing /\ CrdVersion(p) = Desired(p)
                  /\ Desired(p) \in p.available =>
                       Desired(p) = IF job[a].arg = Latest THEN Max(mounted) ELSE job[a].arg
<1> DEFINE p == job[a].pillar
<1>1. JobFits(a) /\ p \in Pillar /\ job[a].cmd \in {"activate", "deactivate"}
  BY Busy DEF Runs, JobFits
<1>2. p.config = config /\ ~Errors(p) /\ (~p.availableErrors => p.available = mounted)
      /\ Effect(job[a], config)
  BY DEF Runs, Sound, ConfigStep, PillarStep
<1>3. p.available = mounted /\ p.available \subseteq Versions /\ p.config.active = job[a].arg
  BY <1>1, <1>2 DEF Errors, Effect, Pillar
<1>4. job[a].cmd = "deactivate" => Desired(p) = Nothing
  BY <1>1, <1>3, LatestIsNoVersion DEF JobFits, Desired
<1>5. ASSUME job[a].cmd = "activate"
      PROVE  /\ Desired(p) # Nothing /\ CrdVersion(p) = Desired(p)
             /\ Desired(p) \in p.available =>
                  Desired(p) = IF job[a].arg = Latest THEN Max(mounted) ELSE job[a].arg
  <2>1. job[a].arg \in Versions \cup {Latest}
    BY <1>1, <1>5 DEF JobFits
  <2>2. p.available # {} => Max(p.available) \in Versions
    BY <1>3, SomeVersions
  <2>3. Desired(p) # Nothing
    BY <1>3, <2>1, <2>2, LatestIsNoVersion DEF Desired
  <2>4. Desired(p) \in p.available =>
          Desired(p) = IF job[a].arg = Latest THEN Max(mounted) ELSE job[a].arg
    BY <1>3, <2>1 DEF Desired
  <2> QED BY <2>3, <2>4 DEF CrdVersion
<1> QED BY <1>1, <1>3, <1>4, <1>5

LEMMA CrdSound ==
  ASSUME NEW a \in Writers, Runs(a), LookCrd(a) \/ WriteCrd(a)
  PROVE  World' /\ Sound(a)'
<1> DEFINE p == job[a].pillar
<1>1. /\ UNCHANGED <<config, mounted, exposed, env, imported, collected>>
      /\ api'["configMap"] = api["configMap"] /\ job[a].pc \in {"crd", "crdWrite"}
      /\ job'[a].cmd = job[a].cmd /\ job'[a].arg = job[a].arg /\ job'[a].pillar = p
      /\ job'[a].pc \in {"crdWrite", "flags"}
  BY Names, LookCrdStep, WriteCrdStep, ConfigMapKept DEF LookCrd, WriteCrd, adminVars, Runs
<1>2. World'
  BY <1>1, WorldSame DEF Runs
<1>3. ConfigStep(a)'
  BY <1>1 DEF Runs, Sound, ConfigStep, Effect
<1>4. PillarStep(a)'
  BY <1>1 DEF Runs, Sound, PillarStep
<1>5. DeployStep(a)'
  <2> SUFFICES ASSUME job'[a].pc = "flags", job'[a].ok, job[a].cmd = "activate"
               PROVE  /\ Desired(p) \in p.available
                      /\ api'["crd"] # None /\ api'["crd"].body = Desired(p)
    BY <1>1 DEF DeployStep, Exists, Body
  <2>1. Desired(p) # Nothing /\ CrdVersion(p) = Desired(p)
    BY <1>1, DesiredVersion
  <2>2. ~LookCrd(a)
    BY <2>1, LookCrdStep DEF Runs
  <2> QED BY <2>1, <2>2, WriteCrdStep DEF Runs
<1> QED BY <1>1, <1>2, <1>3, <1>4, <1>5 DEF Sound, ImportStep, EnvStep, SuccessOf

LEMMA UpdateFlagsSound ==
  ASSUME NEW a \in Writers, Runs(a), UpdateFlags(a)
  PROVE  World' /\ Sound(a)'
<1> DEFINE p == job[a].pillar
           version == IF job[a].arg = Latest THEN Max(mounted) ELSE job[a].arg
<1>1. /\ UNCHANGED <<config, mounted, exposed, env, imported, collected>>
      /\ job[a].pc = "flags" /\ p \in Pillar /\ api'["crd"] = api["crd"]
  BY Names, UpdateFlagsStep DEF UpdateFlags, adminVars, Runs
<1>2. /\ p.available = mounted /\ job[a].cmd \in {"activate", "deactivate"}
      /\ job[a].cmd = "deactivate" => Flags(p) = {}
      /\ job[a].cmd = "activate" /\ Desired(p) \in p.available =>
           Desired(p) = version /\ Flags(p) = {version}
  BY <1>1, DesiredVersion, LatestIsNoVersion DEF Flags
<1>3. \/ api'["configMap"] # None /\ api'["configMap"].body.active = Flags(p)
      \/ api' = api /\ (p.available = {} \/ Goto(a, "failure"))
  BY UpdateFlagsStep DEF Runs
<1>4. \/ list_active' = Flags(p)
      \/ list_active' = list_active /\ (p.available = {} \/ Goto(a, "failure"))
  BY <1>3, ConfigMapSame DEF list_active, Exists, Body
<1>5. World'
  <2>1. list_active' \subseteq mounted
    BY <1>2, <1>4 DEF Flags, Runs, World
  <2> QED BY <1>1, <2>1 DEF Runs, World
<1>6. CASE Goto(a, "failure")
  <2>1. job'[a].pc = "idle" /\ job'[a].cmd = "none"
    BY <1>1, <1>6, Stops DEF Runs
  <2> QED BY <1>5, <2>1, IdleIsSound
<1>7. CASE Goto(a, "success") /\ ~Goto(a, "failure") /\ job[a].ok
  <2>1. job'[a].pc = "success" /\ job'[a].cmd = job[a].cmd /\ job'[a].arg = job[a].arg
    BY <1>1, <1>7, Busy, Goes DEF Runs, TypeOK, Points
  <2>2. ConfigStep(a)'
    BY <1>1, <1>2, <2>1 DEF ConfigStep
  <2>3. CASE job[a].cmd = "activate"
    <3>1. Desired(p) \in p.available /\ (~collected => Exists("crd") /\ Body("crd") = Desired(p))
      BY <1>1, <1>7, <2>3 DEF Runs, Sound, DeployStep
    <3>2. list_active' = {version} /\ Desired(p) = version
      BY <1>2, <1>4, <1>7, <2>3, <3>1
    <3>3. SuccessOf(a)'
      BY <1>1, <2>1, <2>3, <3>1, <3>2 DEF SuccessOf, Exists, Body
    <3> QED BY <1>5, <2>1, <2>2, <3>3 DEF Sound, PillarStep, ImportStep, DeployStep, EnvStep
  <2>4. CASE job[a].cmd = "deactivate"
    <3>1. list_active' = {}
      BY <1>1, <1>2, <1>4, <1>7, <2>4 DEF Runs, World
    <3>2. SuccessOf(a)'
      BY <2>1, <2>4, <3>1 DEF SuccessOf
    <3> QED BY <1>5, <2>1, <2>2, <3>2 DEF Sound, PillarStep, ImportStep, DeployStep, EnvStep
  <2> QED BY <1>2, <2>3, <2>4
<1> QED BY <1>6, <1>7, UpdateFlagsStep DEF Runs

\* The commands about Environments say nothing about the configuration.
LEMMA EnvironmentSound ==
  ASSUME NEW a \in Writers, Runs(a),
         \/ CreateNamespace(a) \/ LabelNamespace(a) \/ CreateConfigMap(a) \/ DeleteNamespace(a)
         \/ CheckEnvironment(a) \/ PatchEnvironment(a)
  PROVE  World' /\ Sound(a)'
<1>1. UNCHANGED <<config, mounted, exposed, imported, collected>>
  BY DEF CreateNamespace, LabelNamespace, CreateConfigMap, DeleteNamespace, CheckEnvironment,
         PatchEnvironment, adminVars
<1>2. World'
  BY <1>1, WorldSame, ConfigMapKept DEF Runs, Quietly
<1>3. job[a].pc # "idle" /\ job[a].cmd \in {"createEnv", "deleteEnv", "add", "delete"}
  BY Busy DEF CreateNamespace, LabelNamespace, CreateConfigMap, DeleteNamespace,
         CheckEnvironment, PatchEnvironment, At, JobFits, Runs
<1>4. /\ \E pc \in {"label", "configmap", "configure", "prepare", "success", "failure"} : Goto(a, pc)
      /\ Goto(a, "prepare") => Goto(a, "failure") \/ (Goto(a, "prepare") /\ env'.data = job[a].arg)
  <2>1. CASE PatchEnvironment(a)
    BY <2>1 DEF PatchEnvironment, Runs, TypeOK, Environment
  <2>2. CASE ~PatchEnvironment(a)
    <3>1. \E pc \in {"label", "configmap", "configure", "success", "failure"} : Goto(a, pc)
      BY <2>2 DEF CreateNamespace, LabelNamespace, CreateConfigMap, DeleteNamespace, CheckEnvironment
    <3>2. PICK pc \in {"label", "configmap", "configure", "success", "failure"} : Goto(a, pc)
      BY <3>1
    <3>3. job'[a].pc = IF pc = "failure" THEN "idle" ELSE pc
      BY <1>3, <3>2, Lands DEF Points, Runs
    <3>4. ~Goto(a, "prepare")
      BY <1>3, <3>3, Lands DEF Points, Runs
    <3> QED BY <3>1, <3>4
  <2> QED BY <2>1, <2>2
<1>5. CASE Goto(a, "failure")
  BY <1>2, <1>3, <1>5, Stops, IdleIsSound DEF Runs
<1>6. CASE ~Goto(a, "failure")
  <2>1. PICK pc \in {"label", "configmap", "configure", "prepare", "success"} : Goto(a, pc)
    BY <1>4, <1>6
  <2>2. job'[a].pc = pc /\ job'[a].cmd = job[a].cmd /\ job'[a].arg = job[a].arg
    BY <1>3, <2>1, Busy, Goes DEF Runs, TypeOK, Points
  <2>3. pc = "success" => job[a].cmd \in {"createEnv", "deleteEnv"}
    <3>1. CASE CreateConfigMap(a) \/ DeleteNamespace(a)
      BY <3>1, Busy DEF CreateConfigMap, DeleteNamespace, At, JobFits, Runs
    <3>2. CASE CreateNamespace(a) \/ LabelNamespace(a)
      BY <3>2, Busy DEF CreateNamespace, LabelNamespace, At, JobFits, Runs
    <3>3. CASE CheckEnvironment(a) \/ PatchEnvironment(a)
      <4>1. Goto(a, "configure") \/ Goto(a, "prepare") \/ Goto(a, "failure")
        BY <3>3 DEF CheckEnvironment, PatchEnvironment
      <4>2. job'[a].pc \in {"configure", "prepare", "idle"}
        BY <1>3, <4>1, Lands DEF Points, Runs
      <4> QED BY <2>2, <4>2
    <3> QED BY <3>1, <3>2, <3>3
  <2>4. EnvStep(a)'
    BY <1>4, <1>6, <2>1, <2>2 DEF EnvStep
  <2> QED BY <1>2, <1>3, <2>2, <2>3, <2>4
          DEF Sound, ConfigStep, PillarStep, ImportStep, DeployStep, SuccessOf
<1> QED BY <1>5, <1>6

LEMMA CheckPillarSound ==
  ASSUME NEW a \in Writers, Runs(a), CheckPillar(a)
  PROVE  World' /\ Sound(a)'
<1> DEFINE version == job[a].pillar.environment.data
<1>1. UNCHANGED <<config, mounted, exposed, imported, collected, api>> /\ job[a].pc = "check"
  BY CheckPillarStep DEF Runs, adminVars
<1>2. World'
  BY <1>1, WorldSame DEF Runs
<1>3. JobFits(a)' /\ JobFits(a) /\ job[a].cmd \in {"add", "delete"}
      /\ (job[a].cmd = "add" => version = job[a].arg /\ job[a].arg \in Versions)
  BY <1>1, CheckPillarStep, Busy DEF Runs, Sound, EnvStep, JobFits
<1>4. CASE job'[a].pc = "idle"
  BY <1>2, <1>3, <1>4, IdleIsSound DEF JobFits
<1>5. CASE /\ job'[a].pc = "success" /\ version \in {None, Nothing}
           /\ job'[a].cmd = job[a].cmd /\ job'[a].arg = job[a].arg
  <2>1. job[a].cmd = "delete"
    BY <1>3, <1>5, LatestIsNoVersion, NoneIsNothing
  <2> QED BY <1>2, <1>5, <2>1
          DEF Sound, ConfigStep, PillarStep, ImportStep, DeployStep, EnvStep, SuccessOf
<1>6. CASE /\ job'[a].pc = "apply" /\ version \in Versions /\ job'[a].done = {}
           /\ job'[a].cmd = job[a].cmd /\ job'[a].arg = job[a].arg
           /\ job'[a].pillar = job[a].pillar
  BY <1>2, <1>3, <1>6
     DEF Sound, ConfigStep, PillarStep, ImportStep, DeployStep, EnvStep, SuccessOf
<1> QED BY <1>4, <1>5, <1>6, CheckPillarStep DEF Runs

LEMMA ApplySound ==
  ASSUME NEW a \in Writers, Runs(a), NEW o \in Parts, Apply(a, o)
  PROVE  World' /\ Sound(a)'
<1> DEFINE j == job[a]
           v == j.pillar.environment.data
<1>0. UNCHANGED <<config, mounted, exposed, env, imported, collected>>
  BY Zenon DEF Apply, adminVars
<1>1. /\ UNCHANGED <<config, mounted, exposed, env, imported, collected>>
      /\ j.pc = "apply" /\ \A x \in Objects : x # o => api'[x] = api[x]
  BY <1>0, ApplyStep DEF Runs
<1>2. World'
  BY <1>1, ApplyStep, ConfigMapKept, WorldSame DEF Runs
<1>3. /\ j.done \subseteq Parts /\ j.cmd \in {"add", "delete"} /\ JobFits(a)'
      /\ j.cmd = "add" => v = j.arg
      /\ \A x \in j.done : Exists(x) /\ Body(x) = v
      /\ "binding" \in j.done => {"account", "role"} \subseteq j.done
  BY <1>1, Busy, ApplyStep DEF Runs, JobFits, Job, Sound, EnvStep
<1>4. CASE job'[a].pc = "idle"
  BY <1>2, <1>3, <1>4, IdleIsSound DEF JobFits
<1>5. CASE /\ job'[a].pc = "apply" /\ job'[a].pillar = j.pillar /\ job'[a].done = j.done
           /\ job'[a].cmd = j.cmd /\ job'[a].arg = j.arg /\ api' = api
  <2>1. \A x \in j.done : api'[x] # None /\ api'[x].body = v
    BY <1>1, <1>3, <1>5, Names DEF Exists, Body
  <2>2. EnvStep(a)'
    BY <1>3, <1>5, <2>1 DEF EnvStep, Exists, Body
  <2> QED BY <1>2, <1>3, <1>5, <2>2
          DEF Sound, ConfigStep, PillarStep, ImportStep, DeployStep, SuccessOf
<1>6. CASE /\ job'[a].pc \in {"apply", "success"}
           /\ api'[o] # None /\ api'[o].body = v /\ Needs(o) \subseteq j.done
           /\ job'[a].cmd = j.cmd /\ job'[a].arg = j.arg
           /\ job'[a].pc = "apply" =>
                job'[a].pillar = j.pillar /\ job'[a].done = j.done \cup {o}
           /\ job'[a].pc = "success" => j.done \cup {o} = Parts
  <2>1. \A x \in j.done \cup {o} : api'[x] # None /\ api'[x].body = v
    BY <1>1, <1>3, <1>6, Names DEF Exists, Body
  <2>2. "binding" \in j.done \cup {o} => {"account", "role"} \subseteq j.done
    BY <1>3, <1>6 DEF Needs
  <2>3. EnvStep(a)'
    BY <1>3, <1>6, <2>1, <2>2 DEF EnvStep, Exists, Body
  <2>4. SuccessOf(a)'
    BY <1>3, <1>6, <2>1 DEF SuccessOf, Exists, Body
  <2> QED BY <1>2, <1>3, <1>6, <2>3, <2>4
          DEF Sound, ConfigStep, PillarStep, ImportStep, DeployStep
<1> QED BY <1>4, <1>5, <1>6, ApplyStep DEF Runs

LEMMA KillSound ==
  ASSUME NEW a \in Writers, Runs(a), Kill(a)
  PROVE  World' /\ Sound(a)'
<1>1. job[a].pc # "idle" /\ Goto(a, "failure")
      /\ UNCHANGED <<config, mounted, exposed, env, imported, collected, api>>
  BY DEF Kill, Running, Forget, adminVars
<1>2. job'[a].pc = "idle" /\ job'[a].cmd = "none"
  BY <1>1, Stops DEF Runs
<1> QED BY <1>1, <1>2, WorldSame, IdleIsSound DEF Runs

LEMMA StepSound ==
  ASSUME NEW a \in Writers, Runs(a), Step(a) \/ Kill(a)
  PROVE  World' /\ Sound(a)'
<1>1. CASE Compiles(a)
  BY <1>1, CompileSound
<1>2. CASE \E o \in Parts : Apply(a, o)
  BY <1>2, ApplySound
<1>3. CASE Quietly(a)
  BY <1>3, ReadConfigSound, TruncateSound, DumpSound, MountSound, ConfigureMasterSound,
     EnvironmentSound, CheckPillarSound, KillSound DEF Quietly
<1>4. CASE LookConfigMap(a) \/ PutConfigMap(a) \/ LookCrd(a) \/ WriteCrd(a) \/ UpdateFlags(a)
  BY <1>4, LookConfigMapSound, PutConfigMapSound, CrdSound, UpdateFlagsSound
<1> QED BY <1>1, <1>2, <1>3, <1>4, StepKinds

LEMMA StepsAlone ==
  ASSUME TypeOK, NEW a \in Writers, Step(a) \/ Kill(a)
  PROVE  job[a].pc # "idle" /\ Waiting(a) /\ overlapped' = overlapped
<1>1. CASE Compiles(a)
  BY <1>1, CompilesFrom, CompileStep DEF Compiles, CompileImport, CompilePublish, CompileDeploy,
     CompilePrepare, Compile, adminVars
<1>2. CASE \E o \in Parts : Apply(a, o)
  BY <1>2, ApplyStep DEF OthersWait, Waiting, Apply, adminVars
<1>3. CASE Quietly(a)
  <2>1. job[a].pc # "idle" /\ overlapped' = overlapped
    BY <1>3 DEF Quietly, ReadConfig, Truncate, Dump, Mount, ConfigureMaster, CreateNamespace,
       LabelNamespace, CreateConfigMap, DeleteNamespace, CheckEnvironment, PatchEnvironment,
       CheckPillar, Kill, At, Running, adminVars
  <2> QED BY <1>3, <2>1, QuietlyLands
<1>4. CASE LookConfigMap(a) \/ PutConfigMap(a) \/ LookCrd(a) \/ WriteCrd(a) \/ UpdateFlags(a)
  <2>1. job[a].pc # "idle" /\ overlapped' = overlapped
    BY <1>4 DEF LookConfigMap, PutConfigMap, LookCrd, WriteCrd, UpdateFlags, At, adminVars
  <2> QED BY <1>4, <2>1, LookConfigMapStep, PutConfigMapStep, LookCrdStep, WriteCrdStep,
          UpdateFlagsStep DEF OthersWait, Waiting
<1> QED BY <1>1, <1>2, <1>3, <1>4, StepKinds

LEMMA StartSound ==
  ASSUME TypeOK, IInv, NEW a \in Writers, Command(a), ~overlapped'
  PROVE  Alone' /\ World' /\ \A b \in Writers : Sound(b)'
<1>1. PICK cmd, arg : Start(a, cmd, arg)
  BY CommandStarts
<1>2. /\ ~overlapped /\ World
      /\ \A b \in Writers \ {a} : job'[b].pc = "idle" /\ job'[b].cmd = "none"
      /\ job'[a].pc = "start" /\ job'[a].cmd = cmd /\ job'[a].arg = arg
      /\ imported' = IF cmd = "unimport" THEN imported \ {arg} ELSE imported
      /\ UNCHANGED <<config, mounted, api>>
  BY <1>1, StartKeeps, IdleIsJob DEF IInv
<1>3. Alone'
  BY <1>2 DEF Alone
<1>4. World'
  BY <1>2, ConfigMapSame DEF World
<1>5. Sound(a)'
  BY <1>2 DEF Sound, ConfigStep, PillarStep, ImportStep, DeployStep, EnvStep, SuccessOf
<1>6. ASSUME NEW b \in Writers \ {a} PROVE Sound(b)'
  BY <1>2, IdleIsSound
<1> QED BY <1>3, <1>4, <1>5, <1>6

LEMMA GarbageSound ==
  ASSUME TypeOK, IInv, GarbageCollect, ~overlapped'
  PROVE  Alone' /\ World' /\ \A b \in Writers : Sound(b)'
<1>1. /\ UNCHANGED <<config, mounted, exposed, env, job, imported, overlapped>> /\ collected'
      /\ \A x \in Objects : x # "crd" => api'[x] = api[x]
  BY CollectOK DEF GarbageCollect, TypeOK
<1>2. Alone /\ World /\ \A b \in Writers : Sound(b)
  BY <1>1 DEF IInv
<1>3. /\ api'["configMap"] = api["configMap"]
      /\ list_active' = list_active /\ Listed' = Listed /\ (Readable' <=> Readable)
      /\ Exists("configMap")' <=> Exists("configMap")
      /\ \A o \in Parts : api'[o] = api[o]
  BY <1>1, Names, ConfigMapSame DEF Exists, Parts, Operator
<1>4. Alone' /\ World'
  BY <1>1, <1>2, <1>3, WorldSame DEF Alone
<1>5. ASSUME NEW b \in Writers PROVE Sound(b)'
  <2>1. job'[b] = job[b] /\ Sound(b) /\ job[b].done \subseteq Parts
    BY <1>1, <1>2 DEF TypeOK, Job
  <2>2. ConfigStep(b)'
    BY <1>1, <2>1 DEF Sound, ConfigStep, Effect
  <2>3. PillarStep(b)'
    BY <1>1, <1>3, <2>1 DEF Sound, PillarStep
  <2>4. ImportStep(b)'
    BY <1>1, <1>3, <2>1 DEF Sound, ImportStep
  <2>5. DeployStep(b)'
    BY <1>1, <2>1 DEF Sound, DeployStep
  <2>6. EnvStep(b)'
    BY <1>1, <1>3, <2>1 DEF Sound, EnvStep, Exists, Body
  <2>7. SuccessOf(b)'
    BY <1>1, <1>3, <2>1 DEF Sound, SuccessOf, Exists, Body
  <2> QED BY <2>2, <2>3, <2>4, <2>5, <2>6, <2>7 DEF Sound
<1> QED BY <1>4, <1>5

LEMMA AloneNext ==
  ASSUME TypeOK, IInv, [Next]_vars
  PROVE  IInv'
<1> SUFFICES ASSUME ~overlapped' PROVE Alone' /\ World' /\ \A b \in Writers : Sound(b)'
  BY DEF IInv
<1>1. ASSUME NEW a \in Writers, Step(a) \/ Kill(a)
      PROVE  Alone' /\ World' /\ \A b \in Writers : Sound(b)'
  <2>1. job[a].pc # "idle" /\ Waiting(a) /\ ~overlapped
    BY <1>1, StepsAlone
  <2>2. Alone /\ World /\ Sound(a)
    BY <2>1 DEF IInv
  <2>3. ASSUME NEW b \in Writers \ {a} PROVE job'[b].pc = "idle" /\ job'[b].cmd = "none"
    <3>1. job[b].pc = "idle"
      BY <2>1, <2>2 DEF Alone
    <3> QED BY <2>1, <3>1 DEF Waiting, TypeOK, JobFits
  <2>4. World' /\ Sound(a)'
    BY <1>1, <2>2, StepSound DEF Runs
  <2> QED BY <2>3, <2>4, IdleIsSound DEF Alone
<1>2. ASSUME NEW a \in Writers, Command(a)
      PROVE  Alone' /\ World' /\ \A b \in Writers : Sound(b)'
  BY <1>2, StartSound
<1>3. CASE GarbageCollect
  BY <1>3, GarbageSound
<1>4. CASE UNCHANGED vars
  <2>1. Alone /\ World /\ \A b \in Writers : Sound(b)
    BY <1>4 DEF IInv, vars
  <2>2. list_active' = list_active /\ Listed' = Listed /\ (Readable' <=> Readable)
    BY <1>4, ConfigMapSame DEF vars
  <2>3. Alone' /\ World'
    BY <1>4, <2>1, WorldSame DEF Alone, vars
  <2>4. ASSUME NEW b \in Writers PROVE Sound(b)'
    BY <1>4, <2>1, <2>2 DEF vars, Sound, ConfigStep, PillarStep, ImportStep, DeployStep,
       EnvStep, SuccessOf, Effect, Exists, Body
  <2> QED BY <2>3, <2>4
<1> QED BY <1>1, <1>2, <1>3, <1>4 DEF Next

LEMMA AloneInit == Init => IInv
<1> SUFFICES ASSUME Init PROVE Alone /\ World /\ \A a \in Writers : Sound(a)
  BY DEF IInv
<1>1. \A a \in Writers : job[a].pc = "idle" /\ job[a].cmd = "none"
  BY IdleIsJob DEF Init
<1>2. World
  BY Names DEF Init, ApiInit, World, list_active, Exists
<1>3. ASSUME NEW a \in Writers PROVE Sound(a)
  BY <1>1 DEF Sound, ConfigStep, PillarStep, ImportStep, DeployStep, EnvStep, SuccessOf
<1> QED BY <1>1, <1>2, <1>3 DEF Alone

LEMMA AloneCorrect == Spec => [](TypeOK /\ IInv)
<1>1. TypeOK /\ IInv /\ [Next]_vars => IInv'
  BY AloneNext
<1> QED BY <1>1, InitType, NextType, AloneInit, PTL DEF Spec

(***************************************************************************)
(* The archive of the active version stays mounted, whatever fails, as long  *)
(* as no two commands have run at the same time: no import unmounts it, and  *)
(* no flag names a version that is not there.                                *)
(***************************************************************************)
THEOREM ActiveStaysMounted == Spec => []ActiveIsMounted
<1>1. IInv => ActiveIsMounted
  BY DEF IInv, World, ActiveIsMounted
<1> QED BY <1>1, AloneCorrect, PTL

(***************************************************************************)
(* What was imported remains mounted, and configured as long as the          *)
(* configuration file can be read, through any number of commands one after  *)
(* the other, each failing or killed where it may.  A command killed between *)
(* truncating the file and writing it loses what the file held.              *)
(***************************************************************************)
THEOREM ImportedRemains == Spec => []ImportedStays
<1>1. IInv => ImportedStays
  BY DEF IInv, World, ImportedStays
<1> QED BY <1>1, AloneCorrect, PTL

(***************************************************************************)
(* A command that exits with success, alone, has done what it is for.        *)
(***************************************************************************)
THEOREM SuccessMeansDone == Spec => []SuccessIsReal
<1>1. IInv => SuccessIsReal
  BY DEF IInv, Sound, SuccessOf, SuccessIsReal, Succeeded, At
<1> QED BY <1>1, AloneCorrect, PTL

\* Only a step of prepare-environment gives the operator another version.
LEMMA OperatorKept ==
  ASSUME TypeOK, [Next]_vars, api'["operator"] # None, api'["operator"] # api["operator"]
  PROVE  \E a \in Writers : Apply(a, "operator")
<1>0. "operator" \in Objects /\ "operator" \in Parts
  BY Names DEF Parts, Operator
<1>1. ASSUME NEW a \in Writers, Command(a) PROVE FALSE
  <2>1. api' = api
    BY <1>1, CommandStarts, StartKeeps
  <2> QED BY <2>1
<1>2. ASSUME NEW a \in Writers, Quietly(a) PROVE FALSE
  <2>1. api' = api \/ api' = [o \in Objects |-> IF o \in Parts THEN None ELSE api[o]]
    BY <1>2 DEF Quietly, ReadConfig, Truncate, Dump, Mount, ConfigureMaster, CreateNamespace,
       LabelNamespace, CreateConfigMap, DeleteNamespace, CheckEnvironment, PatchEnvironment,
       CheckPillar, Kill, Forget
  <2> QED BY <1>0, <2>1
<1>3. ASSUME NEW a \in Writers, Compiles(a) PROVE FALSE
  BY <1>3 DEF Compiles, CompileImport, CompilePublish, CompileDeploy, CompilePrepare, Compile
<1>4. ASSUME NEW a \in Writers,
             LookConfigMap(a) \/ PutConfigMap(a) \/ LookCrd(a) \/ WriteCrd(a) \/ UpdateFlags(a)
      PROVE  FALSE
  BY <1>0, <1>4, LookConfigMapStep, PutConfigMapStep, LookCrdStep, WriteCrdStep, UpdateFlagsStep
<1>5. ASSUME NEW a \in Writers, NEW o \in Parts, Apply(a, o) PROVE o = "operator"
  BY <1>0, <1>5, ApplyStep
<1>6. ASSUME GarbageCollect PROVE FALSE
  BY <1>0, <1>6, CollectOK DEF GarbageCollect, TypeOK
<1>7. ASSUME UNCHANGED vars PROVE FALSE
  BY <1>7 DEF vars
<1>8. ASSUME NEW a \in Writers, Step(a) \/ Kill(a) PROVE Apply(a, "operator")
  BY <1>2, <1>3, <1>4, <1>5, <1>8, StepKinds
<1> QED BY <1>1, <1>6, <1>7, <1>8 DEF Next

LEMMA OperatorStep ==
  ASSUME TypeOK, IInv, [Next]_vars, ~overlapped, NEW v \in Versions,
         api'["operator"] # None, api'["operator"] # api["operator"],
         api'["operator"].body = v
  PROVE  \A o \in Operator \ {"operator"} : Exists(o) /\ Body(o) = v
<1>1. PICK a \in Writers : Apply(a, "operator")
  BY OperatorKept
<1> DEFINE j == job[a]
<1>2. /\ j.pc = "apply" /\ j.pillar.environment.data = v /\ Needs("operator") \subseteq j.done
  BY <1>1, ApplyStep DEF Parts, Operator
<1>3. /\ \A o \in j.done : Exists(o) /\ Body(o) = v
      /\ "binding" \in j.done => {"account", "role"} \subseteq j.done
  BY <1>2 DEF IInv, Sound, EnvStep
<1>4. {"account", "role", "binding", "opConfig"} \subseteq j.done
  BY <1>2, <1>3 DEF Needs
<1> QED BY <1>3, <1>4 DEF Operator

(***************************************************************************)
(* The Deployment of an operator gets a version only behind its account,     *)
(* role, binding and configuration at that version, as long as no two        *)
(* commands have run at the same time.                                       *)
(***************************************************************************)
THEOREM OperatorHasRights == Spec => OperatorBehindRights
<1>1. TypeOK /\ IInv /\ [Next]_vars =>
        [\A v \in Versions :
           /\ ~overlapped
           /\ api'["operator"] # None /\ api'["operator"] # api["operator"]
           /\ api'["operator"].body = v
           => \A o \in Operator \ {"operator"} : Exists(o) /\ Body(o) = v]_vars
  BY OperatorStep
<1> QED BY <1>1, AloneCorrect, PTL DEF Spec, OperatorBehindRights
=============================================================================
