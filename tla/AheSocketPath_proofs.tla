------------------------ MODULE AheSocketPath_proofs -------------------------
(***************************************************************************)
(* Any number of brokers, started one after another on one socket path and *)
(* each stopped or killed between any two system calls.                    *)
(***************************************************************************)
EXTENDS AheSocketPath, TLAPS

(* One broker is alive at a time, and nobody else's socket accepts.        *)
OneAlive ==
    /\ \A b, c \in Brokers : Alive(b) /\ Alive(c) => b = c
    /\ \A b \in listening : at[b] = "serving"

(* What a broker has learnt of the path and the directory still holds when *)
(* it acts on it.                                                          *)
PathKnown ==
    \A b \in Brokers :
        /\ at[b] = "parent" => parent # "missing"
        /\ at[b] \in {"lstat", "connect", "relstat", "unlink", "bind",
                      "chmod", "listen", "serving", "closed"}
              => parent = "private"
        /\ at[b] \in {"connect", "relstat", "unlink"}
              => path = seen[b] /\ path # Nothing /\ path # NotOurs
        /\ at[b] = "bind" => path = Nothing
        /\ at[b] \in {"chmod", "listen", "serving", "closed"} => path = b

PathInv == TypeOK /\ OneAlive /\ PathKnown /\ StaleRecovered

(* No broker has been started yet.                                         *)
LEMMA PathInit == Init => PathInv
BY PathAssumption
   DEF Init, PathInv, TypeOK, OneAlive, PathKnown, StaleRecovered, Alive

(* The types hold also when brokers overlap.                               *)
LEMMA PathTypeStep == TypeOK /\ [Next]_vars => TypeOK'
BY PathAssumption
   DEF TypeOK, Next, vars, Go, Start, Mkdir, LstatParent, InitialLstat,
       ProbeConnect, CurrentLstat, UnlinkStale, Bind, Chmod, Listen,
       CloseListener, UnlinkOwn, Kill, ListenFails

(* One system call of one broker.                                          *)
LEMMA PathStep ==
    ASSUME ~Overlap, PathInv, NEW b \in Brokers,
           \/ Start(b) \/ Mkdir(b) \/ LstatParent(b)
           \/ InitialLstat(b) \/ ProbeConnect(b) \/ CurrentLstat(b)
           \/ UnlinkStale(b)
           \/ Bind(b) \/ Chmod(b) \/ Listen(b) \/ ListenFails(b)
           \/ CloseListener(b) \/ UnlinkOwn(b)
           \/ Kill(b)
    PROVE  PathInv'
<1> USE PathAssumption DEF Go
<1>1. TypeOK /\ OneAlive /\ PathKnown /\ StaleRecovered
      BY DEF PathInv
<1>2. TypeOK'
      BY <1>1, PathTypeStep DEF Next
<1>3. \A c \in Brokers : c # b => at'[c] = at[c] /\ seen'[c] = seen[c]
      BY <1>1 DEF TypeOK, Start, Mkdir, LstatParent, InitialLstat,
                  ProbeConnect, CurrentLstat, UnlinkStale, Bind, Chmod,
                  Listen, CloseListener, UnlinkOwn, Kill, ListenFails
<1>4. \A c \in Brokers : c # b => ~Alive(c)
      BY <1>1 DEF OneAlive, Alive, Start, Mkdir, LstatParent, InitialLstat,
                  ProbeConnect, CurrentLstat, UnlinkStale, Bind, Chmod,
                  Listen, CloseListener, UnlinkOwn, Kill, ListenFails
<1>5. OneAlive'
      BY <1>1, <1>3, <1>4
         DEF TypeOK, OneAlive, Alive, Start, Mkdir, LstatParent,
             InitialLstat, ProbeConnect, CurrentLstat, UnlinkStale, Bind,
             Chmod, Listen, CloseListener, UnlinkOwn, Kill, ListenFails
<1>6. PathKnown'
  <2>1. ASSUME NEW c \in Brokers, c # b
        PROVE  at'[c] \in {"new", "failed", "done"}
        BY <2>1, <1>3, <1>4 DEF Alive
  <2>2. /\ at'[b] = "parent" => parent' # "missing"
        /\ at'[b] \in {"lstat", "connect", "relstat", "unlink", "bind",
                       "chmod", "listen", "serving", "closed"}
              => parent' = "private"
        BY <1>1
           DEF TypeOK, PathKnown, Start, Mkdir, LstatParent, InitialLstat,
               ProbeConnect, CurrentLstat, UnlinkStale, Bind, Chmod, Listen,
               CloseListener, UnlinkOwn, Kill, ListenFails
  <2>3. /\ at'[b] \in {"connect", "relstat", "unlink"}
              => path' = seen'[b] /\ path' # Nothing /\ path' # NotOurs
        /\ at'[b] = "bind" => path' = Nothing
        /\ at'[b] \in {"chmod", "listen", "serving", "closed"} => path' = b
        BY <1>1
           DEF TypeOK, PathKnown, Start, Mkdir, LstatParent, InitialLstat,
               ProbeConnect, CurrentLstat, UnlinkStale, Bind, Chmod, Listen,
               CloseListener, UnlinkOwn, Kill, ListenFails
  <2> QED BY <2>1, <2>2, <2>3 DEF PathKnown
<1>7. StaleRecovered'
  <2>1. path = NotOurs => path' = NotOurs
        BY <1>1
           DEF PathKnown, Start, Mkdir, LstatParent, InitialLstat,
               ProbeConnect, CurrentLstat, UnlinkStale, Bind, Chmod, Listen,
               CloseListener, UnlinkOwn, Kill, ListenFails
  <2>2. parent = "unsafe" => parent' = "unsafe"
        BY DEF Start, Mkdir, LstatParent, InitialLstat, ProbeConnect,
               CurrentLstat, UnlinkStale, Bind, Chmod, Listen,
               CloseListener, UnlinkOwn, Kill, ListenFails
  <2>3. at[b] = "connect" => path \notin listening
        BY <1>1, <1>4 DEF TypeOK, OneAlive, Alive
  <2>4. at'[b] = "failed" => path' = NotOurs \/ parent' = "unsafe"
        BY <1>1, <2>3
           DEF TypeOK, PathKnown, Start, Mkdir, LstatParent, InitialLstat,
               ProbeConnect, CurrentLstat, UnlinkStale, Bind, Chmod, Listen,
               CloseListener, UnlinkOwn, Kill, ListenFails
  <2> QED BY <1>1, <1>3, <2>1, <2>2, <2>4 DEF StaleRecovered
<1> QED BY <1>2, <1>5, <1>6, <1>7 DEF PathInv

(* The invariant of brokers that do not overlap.                           *)
LEMMA PathInvariant == ~Overlap /\ Spec => []PathInv
<1>1. ~Overlap /\ PathInv /\ [Next]_vars => PathInv'
  <2> SUFFICES ASSUME ~Overlap, PathInv, [Next]_vars PROVE PathInv'
      OBVIOUS
  <2>1. CASE Next
        BY <2>1, PathStep DEF Next
  <2>2. CASE UNCHANGED vars
        BY <2>2 DEF vars, PathInv, TypeOK, OneAlive, PathKnown,
                    StaleRecovered, Alive
  <2> QED BY <2>1, <2>2
<1>2. ~Overlap => [](~Overlap)
      OBVIOUS
<1> QED BY PathInit, <1>1, <1>2, PTL DEF Spec

(* Whatever brokers do to the path, together or in turn, the model's       *)
(* variables keep their types.                                             *)
THEOREM PathTypes == Spec => []TypeOK
<1>1. Init => TypeOK
      BY PathInit DEF PathInv
<1> QED BY <1>1, PathTypeStep, PTL DEF Spec

(* For any number of brokers started one after another, each stopped or    *)
(* killed between any two system calls: the one that serves is the one the *)
(* path leads to.                                                          *)
THEOREM RestartsReachable == ~Overlap /\ Spec => []ServingReachable
<1>1. PathInv => ServingReachable
      BY DEF PathInv, PathKnown, ServingReachable
<1> QED BY <1>1, PathInvariant, PTL

(* What any of them left behind does not keep the next from starting: none *)
(* refuses but for a path or a directory that is not its user's.           *)
THEOREM RestartsRecover == ~Overlap /\ Spec => []StaleRecovered
<1>1. PathInv => StaleRecovered
      BY DEF PathInv
<1> QED BY <1>1, PathInvariant, PTL

=============================================================================
