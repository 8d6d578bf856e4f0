---------------------------- MODULE AheSocketPath ----------------------------
(***************************************************************************)
(* The socket path of src/ahe_broker.c, shared by every broker process     *)
(* that is started with the same --socket: the removal of a stale socket,  *)
(* bind, listen, and the unlink at the end of main(), and the directory it *)
(* is in.  One action is one system call on the path; brokers interleave   *)
(* between them.  The path names a socket inode, and an inode is named     *)
(* after the broker that bound it.                                         *)
(***************************************************************************)
CONSTANTS
    Brokers,
    Leftover,   \* the socket of a broker that was killed before
    NotOurs,    \* not a socket, or another user's
    Nothing,    \* no such path
    Overlap     \* may a broker be started while another one is alive?

ASSUME PathAssumption ==
    /\ Overlap \in BOOLEAN
    /\ Leftover \notin Brokers /\ NotOurs \notin Brokers
    /\ Nothing \notin Brokers
    /\ Leftover # NotOurs /\ Leftover # Nothing /\ NotOurs # Nothing

VARIABLES
    parent,     \* the directory of the socket
    path,       \* what lstat(socket_path) finds
    listening,  \* the brokers whose socket accepts connections
    at,         \* where each broker is
    seen        \* its initial_status

vars == <<parent, path, listening, at, seen>>

(* The types of the path, the sockets and the brokers' positions.          *)
TypeOK ==
    /\ parent \in {"missing", "private", "unsafe"}
    /\ path \in Brokers \cup {Leftover, NotOurs, Nothing}
    /\ listening \subseteq Brokers
    /\ at \in [Brokers -> {"new", "mkdir", "parent", "lstat", "connect",
                           "relstat", "unlink", "bind", "chmod", "listen",
                           "serving", "closed", "failed", "done"}]
    /\ seen \in [Brokers -> Brokers \cup {Leftover, Nothing}]

(* unsafe: not a directory, another user's, or writable for others.        *)
Init ==
    /\ parent \in {"missing", "private", "unsafe"}
    /\ path \in {Nothing, Leftover, NotOurs}
    /\ parent = "missing" => path = Nothing
    /\ listening = {}
    /\ at = [b \in Brokers |-> "new"]
    /\ seen = [b \in Brokers |-> Nothing]

Go(b, place) == at' = [at EXCEPT ![b] = place]

Alive(b) == at[b] \notin {"new", "failed", "done"}

Start(b) ==
    /\ at[b] = "new"
    /\ Overlap \/ \A c \in Brokers : ~Alive(c)
    /\ Go(b, "mkdir")
    /\ UNCHANGED <<parent, path, listening, seen>>

-----------------------------------------------------------------------------
(* ahe_broker_prepare_parent_directory, under the umask 0077.              *)

(* EEXIST is as good.  A directory that cannot be made is "unsafe".        *)
Mkdir(b) ==
    /\ at[b] = "mkdir"
    /\ parent' = IF parent = "missing" THEN "private" ELSE parent
    /\ Go(b, "parent")
    /\ UNCHANGED <<path, listening, seen>>

LstatParent(b) ==
    /\ at[b] = "parent"
    /\ Go(b, IF parent = "private" THEN "lstat" ELSE "failed")
    /\ UNCHANGED <<parent, path, listening, seen>>

-----------------------------------------------------------------------------
(* ahe_broker_remove_stale_socket.                                         *)

(* Faulty variant: the type and the owner are not looked at.               *)
LstatTrusts(b) ==
    /\ at[b] = "lstat"
    /\ \/ path = Nothing /\ Go(b, "bind") /\ UNCHANGED seen
       \/ /\ path # Nothing
          /\ Go(b, "connect")
          /\ seen' = [seen EXCEPT ![b] = path]
    /\ UNCHANGED <<parent, path, listening>>

InitialLstat(b) ==
    /\ at[b] = "lstat"
    /\ \/ path = Nothing /\ Go(b, "bind") /\ UNCHANGED seen
       \/ path = NotOurs /\ Go(b, "failed") /\ UNCHANGED seen
       \/ /\ path \notin {Nothing, NotOurs}
          /\ Go(b, "connect")
          /\ seen' = [seen EXCEPT ![b] = path]
    /\ UNCHANGED <<parent, path, listening>>

(* EADDRINUSE when somebody listens there, ECONNREFUSED when not.          *)
ProbeConnect(b) ==
    /\ at[b] = "connect"
    /\ Go(b, IF path = Nothing THEN "bind"
             ELSE IF path \in listening THEN "failed" ELSE "relstat")
    /\ UNCHANGED <<parent, path, listening, seen>>

(* Faulty variant: the stale socket is not removed.                        *)
LstatKeeps(b) ==
    /\ at[b] = "relstat"
    /\ Go(b, "bind")
    /\ UNCHANGED <<parent, path, listening, seen>>

(* The socket must still be the one that was found first.                  *)
CurrentLstat(b) ==
    /\ at[b] = "relstat"
    /\ Go(b, IF path = Nothing THEN "bind"
             ELSE IF path = seen[b] THEN "unlink" ELSE "failed")
    /\ UNCHANGED <<parent, path, listening, seen>>

UnlinkStale(b) ==
    /\ at[b] = "unlink"
    /\ Go(b, IF path = Nothing THEN "failed" ELSE "bind")
    /\ path' = Nothing
    /\ UNCHANGED <<parent, listening, seen>>

-----------------------------------------------------------------------------
(* ahe_broker_create_listener from bind() on.                              *)

Bind(b) ==
    /\ at[b] = "bind"
    /\ Go(b, IF path = Nothing THEN "chmod" ELSE "failed")
    /\ path' = IF path = Nothing THEN b ELSE path
    /\ UNCHANGED <<parent, listening, seen>>

(* chmod(socket_path) fails when the path is gone; the failure path closes *)
(* the socket and unlinks whatever is there by then.                       *)
Chmod(b) ==
    /\ at[b] = "chmod"
    /\ Go(b, IF path = Nothing THEN "closed" ELSE "listen")
    /\ UNCHANGED <<parent, path, listening, seen>>

(* chmod() or listen() fails for a reason of its own: the same cleanup.    *)
ListenFails(b) ==
    /\ at[b] \in {"chmod", "listen"}
    /\ Go(b, "closed")
    /\ UNCHANGED <<parent, path, listening, seen>>

(* Faulty variant: the cleanup of the failure path is always done.         *)
ListenUnlinks(b) ==
    /\ at[b] = "listen"
    /\ Go(b, "serving")
    /\ listening' = listening \cup {b}
    /\ path' = Nothing
    /\ UNCHANGED <<parent, seen>>

Listen(b) ==
    /\ at[b] = "listen"
    /\ Go(b, "serving")
    /\ listening' = listening \cup {b}
    /\ UNCHANGED <<parent, path, seen>>

-----------------------------------------------------------------------------
(* The end of main(): the listener is closed, by the quota possibly long   *)
(* before the last client leaves, and then the path is unlinked, whoever's *)
(* socket it names.                                                        *)

CloseListener(b) ==
    /\ at[b] = "serving"
    /\ Go(b, "closed")
    /\ listening' = listening \ {b}
    /\ UNCHANGED <<parent, path, seen>>

UnlinkOwn(b) ==
    /\ at[b] = "closed"
    /\ Go(b, "done")
    /\ path' = Nothing
    /\ UNCHANGED <<parent, listening, seen>>

(* SIGKILL.  An exit because socket(), connect() or bind() failed for want *)
(* of resources does the same to the path: it stays as it is.              *)
Kill(b) ==
    /\ Alive(b)
    /\ Go(b, "done")
    /\ listening' = listening \ {b}
    /\ UNCHANGED <<parent, path, seen>>

Next ==
    \E b \in Brokers :
        \/ Start(b) \/ Mkdir(b) \/ LstatParent(b)
        \/ InitialLstat(b) \/ ProbeConnect(b) \/ CurrentLstat(b)
        \/ UnlinkStale(b)
        \/ Bind(b) \/ Chmod(b) \/ Listen(b) \/ ListenFails(b)
        \/ CloseListener(b) \/ UnlinkOwn(b)
        \/ Kill(b)

Spec == Init /\ [][Next]_vars

-----------------------------------------------------------------------------
(* "safe stale-socket restart" (docs/architecture.md): a broker that       *)
(* serves can be reached, the path names its socket, and so there is never *)
(* a second one that serves.                                               *)
ServingReachable == \A b \in Brokers : at[b] = "serving" => path = b

(* "recover an owned stale socket" (docs/architecture.md): a broker        *)
(* started alone fails only on a path or a directory that is not its       *)
(* user's alone.                                                           *)
StaleRecovered ==
    \A b \in Brokers :
        at[b] = "failed" => path = NotOurs \/ parent = "unsafe"

=============================================================================
