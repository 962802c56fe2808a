------------------------------- MODULE Startup --------------------------------
(***************************************************************************)
(* Daemons that come, go and crash, and the two names that they are found  *)
(* by: the socket's path and the port of the api.  The path outlives the   *)
(* daemon that bound it; the port is held for a while by the connections   *)
(* that it closed (TIME_WAIT).                                             *)
(***************************************************************************)
CONSTANT Daemon

Free == "free"
ASSUME DaemonAssumption == Daemon \cap {"stale", "wait", Free} = {}

VARIABLES
  usable,  \* the environment names a path that the daemons may write
  root,    \* who runs as root
  file,    \* whose socket the path names; "stale" of one that is gone
  port,    \* who has bound the port; "wait" for one that is gone
  spc,     \* where each daemon's main() is
  api,     \* where its api thread is
  lone     \* history: the last start was of a daemon without company

startupVars == <<usable, root, file, port, spc, api, lone>>

At(d, from, to) == spc[d] = from /\ spc' = [spc EXCEPT ![d] = to]

(* A new process: nobody's, whatever ran before. *)
Launch(d) ==
  /\ spc[d] \in {"down", "failed"}
  /\ spc' = [spc EXCEPT ![d] = "look"]
  /\ lone' = \A e \in Daemon \ {d} : spc[e] \in {"down", "failed"}
  /\ UNCHANGED <<usable, root, file, port, api>>

-----------------------------------------------------------------------------
(* setup_socket().                                                         *)

\* mutant: an old file is not looked for
LookNot(d) ==
  /\ At(d, "look", IF usable THEN "bind" ELSE "failed")
  /\ UNCHANGED <<usable, root, file, port, api, lone>>

(* get_socket_path(), socket() and exists() *)
Look(d) ==
  /\ At(d, "look", IF ~usable THEN "failed" ELSE IF file = Free THEN "bind" ELSE "remove")
  /\ UNCHANGED <<usable, root, file, port, api, lone>>

(* remove() is false if there is no file any more. *)
RemoveFile(d) ==
  /\ At(d, "remove", IF file = Free THEN "failed" ELSE "bind")
  /\ file' = Free
  /\ UNCHANGED <<usable, root, port, api, lone>>

Bind(d) ==
  /\ At(d, "bind", IF file = Free THEN "listen" ELSE "failed")
  /\ file' = IF file = Free THEN d ELSE file
  /\ UNCHANGED <<usable, root, port, api, lone>>

(* listen(); root's path is then opened to everyone with chmod(). *)
Listen(d) ==
  /\ At(d, "listen", IF d \in root THEN "chmod" ELSE "run")
  /\ api' = IF d \in root THEN api ELSE [api EXCEPT ![d] = "setup"]
  /\ UNCHANGED <<usable, root, file, port, lone>>

Chmod(d) ==
  /\ At(d, "chmod", IF file = Free THEN "failed" ELSE "run")
  /\ api' = IF file = Free THEN api ELSE [api EXCEPT ![d] = "setup"]
  /\ UNCHANGED <<usable, root, file, port, lone>>

-----------------------------------------------------------------------------
(* api_server_thread(): without the port the thread ends, the daemon stays.*)
BindPort(d) ==
  /\ spc[d] = "run" /\ api[d] = "setup"
  /\ api' = [api EXCEPT ![d] = IF port = Free THEN "serve" ELSE "ended"]
  /\ port' = IF port = Free THEN d ELSE port
  /\ UNCHANGED <<usable, root, file, spc, lone>>

(* main() returns, or the process is killed, wherever it is: the kernel    *)
(* closes what it had, and nobody removes the path.                        *)
Die(d) ==
  /\ spc[d] \notin {"down", "failed"}
  /\ file' = IF file = d THEN "stale" ELSE file
  /\ \E p \in {Free, "wait"} : port' = IF port = d THEN p ELSE port
  /\ spc' = [spc EXCEPT ![d] = "down"] /\ api' = [api EXCEPT ![d] = "none"]
  /\ UNCHANGED <<usable, root, lone>>

Expire ==
  /\ port = "wait" /\ port' = Free
  /\ UNCHANGED <<usable, root, file, spc, api, lone>>

-----------------------------------------------------------------------------
StartupInit ==
  /\ usable \in BOOLEAN /\ root \in SUBSET Daemon
  /\ file \in {Free, "stale"} /\ port = Free
  /\ spc = [d \in Daemon |-> "down"] /\ api = [d \in Daemon |-> "none"]
  /\ lone = FALSE

SetUp(d) == Look(d) \/ RemoveFile(d) \/ Bind(d) \/ Listen(d) \/ Chmod(d) \/ BindPort(d)

StartupNext == Expire \/ \E d \in Daemon : Launch(d) \/ SetUp(d) \/ Die(d)

StartupSpec == StartupInit /\ [][StartupNext]_startupVars

-----------------------------------------------------------------------------
(* Properties.                                                             *)

(* Every variable has its type, and the two names are held by those that   *)
(* can answer there: the path by a daemon past bind(), the port by an api  *)
(* thread that serves, of a main() in its loop.                            *)
StartupTypeOK ==
  /\ usable \in BOOLEAN /\ root \subseteq Daemon
  /\ file \in Daemon \cup {Free, "stale"} /\ port \in Daemon \cup {Free, "wait"}
  /\ spc \in [Daemon -> {"down", "look", "remove", "bind", "listen", "chmod", "run", "failed"}]
  /\ api \in [Daemon -> {"none", "setup", "serve", "ended"}] /\ lone \in BOOLEAN
  /\ \A d \in Daemon : /\ file = d => spc[d] \in {"listen", "chmod", "run"}
                       /\ port = d <=> api[d] = "serve"
                       /\ api[d] # "none" <=> spc[d] = "run"

(* The start of a daemon without company succeeds, whatever a crash left   *)
(* at the path, and ends with the path being the daemon's own.             *)
LoneStartSucceeds ==
  [][\A d \in Daemon :
       lone /\ usable /\ spc'[d] # spc[d] =>
         spc'[d] # "failed" /\ (spc'[d] = "run" => file' = d)]_startupVars

=============================================================================
