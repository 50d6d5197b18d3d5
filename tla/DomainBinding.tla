---------------------------- MODULE DomainBinding ----------------------------
(***************************************************************************)
(* Binding a domain to an inbound behind nginx:                            *)
(*   web/service/domain_binding.go   BindDomain, UnbindDomain              *)
(*   web/controller/domain.go        the flag after a success              *)
(*                                                                         *)
(* Each BindDomain creates one inbound, which bears the name of the call.  *)
(* The conf.d file of a domain is the inbound it proxies to.  What goes    *)
(* wrong with files of other people, with the network or with acme.sh is   *)
(* that a step may fail, or be given up as late.  The statements of a      *)
(* rollback succeed.                                                       *)
(***************************************************************************)
EXTENDS Naturals, FiniteSets

CONSTANTS
    Domain,
    Bind,       \* calls of BindDomain
    Unbind      \* calls of UnbindDomain

None == "none"
Torn == "torn"

VARIABLES
    nginx, acme,    \* what is installed, and whether nginx runs
    confd,          \* whether /etc/nginx has a directory for it
    conf,           \* /etc/nginx/conf.d/nx-<domain>.conf
    stray,          \* the files written to the working directory instead
    live,           \* the conf.d nginx has loaded
    inbounds,       \* the inbounds table
    applied, flag,  \* xray's inbounds, isNeedXrayRestart
    missed,         \* history: the inbounds that a restart which failed has left out of xray,
                    \* since the flag was last raised
    inflight,       \* the calls whose domain is in inflight
    nodeAddress,
    bpc, dom,       \* a call: where it is, its domain
    env,            \* what DetectEnvironment told it
    crossed,        \* history: calls that another one overlapped or followed
    left            \* history: what a step that failed has left of the call: "half" a file, or
                    \* an nginx of which it is "unsure" whether it has loaded the file

nginxVars == <<nginx, acme, confd, conf, stray, live>>
xrayVars == <<inbounds, applied, flag, missed>>
callVars == <<inflight, nodeAddress, dom, env, crossed, left>>
bindVars == <<nginxVars, xrayVars, callVars, bpc>>

Call == Bind \cup Unbind
Busy == {"detect", "install", "installAcme", "conflict", "acme", "add", "open", "write",
         "test", "reload", "start", "node", "undoConf", "undoInbound"}
UnbindBusy == {"remove", "utest", "ureload"}
Active == {c \in Call : bpc[c] \in Busy \cup UnbindBusy}

TypeOK ==
    /\ nginx \in {"absent", "stopped", "running"}
    /\ acme \in BOOLEAN /\ confd \in BOOLEAN /\ flag \in BOOLEAN
    /\ conf \in [Domain -> Bind \cup {None, Torn}]
    /\ live \in [Domain -> Bind \cup {None}]
    /\ stray \subseteq Domain
    /\ inbounds \subseteq Bind /\ applied \subseteq Bind /\ missed \subseteq Bind
    /\ inflight \subseteq {b \in Bind : bpc[b] \in Busy}
    /\ nodeAddress \in Domain \cup {None}
    /\ dom \in [Call -> Domain \cup {None}]
    /\ env \in [Bind -> [dir : BOOLEAN, acme : BOOLEAN]]
    /\ bpc \in [Call -> Busy \cup UnbindBusy \cup {"idle", "flag", "ok", "failed", "killed"}]
    /\ crossed \subseteq Bind
    /\ left \in [Bind -> {"nothing", "half", "unsure"}]

\* nginx -t; nginx does not load a conf.d in which a file is half written.
Sound == \A d \in Domain : conf[d] # Torn
Loadable == nginx = "running" /\ Sound

Init ==
    /\ nginx \in {"absent", "stopped", "running"} /\ acme \in BOOLEAN /\ confd \in BOOLEAN
    /\ conf = [d \in Domain |-> None] /\ live = conf
    /\ stray = {} /\ inbounds = {} /\ applied = {} /\ flag = FALSE /\ missed = {}
    /\ inflight = {} /\ nodeAddress = None /\ crossed = {}
    /\ dom = [c \in Call |-> None]
    /\ env = [b \in Bind |-> [dir |-> FALSE, acme |-> FALSE]]
    /\ left = [b \in Bind |-> "nothing"]
    /\ bpc = [c \in Call |-> "idle"]

At(c, from, to) == bpc[c] = from /\ bpc' = [bpc EXCEPT ![c] = to]

\* A call on domain d.  Calls at work cross each other, and a call on a domain
\* ends what earlier ones on it have achieved.
Arrives(c, d) ==
    /\ dom' = [dom EXCEPT ![c] = d]
    /\ crossed' = crossed \cup (Bind \cap Active) \cup {b \in Bind : dom[b] = d} \cup
                      (IF Active = {} THEN {} ELSE {c} \cap Bind)

\* Mutant: a call that fails stays in inflight.
FailsInflight(b) ==
    /\ bpc' = [bpc EXCEPT ![b] = "failed"]
    /\ UNCHANGED <<nginxVars, xrayVars, inflight, nodeAddress, dom, env, crossed, left>>

\* return fail(...), with the deferred inflight.Delete.
Fails(b) ==
    /\ bpc' = [bpc EXCEPT ![b] = "failed"]
    /\ inflight' = inflight \ {b}
    /\ UNCHANGED <<nginxVars, xrayVars, nodeAddress, dom, env, crossed, left>>

-----------------------------------------------------------------------------
(* BindDomain                                                               *)

\* inflight.LoadOrStore
Begin(b, d) ==
    /\ \A x \in inflight : dom[x] # d
    /\ At(b, "idle", "detect")
    /\ Arrives(b, d)
    /\ inflight' = inflight \cup {b}
    /\ UNCHANGED <<nginxVars, xrayVars, nodeAddress, env, left>>

\* What is still to be installed when the environment was e.
AfterNginx(e) == IF e.acme THEN "conflict" ELSE "installAcme"

DetectEnvironment(b) ==
    LET e == [dir |-> confd, acme |-> acme] IN
    /\ At(b, "detect", IF nginx # "absent" THEN AfterNginx(e) ELSE "install")
    /\ env' = [env EXCEPT ![b] = e]
    /\ UNCHANGED <<nginxVars, xrayVars, inflight, nodeAddress, dom, crossed, left>>

\* apt-get starts what it installs, yum does not; both make conf.d.
InstallNginx(b) ==
    /\ At(b, "install", AfterNginx(env[b]))
    /\ nginx' \in IF nginx = "absent" THEN {"stopped", "running"} ELSE {nginx}
    /\ live' = IF nginx = "absent" /\ nginx' = "running" /\ Sound THEN conf ELSE live
    /\ confd' = TRUE
    /\ UNCHANGED <<acme, conf, stray, xrayVars, callVars>>

\* installAcmeSh; only here is the environment detected again.
InstallAcme(b) ==
    /\ At(b, "installAcme", "conflict")
    /\ acme' = TRUE
    /\ env' = [env EXCEPT ![b] = [dir |-> confd, acme |-> TRUE]]
    /\ UNCHANGED <<nginx, confd, conf, stray, live, xrayVars, inflight, nodeAddress, dom, crossed, left>>

\* Without a conf.d directory the path is relative.
Exists(b) == IF env[b].dir THEN conf[dom[b]] # None ELSE dom[b] \in stray

NoConflict(b) ==
    /\ ~Exists(b)
    /\ At(b, "conflict", "acme")
    /\ UNCHANGED <<nginxVars, xrayVars, callVars>>

\* acquireCert: its reloadcmd loads whatever conf.d holds.
AcquireCert(b) ==
    /\ At(b, "acme", "add")
    /\ live' = IF Loadable THEN conf ELSE live
    /\ UNCHANGED <<nginx, acme, confd, conf, stray, xrayVars, callVars>>

AddInbound(b) ==
    /\ At(b, "add", "open")
    /\ inbounds' = inbounds \cup {b}
    /\ UNCHANGED <<nginxVars, applied, flag, missed, callVars>>

\* Not root, nothing may be installed, a conflict, no certificate, a port.
GivesUp(b) ==
    /\ bpc[b] \in {"detect", "install", "installAcme", "conflict", "acme", "add"}
    /\ Fails(b)

\* os.WriteFile opens (and truncates) ...
OpenConf(b) ==
    /\ IF env[b].dir
       THEN /\ At(b, "open", "write")
            /\ conf' = [conf EXCEPT ![dom[b]] = Torn]
            /\ UNCHANGED stray
       ELSE /\ At(b, "open", "test")
            /\ stray' = stray \cup {dom[b]}
            /\ UNCHANGED conf
    /\ UNCHANGED <<nginx, acme, confd, live, xrayVars, callVars>>

\* ... and writes, unless UnbindDomain has removed the file.
WriteConf(b) ==
    /\ At(b, "write", "test")
    /\ conf' = IF conf[dom[b]] = None THEN conf ELSE [conf EXCEPT ![dom[b]] = b]
    /\ UNCHANGED <<nginx, acme, confd, stray, live, xrayVars, callVars>>

Leaves(b, what) == left' = [left EXCEPT ![b] = what]

\* A file that was opened stays: the rollback is of the inbound only.
WriteFails(b) ==
    /\ bpc[b] \in {"open", "write"}
    /\ bpc' = [bpc EXCEPT ![b] = "undoInbound"]
    /\ IF bpc[b] = "write" THEN Leaves(b, "half") ELSE UNCHANGED left
    /\ UNCHANGED <<nginxVars, xrayVars, inflight, nodeAddress, dom, env, crossed>>

TestConf(b) ==
    /\ Sound
    /\ At(b, "test", "reload")
    /\ UNCHANGED <<nginxVars, xrayVars, callVars>>

\* Mutant: nginx -t fails and its inbound is forgotten.
TestFailsKeepsInbound(b) ==
    /\ At(b, "test", "failed")
    /\ conf' = IF env[b].dir THEN [conf EXCEPT ![dom[b]] = None] ELSE conf
    /\ inflight' = inflight \ {b}
    /\ UNCHANGED <<nginx, acme, confd, stray, live, xrayVars, nodeAddress, dom, env, crossed, left>>

TestFails(b) ==
    /\ At(b, "test", "undoConf")
    /\ UNCHANGED <<nginxVars, xrayVars, callVars>>

ReloadNginx(b) ==
    /\ Loadable
    /\ At(b, "reload", "node")
    /\ live' = conf
    /\ UNCHANGED <<nginx, acme, confd, conf, stray, xrayVars, callVars>>

\* systemctl reload fails, or has not come back after 10 s.  An nginx that could have
\* loaded the file has done so or not.
ReloadFails(b) ==
    /\ At(b, "reload", "start")
    /\ live' \in {live, IF Loadable THEN conf ELSE live}
    /\ IF Loadable THEN Leaves(b, "unsure") ELSE UNCHANGED left
    /\ UNCHANGED <<nginx, acme, confd, conf, stray, xrayVars,
                   inflight, nodeAddress, dom, env, crossed>>

\* systemctl start does nothing if nginx runs, whatever it has loaded.
Starts == nginx' = "running" /\ live' = IF nginx = "running" THEN live ELSE conf

StartNginx(b) ==
    /\ nginx = "running" \/ Sound
    /\ At(b, "start", "node")
    /\ Starts
    /\ UNCHANGED <<acme, confd, conf, stray, xrayVars, callVars>>

\* It fails, or has not come back after 15 s, in which nginx may have started.
StartFails(b) ==
    /\ At(b, "start", "undoConf")
    /\ \/ UNCHANGED <<nginx, live, left>>
       \/ nginx # "running" /\ Sound /\ Starts /\ Leaves(b, "unsure")
    /\ UNCHANGED <<acme, confd, conf, stray, xrayVars, inflight, nodeAddress, dom, env, crossed>>

\* os.Remove: whatever is there by now.
UndoConf(b) ==
    /\ At(b, "undoConf", "undoInbound")
    /\ IF env[b].dir
       THEN conf' = [conf EXCEPT ![dom[b]] = None] /\ UNCHANGED stray
       ELSE stray' = stray \ {dom[b]} /\ UNCHANGED conf
    /\ UNCHANGED <<nginx, acme, confd, live, xrayVars, callVars>>

UndoInbound(b) ==
    /\ At(b, "undoInbound", "failed")
    /\ inbounds' = inbounds \ {b}
    /\ inflight' = inflight \ {b}
    /\ UNCHANGED <<nginxVars, applied, flag, missed, nodeAddress, dom, env, crossed, left>>

\* saveSetting(nodeAddress), whose failure is a warning; the call returns.
SetNodeAddress(b) ==
    /\ At(b, "node", "flag")
    /\ nodeAddress' \in {nodeAddress, dom[b]}
    /\ inflight' = inflight \ {b}
    /\ UNCHANGED <<nginxVars, xrayVars, dom, env, crossed, left>>

\* Mutant: the controller returns the result only.
ReturnsResult(b) ==
    /\ At(b, "flag", "ok")
    /\ UNCHANGED <<nginxVars, xrayVars, callVars>>

\* DomainController.bind
SetToNeedRestart(b) ==
    /\ At(b, "flag", "ok")
    /\ flag' = TRUE /\ missed' = {}
    /\ UNCHANGED <<nginxVars, inbounds, applied, callVars>>

-----------------------------------------------------------------------------
(* UnbindDomain                                                             *)

BeginUnbind(u, d) ==
    /\ conf[d] # None
    /\ At(u, "idle", "remove")
    /\ Arrives(u, d)
    /\ UNCHANGED <<nginxVars, xrayVars, inflight, nodeAddress, env, left>>

RemoveConf(u) ==
    /\ At(u, "remove", "utest")
    /\ conf' = [conf EXCEPT ![dom[u]] = None]
    /\ UNCHANGED <<nginx, acme, confd, stray, live, xrayVars, callVars>>

TestRemoved(u) ==
    /\ At(u, "utest", "ureload")
    /\ Sound
    /\ UNCHANGED <<nginxVars, xrayVars, callVars>>

ReloadRemoved(u) ==
    /\ Loadable
    /\ At(u, "ureload", "ok")
    /\ live' = conf
    /\ UNCHANGED <<nginx, acme, confd, conf, stray, xrayVars, callVars>>

UnbindFails(u) ==
    /\ bpc[u] \in UnbindBusy
    /\ bpc' = [bpc EXCEPT ![u] = "failed"]
    /\ UNCHANGED <<nginxVars, xrayVars, callVars>>

-----------------------------------------------------------------------------
(* Beside the calls                                                         *)

\* A restart of xray applies the table; one that cannot read it leaves xray with the
\* inbounds it had.
Applies == applied' = inbounds /\ missed' = {}
Misses(had) == applied' = had /\ missed' = missed \cup (inbounds \ had)

\* The tick, which takes the flag, or another request.
RestartXray ==
    /\ applied # inbounds \/ flag
    /\ Applies
    /\ flag' = FALSE
    /\ UNCHANGED <<nginxVars, inbounds, callVars, bpc>>

\* The tick has taken the flag, a table cannot be read, and the error is only logged.
RestartFails ==
    /\ flag /\ flag' = FALSE
    /\ Misses(applied)
    /\ UNCHANGED <<nginxVars, inbounds, callVars, bpc>>

\* The process ends, and xray with it.
Killed ==
    /\ bpc' = [c \in Call |-> IF c \in Active \/ bpc[c] = "flag" THEN "killed" ELSE bpc[c]]
    /\ inflight' = {}
    /\ flag' = FALSE
    /\ applied' = {} /\ missed' = {}
    /\ UNCHANGED <<nginxVars, inbounds, nodeAddress, dom, env, crossed, left>>

\* A process starts.
Booted ==
    /\ Applies \/ Misses({})
    /\ UNCHANGED <<nginxVars, inbounds, flag, callVars, bpc>>

\* SIGHUP: a new DomainController has an inflight of its own.
NewServer ==
    /\ inflight' = {}
    /\ Applies \/ Misses({})
    /\ UNCHANGED <<nginxVars, inbounds, flag, nodeAddress, dom, env, crossed, left, bpc>>

Step(b) ==
    \/ DetectEnvironment(b) \/ InstallNginx(b) \/ InstallAcme(b) \/ NoConflict(b)
    \/ AcquireCert(b) \/ AddInbound(b) \/ GivesUp(b)
    \/ OpenConf(b) \/ WriteConf(b) \/ WriteFails(b)
    \/ TestConf(b) \/ TestFails(b) \/ ReloadNginx(b) \/ ReloadFails(b)
    \/ StartNginx(b) \/ StartFails(b) \/ UndoConf(b) \/ UndoInbound(b)
    \/ SetNodeAddress(b) \/ SetToNeedRestart(b)

UnbindStep(u) ==
    RemoveConf(u) \/ TestRemoved(u) \/ ReloadRemoved(u) \/ UnbindFails(u)

Next ==
    \/ \E b \in Bind : Step(b) \/ \E d \in Domain : Begin(b, d)
    \/ \E u \in Unbind : UnbindStep(u) \/ \E d \in Domain : BeginUnbind(u, d)
    \/ RestartXray \/ RestartFails

Spec == Init /\ [][Next]_bindVars

-----------------------------------------------------------------------------

\* domain_binding.go:13-14: a call that fails takes back its conf and its inbound; and
\* if no other crossed it, nginx has never loaded that conf, unless a reload or a
\* start was given up as late.
FailureIsUndone(b) ==
    /\ b \notin inbounds /\ conf[dom[b]] # b
    /\ b \notin crossed /\ left[b] # "unsure" => live[dom[b]] # b

\* domain_binding.go:207-208: after a success nginx serves the domain by the new
\* inbound, until another call comes.  (Not when conf.d came only with the nginx
\* that the call installed: the conf is then written elsewhere.)  Of an nginx that
\* did not reload in time nothing is known: domain_binding.go:331 starts what runs.
SuccessIsServed(b) ==
    b \notin crossed /\ env[b].dir =>
        /\ conf[dom[b]] = b /\ b \in inbounds
        /\ left[b] # "unsure" => live[dom[b]] = b

\* domain_binding.go:13-14 promises that nothing is left half done.  A half-written
\* file is that of a call at work, of one that was killed, or of the one call that does
\* not keep the promise: os.WriteFile failed (314-317).
HalfFilesAreKnown ==
    \A d \in Domain : conf[d] = Torn =>
        \E b \in Bind : dom[b] = d /\ (bpc[b] \in {"write", "killed"} \/ left[b] = "half")

\* A binding is all or nothing, whatever step fails or is given up and whatever
\* other calls do in between, but for a write and a reload that fail.
BindingIsWhole ==
    /\ \A b \in Bind :
          /\ bpc[b] = "failed" => FailureIsUndone(b)
          /\ bpc[b] \in {"flag", "ok"} => SuccessIsServed(b)
    /\ HalfFilesAreKnown

\* domain.go:51: the inbound of a success is in xray or a restart will put it
\* there; but for a restart that failed (controller/inbound.go:41-46), until the flag
\* is next raised.
BoundReachesXray ==
    \A b \in inbounds : bpc[b] = "ok" => b \in applied \/ flag \/ b \in missed

=============================================================================
