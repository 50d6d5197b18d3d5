----------------------------- MODULE Certificates ----------------------------
(***************************************************************************)
(* The certificate the panel serves its own HTTPS with:                    *)
(*   web/service/cert.go            Save, Delete, writeAtomic              *)
(*   web/network/cert_loader.go     NewCertLoader, reload, watchLoop       *)
(*                                                                         *)
(* The files of one name, the one webCertFile and webKeyFile point at.     *)
(* Every writer writes a pair of its own, so that the content of a file is *)
(* the writer it comes from and tells the modification time as well.       *)
(***************************************************************************)
EXTENDS Naturals

CONSTANTS
    Upload,     \* POST /certs, one call each
    Renewal,    \* acme.sh installing a renewed pair over the files
    Removal,    \* DELETE /certs/:name
    Shipped,    \* the pair that is there at first
    Rewriters   \* whether writers may overlap

Writer == Upload \cup Renewal \cup Removal
Pair == Upload \cup Renewal \cup {Shipped}
File == {"cert", "key"}
Torn == "torn"
Missing == "missing"
Content == Pair \cup {Torn, Missing}

VARIABLES
    disk,       \* the two files
    tmp,        \* <file>.tmp
    wpc,        \* a writer: where it is, and on which file
    fd,         \* the file an upload writes to: its tmp, or the file itself
                \* when another upload has renamed the tmp, or neither
    cached,     \* CertLoader.cert
    mtime,      \* certModTime, keyModTime
    lpc,        \* watchLoop
    statted,    \* cInfo, kInfo of the reload
    read        \* the certificate LoadX509KeyPair has read

certVars == <<disk, tmp, wpc, fd, cached, mtime, lpc, statted, read>>
fileVars == <<disk, tmp, wpc, fd>>
loaderVars == <<cached, mtime, lpc, statted, read>>

Idle == [at |-> "idle", on |-> "cert"]
Over == [at |-> "over", on |-> "key"]

TypeOK ==
    /\ disk \in [File -> Content]
    /\ tmp \in [File -> Content]
    /\ wpc \in [Writer -> [at : {"idle", "open", "fill", "move", "over"}, on : File]]
    /\ fd \in [Writer -> {"none", "tmp", "disk"}]
    /\ cached \in Pair
    /\ mtime \in [File -> Content]
    /\ lpc \in {"wait", "statKey", "compare", "readKey", "store"}
    /\ statted \in [File -> Content]
    /\ read \in Content

\* A pair parses if its key is the one of its certificate.
Parses(c, k) == c = k /\ c \in Pair
Whole == Parses(disk["cert"], disk["key"])

\* A writer with a file of the pair still to write.
Writing == {w \in Writer : wpc[w].at \in {"open", "fill", "move"}}

Init ==
    /\ disk = [f \in File |-> Shipped]
    /\ tmp = [f \in File |-> Missing]
    /\ wpc = [w \in Writer |-> Idle]
    /\ fd = [w \in Writer |-> "none"]
    /\ cached = Shipped /\ mtime = disk
    /\ lpc = "wait" /\ statted = disk /\ read = Shipped

-----------------------------------------------------------------------------
(* Save: writeAtomic of the certificate, then of the key.                   *)

Goes(w, from, to) ==
    /\ wpc[w].at = from
    /\ wpc' = [wpc EXCEPT ![w].at = to]

\* The other file, or the end.
Proceeds(w) ==
    wpc' = [wpc EXCEPT ![w] =
                IF @.on = "cert" THEN [at |-> "open", on |-> "key"] ELSE Over]

\* The pair has passed tls.X509KeyPair.
Begin(w) ==
    /\ Rewriters \/ Writing = {}
    /\ Goes(w, "idle", "open")
    /\ UNCHANGED <<disk, tmp, fd, loaderVars>>

\* os.WriteFile(tmp): the open truncates, ...
Open(w) ==
    /\ w \in Upload
    /\ Goes(w, "open", "fill")
    /\ tmp' = [tmp EXCEPT ![wpc[w].on] = Torn]
    /\ fd' = [fd EXCEPT ![w] = "tmp"]
    /\ UNCHANGED <<disk, loaderVars>>

\* ... the write goes where the open file is by now.
Fill(w) ==
    LET f == wpc[w].on IN
    /\ Goes(w, "fill", "move")
    /\ tmp' = IF fd[w] = "tmp" THEN [tmp EXCEPT ![f] = w] ELSE tmp
    /\ disk' = IF fd[w] = "disk" THEN [disk EXCEPT ![f] = w] ELSE disk
    /\ fd' = [fd EXCEPT ![w] = "none"]
    /\ UNCHANGED loaderVars

\* os.Rename takes along the file another upload has open.
Rename(w) ==
    LET f == wpc[w].on
        Renamed(x) == CASE wpc[x].on # f \/ fd[x] = "none" -> fd[x]
                        [] fd[x] = "tmp" -> "disk"
                        [] fd[x] = "disk" -> "none"
    IN
    /\ wpc[w].at = "move"
    /\ tmp[f] # Missing
    /\ disk' = [disk EXCEPT ![f] = tmp[f]]
    /\ tmp' = [tmp EXCEPT ![f] = Missing]
    /\ fd' = [x \in Writer |-> Renamed(x)]
    /\ Proceeds(w)
    /\ UNCHANGED loaderVars

\* The write fails, or there is no tmp any more: Save returns.
SaveFails(w) ==
    /\ w \in Upload
    /\ \/ wpc[w].at = "fill"
       \/ wpc[w].at = "move" /\ tmp[wpc[w].on] = Missing
    /\ wpc' = [wpc EXCEPT ![w] = Over]
    /\ fd' = [fd EXCEPT ![w] = "none"]
    /\ UNCHANGED <<disk, tmp, loaderVars>>

\* A renewal overwrites the files, Delete removes them; errors are ignored.
Overwrite(w) ==
    /\ w \in Renewal
    /\ wpc[w].at = "open"
    /\ disk' = [disk EXCEPT ![wpc[w].on] = w]
    /\ Proceeds(w)
    /\ UNCHANGED <<tmp, fd, loaderVars>>

Remove(w) ==
    /\ w \in Removal
    /\ wpc[w].at = "open"
    /\ disk' = [disk EXCEPT ![wpc[w].on] = Missing]
    /\ Proceeds(w)
    /\ UNCHANGED <<tmp, fd, loaderVars>>

-----------------------------------------------------------------------------
(* reload, once a minute.  One goroutine runs it.                           *)

StatCert ==
    /\ lpc = "wait"
    /\ disk["cert"] # Missing
    /\ statted' = [statted EXCEPT !["cert"] = disk["cert"]]
    /\ lpc' = "statKey"
    /\ UNCHANGED <<fileVars, cached, mtime, read>>

StatKey ==
    /\ lpc = "statKey"
    /\ IF disk["key"] = Missing
       THEN /\ lpc' = "wait"
            /\ UNCHANGED statted
       ELSE /\ statted' = [statted EXCEPT !["key"] = disk["key"]]
            /\ lpc' = "compare"
    /\ UNCHANGED <<fileVars, cached, mtime, read>>

\* Unchanged since the last time, or read the certificate.
Compare ==
    /\ lpc = "compare"
    /\ IF statted = mtime
       THEN /\ lpc' = "wait"
            /\ UNCHANGED read
       ELSE /\ lpc' = "readKey"
            /\ read' = disk["cert"]
    /\ UNCHANGED <<fileVars, cached, mtime, statted>>

\* LoadX509KeyPair reads the key and wants the pair to parse.
ReadKey ==
    /\ lpc = "readKey"
    /\ lpc' = "store"
    /\ read' = IF Parses(read, disk["key"]) THEN read ELSE Torn
    /\ UNCHANGED <<fileVars, cached, mtime, statted>>

\* Mutant: the times are taken after the pair has been read.
StoreThenStat ==
    /\ lpc = "store"
    /\ lpc' = "wait"
    /\ IF read \in Pair
       THEN cached' = read /\ mtime' = disk
       ELSE UNCHANGED <<cached, mtime>>
    /\ UNCHANGED <<fileVars, statted, read>>

\* A pair that parses is stored, with the times of before it was read.
Store ==
    /\ lpc = "store"
    /\ lpc' = "wait"
    /\ IF read \in Pair
       THEN cached' = read /\ mtime' = statted
       ELSE UNCHANGED <<cached, mtime>>
    /\ UNCHANGED <<fileVars, statted, read>>

-----------------------------------------------------------------------------
(* The process ends: what its requests and its loader were doing is over.   *)
Killed ==
    /\ wpc' = [w \in Writer |->
                   IF w \notin Renewal /\ wpc[w].at # "idle" THEN Over ELSE wpc[w]]
    /\ fd' = [w \in Writer |-> "none"]
    /\ lpc' = "wait"
    /\ UNCHANGED <<disk, tmp, cached, mtime, statted, read>>

\* NewCertLoader of a process or Server that starts: its eager first reload
\* needs a pair.  The requests of a Server that is replaced go on.
Booted ==
    /\ Whole
    /\ cached' = disk["cert"] /\ mtime' = disk
    /\ lpc' = "wait" /\ statted' = disk /\ read' = disk["cert"]
    /\ UNCHANGED <<disk, tmp, wpc, fd>>

Write(w) ==
    \/ Open(w) \/ Fill(w) \/ Rename(w) \/ SaveFails(w)
    \/ Overwrite(w) \/ Remove(w)

Reload == StatCert \/ StatKey \/ Compare \/ ReadKey \/ Store

Next == (\E w \in Writer : Begin(w) \/ Write(w)) \/ Reload
=============================================================================
