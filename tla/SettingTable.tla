----------------------------- MODULE SettingTable -----------------------------
(***************************************************************************)
(* The settings as a whole, and who writes them:                           *)
(*   web/service/setting.go        GetAllSetting, UpdateAllSetting         *)
(*   web/entity/entity.go          CheckValid                              *)
(*   web/controller/setting.go     the form of the panel                   *)
(*   web/controller/api/v1.go      PATCH /settings, PUT /xray/template     *)
(*   main.go                       the `setting` command, another process  *)
(*   util/secret/secret.go         the key under which secrets are stored  *)
(*                                                                         *)
(* Everyone reads all settings, changes some, and writes them back key by  *)
(* key.  SettingCache has the cache of one key and the steps of one save;  *)
(* here a save is one step.  Six keys stand for the table, in the order of *)
(* the fields of AllSetting.                                               *)
(***************************************************************************)
EXTENDS Sequences, FiniteSets, Naturals

CONSTANTS
    Form,           \* requests: PATCH, the template, or the form in a browser
    Pem,            \* the pairs on disk: x.crt goes with x.key
    Slug, Bot,      \* secure entries; tokens of the Telegram bot
    Cli             \* whether the command line is used beside the panel

Blank == "blank"
Key == {"webCertFile", "webKeyFile", "tgBotToken", "xrayTemplateConfig",
        "secureEntryEnabled", "secureEntryPath"}
Default == [k \in Key |-> IF k = "secureEntryEnabled" THEN "false" ELSE Blank]
Values(k) ==
    CASE k \in {"webCertFile", "webKeyFile"} -> Pem \cup {Blank}
      [] k = "tgBotToken" -> Bot \cup {Blank}
      [] k = "xrayTemplateConfig" -> {Blank, "edited"}
      [] k = "secureEntryEnabled" -> {"true", "false"}
      [] k = "secureEntryPath" -> Slug \cup {Blank}

Masked == {"tgBotToken"}        \* skipIfEmptyKeys
Sealed == {"tgBotToken"}        \* sensitiveSettingKeys

Process == {"panel", "cli"}
Commands == IF Cli THEN {"cli"} ELSE {}
Writer == Form \cup Commands
Home(w) == IF w \in Form THEN "panel" ELSE "cli"

None == 0           \* no seed
InTheClear == 0     \* a secret without one: older versions, and an empty value

VARIABLES
    table,          \* the rows; Default has no row
    seal,           \* the seed tgBotToken is encrypted with
    seeds,          \* how many seeds were made; the n-th is n
    keyfile, tmp,   \* .secret-key and .secret-key.tmp
    held,           \* the seed a process has memoized (aeadV2)
    loading,        \* readOrCreateSecretKey of a process; its error is memoized too
    copy,           \* the AllSetting of a request
    plan,           \* the saves a writer has still to do
    named,          \* the keys its body or its flags name
    wpc,            \* a writer: where it is
    alone,          \* no one else has written, and nothing failed, since its first save
    overtaken,      \* history: keys that others were asked to set since a form was opened
    meant,          \* history: what was last asked for each key
    lost,           \* history: keys that a form has written back from before the last request
    torn,           \* history: the last whole save was mixed with another, or cut
    blanked,        \* history: the path of the entry was last set to blanks, by a command
    clashed         \* history: two processes made .secret-key at once, or one made it
                    \* again because it could not read it

keyVars == <<seeds, keyfile, tmp, held, loading, clashed>>
tableVars == <<table, seal, meant, lost, torn, blanked>>
writerVars == <<copy, plan, named, wpc, alone, overtaken>>
allVars == <<keyVars, tableVars, writerVars>>

TypeOK ==
    /\ \A k \in Key : table[k] \in Values(k) /\ meant[k] \in Values(k)
    /\ seeds \in Nat
    /\ seal \in 0..seeds /\ keyfile \in 0..seeds /\ tmp \in 0..seeds
    /\ held \in [Process -> 0..seeds]
    /\ loading \in [Process -> {"no", "mint", "rename", "error"}]
    /\ \A w \in Writer : copy[w] = Default \/ \A k \in Key : copy[w][k] \in Values(k)
    /\ \A w \in Writer :
           /\ \A i \in DOMAIN plan[w] : plan[w][i].key \in Key /\ plan[w][i].value \in Values(plan[w][i].key)
           /\ named[w] \subseteq Key
    /\ wpc \in [Writer -> {"idle", "open", "saving", "done", "refused"}]
    /\ alone \in [Writer -> BOOLEAN]
    /\ overtaken \in [Form -> SUBSET Key]
    /\ lost \subseteq Key /\ torn \in BOOLEAN /\ blanked \in BOOLEAN /\ clashed \in BOOLEAN

\* An installation with a token stored in the clear or under the machine id.
Init ==
    /\ table \in {Default, [Default EXCEPT !["tgBotToken"] = CHOOSE b \in Bot : TRUE]}
    /\ meant = table /\ seal = InTheClear
    /\ seeds \in {0, 1} /\ keyfile = seeds /\ tmp = None
    /\ held = [p \in Process |-> None] /\ loading = [p \in Process |-> "no"]
    /\ copy = [w \in Writer |-> Default] /\ plan = [w \in Writer |-> <<>>]
    /\ named = [w \in Writer |-> {}] /\ wpc = [w \in Writer |-> "idle"]
    /\ alone = [w \in Writer |-> TRUE] /\ overtaken = [f \in Form |-> {}]
    /\ lost = {} /\ torn = FALSE /\ blanked = FALSE /\ clashed = FALSE

-----------------------------------------------------------------------------
(* The key of the secrets                                                   *)

\* aeadV2.once, with the first secret that is sealed or is read sealed.  The panel
\* meets one at any time: the secret of its cookies at its start, or, where an older
\* version has stored that one in the clear, a token of its own later on.
NeedsKey(p) ==
    /\ held[p] = None /\ loading[p] = "no"
    /\ p = "panel" \/ \E w \in Commands : plan[w] # <<>> /\ plan[w][1].key \in Sealed

ReadKey(p) ==
    /\ NeedsKey(p) /\ keyfile # None
    /\ held' = [held EXCEPT ![p] = keyfile]
    /\ UNCHANGED <<seeds, keyfile, tmp, loading, clashed, tableVars, writerVars>>

\* A file that is not there, and one that cannot be read or is short, are the same
\* to the code.
MissesKey(p) ==
    /\ NeedsKey(p)
    /\ loading' = [loading EXCEPT ![p] = "mint"]
    /\ clashed' = (clashed \/ keyfile # None
                          \/ \E q \in Process : loading[q] \in {"mint", "rename"})
    /\ UNCHANGED <<seeds, keyfile, tmp, held, tableVars, writerVars>>

LookForKey(p) == ReadKey(p) \/ (keyfile = None /\ MissesKey(p))
ReadFails(p) == keyfile # None /\ MissesKey(p)

MintKey(p) ==
    /\ loading[p] = "mint" /\ loading' = [loading EXCEPT ![p] = "rename"]
    /\ seeds' = seeds + 1 /\ tmp' = seeds'
    /\ held' = [held EXCEPT ![p] = seeds']
    /\ UNCHANGED <<keyfile, clashed, tableVars, writerVars>>

\* The name of the temporary file is the same for all: its content may be
\* another's, or another has renamed it.
RenameKey(p) ==
    /\ loading[p] = "rename" /\ tmp # None
    /\ loading' = [loading EXCEPT ![p] = "no"]
    /\ keyfile' = tmp /\ tmp' = None
    /\ UNCHANGED <<seeds, held, clashed, tableVars, writerVars>>

KeyError(p) ==
    /\ loading[p] \in {"mint", "rename"} /\ loading' = [loading EXCEPT ![p] = "error"]
    /\ held' = [held EXCEPT ![p] = None]
    /\ tmp' = IF loading[p] = "rename" THEN None ELSE tmp
    /\ UNCHANGED <<seeds, keyfile, clashed, tableVars, writerVars>>

RenameFails(p) == loading[p] = "rename" /\ tmp = None /\ KeyError(p)

-----------------------------------------------------------------------------
(* A request                                                                *)

\* GetAllSetting: one SELECT; what is masked does not leave the server.
Open(f) ==
    /\ f \in Form /\ wpc[f] = "idle"
    /\ wpc' = [wpc EXCEPT ![f] = "open"] /\ overtaken' = [overtaken EXCEPT ![f] = {}]
    /\ copy' = [copy EXCEPT ![f] = [k \in Key |-> IF k \in Masked THEN Blank ELSE table[k]]]
    /\ UNCHANGED <<keyVars, tableVars, plan, named, alone>>

\* Mutant: a pair is tried only if both names are given.
TriesWholePairs(s) ==
    /\ Blank \in {s["webCertFile"], s["webKeyFile"]} \/ s["webCertFile"] = s["webKeyFile"]
    /\ s["secureEntryEnabled"] = "true" => s["secureEntryPath"] # Blank

\* The pair loads, and an entry that is switched on has a path.
CheckValid(s) ==
    /\ s["webCertFile"] = s["webKeyFile"]
    /\ s["secureEntryEnabled"] = "true" => s["secureEntryPath"] # Blank

\* Mutant: an empty field of the form is saved like any other.
SavesBlanks(k, v) == FALSE

Skipped(k, v) == k \in Masked /\ v = Blank

SaveOf(s, k) == IF Skipped(k, s[k]) THEN <<>> ELSE <<[key |-> k, value |-> s[k]]>>
Saves(s) ==
    SaveOf(s, "webCertFile") \o SaveOf(s, "webKeyFile") \o SaveOf(s, "tgBotToken")
    \o SaveOf(s, "xrayTemplateConfig") \o SaveOf(s, "secureEntryEnabled")
    \o SaveOf(s, "secureEntryPath")

Begins(w, saves, keys) ==
    /\ wpc' = [wpc EXCEPT ![w] = "saving"]
    /\ plan' = [plan EXCEPT ![w] = saves]
    /\ named' = [named EXCEPT ![w] = keys]
    /\ alone' = [alone EXCEPT ![w] = \A v \in Writer \ {w} : wpc[v] # "saving"]
    /\ UNCHANGED overtaken

\* What a body may hold: some keys that go together.
Bodies ==
    {[k \in {"webCertFile", "webKeyFile"} |-> p] : p \in Pem \cup {Blank}}
    \cup {[k \in {"webCertFile"} |-> p] : p \in Pem}
    \cup {[k \in {"tgBotToken"} |-> b] : b \in Bot \cup {Blank}}
    \cup {[k \in {"xrayTemplateConfig"} |-> "edited"], [k \in {"secureEntryEnabled"} |-> "false"],
          [k \in {"secureEntryPath"} |-> Blank]}
    \cup {[k \in {"secureEntryEnabled", "secureEntryPath"} |->
              IF k = "secureEntryPath" THEN s ELSE "true"] : s \in Slug}

\* The body is bound over the copy.
Submit(f, body) ==
    LET s == [k \in Key |-> IF k \in DOMAIN body THEN body[k] ELSE copy[f][k]] IN
    /\ f \in Form /\ wpc[f] = "open"
    /\ IF CheckValid(s)
       THEN Begins(f, Saves(s), {k \in DOMAIN body : ~Skipped(k, s[k])})
       ELSE wpc' = [wpc EXCEPT ![f] = "refused"] /\ UNCHANGED <<plan, named, alone, overtaken>>
    /\ copy' = [copy EXCEPT ![f] = Default]
    /\ UNCHANGED <<keyVars, tableVars>>

-----------------------------------------------------------------------------
(* The command line                                                         *)

CliBegins(saves) ==
    /\ Begins("cli", saves, {saves[i].key : i \in DOMAIN saves})
    /\ UNCHANGED <<keyVars, tableVars, copy>>

\* applySecureEntry: the path that is given, or that was there, or a random one.
EntryOn(s) ==
    LET path == IF table["secureEntryPath"] # Blank THEN table["secureEntryPath"] ELSE s
    IN  \E p \in {path, s} : CliBegins(<<[key |-> "secureEntryPath", value |-> p],
                                         [key |-> "secureEntryEnabled", value |-> "true"]>>)
EntryOff == CliBegins(<<[key |-> "secureEntryEnabled", value |-> "false"]>>)
\* Only the path: it is not empty before it is trimmed.
EntryPath(s) == CliBegins(<<[key |-> "secureEntryPath", value |-> s]>>)

\* updateTgbotSetting
UpdateBot(b) == CliBegins(<<[key |-> "tgBotToken", value |-> b]>>)

\* `setting -reset`: one DELETE.
ResetSettings ==
    /\ wpc' = [wpc EXCEPT !["cli"] = "done"]
    /\ table' = Default /\ seal' = InTheClear /\ meant' = Default
    /\ lost' = {} /\ torn' = FALSE /\ blanked' = FALSE
    /\ alone' = [w \in Writer |-> alone[w] /\ wpc[w] # "saving"]
    /\ overtaken' = [f \in Form |-> Key]
    /\ UNCHANGED <<keyVars, copy, plan, named>>

-----------------------------------------------------------------------------
(* The saves                                                                *)

\* A writer that has done its last save leaves the settings whole if it was alone.
Ends(w, clean) ==
    /\ wpc' = [wpc EXCEPT ![w] = "done"]
    /\ torn' = IF clean THEN torn /\ w \notin Form ELSE TRUE

Continues(w, clean) ==
    IF Len(plan[w]) = 1 THEN Ends(w, clean) ELSE UNCHANGED <<wpc, torn>>

Seals(w) == plan[w][1].key \in Sealed /\ plan[w][1].value # Blank

Save(w) ==
    /\ wpc[w] = "saving"
    /\ Seals(w) => held[Home(w)] # None /\ loading[Home(w)] = "no"
    /\ LET k == plan[w][1].key
           v == plan[w][1].value IN
       /\ table' = [table EXCEPT ![k] = v]
       /\ seal' = IF k \in Sealed THEN IF v = Blank THEN InTheClear ELSE held[Home(w)] ELSE seal
       /\ blanked' = IF k = "secureEntryPath" THEN w \notin Form /\ v = Blank ELSE blanked
       /\ IF k \in named[w]
          THEN /\ meant' = [meant EXCEPT ![k] = v] /\ lost' = lost \ {k}
               /\ overtaken' = [f \in Form |-> IF f = w THEN overtaken[f] ELSE overtaken[f] \cup {k}]
          ELSE /\ lost' = lost \cup ({k} \cap overtaken[w])
               /\ UNCHANGED <<meant, overtaken>>
    /\ plan' = [plan EXCEPT ![w] = Tail(@)]
    /\ alone' = [x \in Writer |-> alone[x] /\ (x = w \/ wpc[x] # "saving")]
    /\ Continues(w, alone[w])
    /\ UNCHANGED <<keyVars, copy, named>>

\* A form goes on with its other keys, a command exits.
SaveFails(w) ==
    /\ wpc[w] = "saving"
    /\ alone' = [alone EXCEPT ![w] = @ /\ w \notin Form]
    /\ IF w \in Form
       THEN plan' = [plan EXCEPT ![w] = Tail(@)] /\ Continues(w, FALSE)
       ELSE plan' = [plan EXCEPT ![w] = <<>>] /\ Ends(w, alone[w])
    /\ UNCHANGED <<keyVars, table, seal, meant, lost, blanked, copy, named, overtaken>>

\* The error of the key comes back with every secret, as long as the process lives.
SealFails(w) == wpc[w] = "saving" /\ Seals(w) /\ loading[Home(w)] = "error" /\ SaveFails(w)

-----------------------------------------------------------------------------

\* The panel ends, whatever it was doing, and starts anew.
Restarted ==
    /\ held' = [held EXCEPT !["panel"] = None]
    /\ loading' = [loading EXCEPT !["panel"] = "no"]
    /\ torn' = (torn \/ \E f \in Form : wpc[f] = "saving")
    /\ wpc' = [w \in Writer |-> IF w \in Form /\ wpc[w] \in {"open", "saving"} THEN "done" ELSE wpc[w]]
    /\ copy' = [w \in Writer |-> Default]
    /\ plan' = [w \in Writer |-> IF w \in Form THEN <<>> ELSE plan[w]]
    /\ UNCHANGED <<seeds, keyfile, tmp, clashed, table, seal, meant, lost, blanked, named, alone, overtaken>>

KeyStep(p) == LookForKey(p) \/ MintKey(p) \/ RenameKey(p) \/ RenameFails(p)
SaveStep(w) == Save(w) \/ SealFails(w)
Fails ==
    \/ Restarted \/ \E w \in Writer : SaveFails(w)
    \/ \E p \in Process : ReadFails(p) \/ KeyError(p)
Request(f) == Open(f) \/ \E b \in Bodies : Submit(f, b)
RunCommand ==
    /\ Cli /\ wpc["cli"] = "idle"
    /\ \/ \E s \in Slug : EntryOn(s) \/ EntryPath(s)
       \/ EntryPath(Blank) \/ EntryOff \/ ResetSettings \/ \E b \in Bot : UpdateBot(b)

-----------------------------------------------------------------------------

\* docs/API.md:196 ("merge") and setting.go:574-576: a key holds what was last
\* asked for it, however the forms and commands overlap, fail or are cut: only a key
\* that the form sends back can be undone, by a form that was open before the
\* request.  And the next panel can read the secrets, whichever process made their
\* key, unless two made it at once or one could not read it and made another.
LastWordHolds ==
    \A k \in Key :
        /\ table[k] = meant[k] \/ k \in lost \ Masked
        /\ k \in Sealed /\ table[k] # Blank => seal \in {InTheClear, keyfile} \/ clashed

\* entity.go:79-84, 105-109: settings that nobody is writing let the panel load its
\* certificate, unless the last save was mixed with another one or cut short; and an
\* entry that is on has a path, unless a command has set the path to blanks
\* (main.go:444-448 checks it before it is trimmed).
WholeSettingsAreSound ==
    \/ torn \/ \E w \in Writer : wpc[w] = "saving"
    \/ /\ table["webCertFile"] = table["webKeyFile"]
       /\ table["secureEntryEnabled"] = "true" => table["secureEntryPath"] # Blank \/ blanked
=============================================================================
