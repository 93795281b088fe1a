------------------------------ MODULE Settings ------------------------------
(***************************************************************************)
(* config.toml of the laptop and the commands that keep it: pin, pass,     *)
(* quiet-arm, link, the first start of a listener (cli.py), the settings   *)
(* form of the desktop application (gui/bridge.py), and load() itself,     *)
(* which encrypts the secrets it finds in plain text (config.py).          *)
(*                                                                         *)
(* Each of them reads the file, and writes all of it back with one setting *)
(* changed; write_text() empties the file first.  No lock is taken, so     *)
(* processes run between the reading, the emptying and the writing.  The   *)
(* task scheduler runs the nightly arming and disarming from that file.    *)
(***************************************************************************)
EXTENDS Sequences, Integers

CONSTANTS
    Console,    \* processes of the command line
    Pin,        \* PINs the owner chooses
    Pass,       \* passes the owner chooses
    MaxRuns,    \* bound on the commands the owner gives
    MaxKills    \* bound on the processes killed in the middle

Gui == "gui"                    \* the desktop application
Scheduler == "scheduler"        \* the process a scheduled task runs in
Process == Console \cup {Gui, Scheduler}

Mask == "__SET__"               \* what the form shows for a PIN
None == "none"

ASSUME NameAssumption == {Gui, Scheduler} \cap Console = {} /\ "" \notin Pass /\ None \notin Pass
ASSUME BoundAssumption == MaxRuns \in Nat /\ MaxKills \in Nat

VARIABLES
    file,       \* config.toml
    tasks,      \* the scheduled tasks, quiet-arm-run start and end
    passFile,   \* quiet_pass.bin
    relay,      \* the account of this laptop: its disarm pass and PIN, is it armed?
    todo,       \* the steps each process has yet to take
    me,         \* the settings it loaded, and the text it is about to write
    runs, kills,
    saved,      \* history: the value last chosen for each setting; masked: the mask was saved
    raced       \* history: a rewrite met another, or was cut short

process == <<todo, me>>
laptop == <<file, tasks, passFile>>
bounds == <<runs, kills>>
history == <<saved, raced>>
vars == <<laptop, relay, process, bounds, history>>

\* plain: a secret is in plain text.  table: [battery_notifier] is there; without it load()
\* finds the defaults, whatever else the text says.
Default == [pin |-> "6969", token |-> "", auto |-> "off", plain |-> FALSE, table |-> FALSE]
Blank == Default

Idle == [cfg |-> Default, doc |-> Blank]

Step(op, set, to) == [op |-> op, set |-> set, to |-> to]
Do(op) == Step(op, "", "")

Init ==
    /\ file \in {[Default EXCEPT !.token = "ours", !.plain = p, !.table = TRUE] : p \in BOOLEAN}
                \cup {[Default EXCEPT !.table = TRUE]}     \* before the first start
    /\ tasks = {}
    /\ passFile = None
    /\ relay \in [pass : {""} \cup Pass, pin : {""}, armed : {FALSE}]
    /\ todo = [p \in Process |-> <<>>]
    /\ me = [p \in Process |-> Idle]
    /\ runs = 0
    /\ kills = 0
    /\ saved = [pin |-> file.pin, token |-> file.token, auto |-> file.auto, masked |-> FALSE]
    /\ raced = FALSE

At(p, op) == todo[p] # <<>> /\ Head(todo[p]).op = op

\* Process p goes on with these steps; a process that has none left is over.
Goes(p, steps, m) ==
    /\ todo' = [todo EXCEPT ![p] = steps]
    /\ me' = [me EXCEPT ![p] = IF steps = <<>> THEN Idle ELSE m]

Rest(p) == Tail(todo[p])
Proceeds(p) == Goes(p, Rest(p), me[p])
Exits(p) == Goes(p, <<>>, Idle)

-----------------------------------------------------------------------------
(* What the processes run.                                                 *)

Load == <<Do("load"), Do("upgrade")>>

PinCommand(new) == Load \o <<Step("text", "pin", new), Step("sync", "pin", new)>>

PassCommand(new) == Load \o <<Step("pass", "pass", new)>>

QuietArm == Load \o <<Do("create start"), Do("toml")>>

\* quiet_arm, which is written first, is read by nobody.
QuietArmDisarm(pass) ==
    QuietArm \o <<Step("keep", "pass", pass), Step("toml", "auto", "on"), Do("create end")>>

QuietRemove == Load \o <<Do("delete"), Step("toml", "auto", "off")>>

Link == Load \o <<Do("link")>>

\* arm, relay, guard, pair, and the desktop application when it is opened
Listen == Load \o <<Do("register")>>

Form(pin) == <<Step("form", "pin", pin)>>

Commands ==
    {PinCommand(n) : n \in Pin} \cup {PassCommand(n) : n \in Pass}
    \cup {QuietArm, QuietRemove, Link, Listen} \cup {QuietArmDisarm(t) : t \in {""} \cup Pass}

\* The settings form is saved with the mask, unless the owner types a PIN.
Forms == {Form(n) : n \in Pin \cup {Mask}} \cup {Listen}

\* After a race nobody starts anything: what follows it is looked at as far as the processes
\* that run at that time go.
Run(p, script) ==
    /\ ~raced
    /\ todo[p] = <<>>
    /\ Goes(p, script, Idle)

OwnerRuns ==
    /\ runs < MaxRuns
    /\ runs' = runs + 1
    /\ \/ \E p \in Console, s \in Commands : Run(p, s)
       \/ \E s \in Forms : Run(Gui, s)
    /\ UNCHANGED <<laptop, relay, kills, history>>

TaskRuns(t) ==
    /\ t \in tasks
    /\ Run(Scheduler, Load \o <<Do(t)>>)
    /\ UNCHANGED <<laptop, relay, bounds, history>>

-----------------------------------------------------------------------------
(* Reading and writing the file.                                           *)

Rewriting(p) == At(p, "empty") \/ At(p, "write")

Meets(p) == file = Blank \/ \E q \in Process \ {p} : Rewriting(q)

\* A mutant: a setting of an unexpected type keeps its default.
LoadedStrictly(doc) == [doc EXCEPT !.auto = "off"]

Loaded(doc) == doc

LoadFile(p) ==
    /\ At(p, "load")
    /\ Goes(p, Rest(p), [me[p] EXCEPT !.cfg = Loaded(file)])
    /\ raced' = (raced \/ file = Blank)
    /\ UNCHANGED <<laptop, relay, bounds, saved>>

\* The text is read, and will be written back as doc.
Reads(p, doc, then) ==
    /\ Goes(p, <<Do("empty"), Step("write", Head(todo[p]).set, Head(todo[p]).to)>> \o then,
            [me[p] EXCEPT !.doc = doc])
    /\ raced' = (raced \/ Meets(p))
    /\ UNCHANGED <<laptop, relay, bounds, saved>>

\* A mutant: the upgrade starts from what load() read.
UpgradedAsLoaded(p) == [me[p].cfg EXCEPT !.plain = FALSE]

Upgraded(p) == [file EXCEPT !.plain = FALSE]

UpgradeSecrets(p) ==
    /\ At(p, "upgrade")
    /\ file.table /\ file.plain
    /\ Reads(p, Upgraded(p), Rest(p))

NothingToUpgrade(p) ==
    /\ At(p, "upgrade")
    /\ ~(file.table /\ file.plain)
    /\ Proceeds(p)
    /\ UNCHANGED <<laptop, relay, bounds, history>>

\* pin and worker_token are replaced in the text, or appended to it: without the table the
\* line stands outside of it.
SaveText(p) ==
    /\ At(p, "text")
    /\ LET s == Head(todo[p]) IN
       Reads(p, IF file.table THEN [file EXCEPT ![s.set] = s.to] ELSE Blank, Rest(p))

\* _save_config_values: the table is made if it is not there.
SaveToml(p) ==
    /\ At(p, "toml")
    /\ LET s == Head(todo[p])
           doc == [file EXCEPT !.table = TRUE] IN
       Reads(p, IF s.set = "" THEN doc ELSE [doc EXCEPT ![s.set] = s.to], Rest(p))

\* The form saves its secrets in plain text, and the mask as PIN; every other setting it shows
\* is left out.  Its sync of the PIN fails: it imports a module that does not exist.
SaveForm(p) ==
    /\ At(p, "form")
    /\ Reads(p, [file EXCEPT !.table = TRUE, !.plain = TRUE, !.pin = Head(todo[p]).to], Rest(p))

EmptyFile(p) ==
    /\ At(p, "empty")
    /\ file' = Blank
    /\ Proceeds(p)
    /\ UNCHANGED <<tasks, passFile, relay, bounds, history>>

\* Whoever saves the mask chooses no PIN.
Noted(s) ==
    CASE s.set = "" -> saved
      [] s.set = "pin" /\ s.to = Mask -> [saved EXCEPT !.masked = TRUE]
      [] s.set = "pin" /\ s.to # Mask -> [saved EXCEPT !.pin = s.to, !.masked = FALSE]
      [] s.set \in {"token", "auto"} -> [saved EXCEPT ![s.set] = s.to]

WriteFile(p) ==
    /\ At(p, "write")
    /\ file' = me[p].doc
    /\ saved' = Noted(Head(todo[p]))
    /\ Proceeds(p)
    /\ UNCHANGED <<tasks, passFile, relay, bounds, raced>>

-----------------------------------------------------------------------------
(* The rest of the commands.  A call of the relay with another token, or   *)
(* with none, changes nothing of this account.                             *)

Ours(p) == me[p].cfg.token = "ours"

\* A call of the relay may fail, or be carried out and not be answered; the second attempt
\* over the other route sets the same value again.
Calls(p, answered) ==
    /\ \/ Ours(p) /\ relay' = answered
       \/ UNCHANGED relay
    /\ Proceeds(p)
    /\ UNCHANGED <<laptop, bounds, history>>

SyncPin(p) == At(p, "sync") /\ Calls(p, [relay EXCEPT !.pin = Head(todo[p]).to])

\* The owner knows the current pass.
SetPass(p) == At(p, "pass") /\ Calls(p, [relay EXCEPT !.pass = Head(todo[p]).to])

CreateTask(p, t) ==
    /\ At(p, IF t = "arm" THEN "create start" ELSE "create end")
    /\ \/ tasks' = tasks \cup {t} /\ Proceeds(p)
       \/ UNCHANGED tasks /\ Exits(p)
    /\ UNCHANGED <<file, passFile, relay, bounds, history>>

KeepPass(p) ==
    /\ At(p, "keep")
    /\ passFile' = Head(todo[p]).to
    /\ Proceeds(p)
    /\ UNCHANGED <<file, tasks, relay, bounds, history>>

\* Nobody looks whether the tasks were deleted; quiet_pass.bin stays.
DeleteTasks(p) ==
    /\ At(p, "delete")
    /\ tasks' \in SUBSET tasks
    /\ Proceeds(p)
    /\ UNCHANGED <<file, passFile, relay, bounds, history>>

\* A new account, or one this laptop is linked to.
NewToken(p) == Goes(p, <<Step("text", "token", "other")>>, me[p])

LinkAccount(p) ==
    /\ At(p, "link")
    /\ NewToken(p) \/ Exits(p)
    /\ UNCHANGED <<laptop, relay, bounds, history>>

Register(p) ==
    /\ At(p, "register")
    /\ \/ me[p].cfg.token = "" /\ NewToken(p)
       \/ Exits(p)
    /\ UNCHANGED <<laptop, relay, bounds, history>>

ArmTask(p) == At(p, "arm") /\ Calls(p, [relay EXCEPT !.armed = TRUE])

Invited(p) == me[p].cfg.auto = "on" /\ passFile # None

EndUninvited(p) ==
    /\ At(p, "disarm")
    /\ ~Invited(p)
    /\ Exits(p)
    /\ UNCHANGED <<laptop, relay, bounds, history>>

\* An account without a pass asks for none.
Disarms(p) ==
    /\ At(p, "disarm")
    /\ Invited(p) /\ Ours(p) /\ relay.pass \in {"", passFile}
    /\ relay' = [relay EXCEPT !.armed = FALSE]
    /\ Exits(p)
    /\ UNCHANGED <<laptop, bounds, history>>

DisarmFails(p) ==
    /\ At(p, "disarm")
    /\ Invited(p)
    /\ Exits(p)
    /\ UNCHANGED <<laptop, relay, bounds, history>>

-----------------------------------------------------------------------------
\* The owner arms or disarms the account with the phone.
PhoneArms ==
    /\ ~raced
    /\ relay' = [relay EXCEPT !.armed = ~relay.armed]
    /\ UNCHANGED <<laptop, process, bounds, history>>

Killed(p) ==
    /\ kills < MaxKills
    /\ todo[p] # <<>>
    /\ kills' = kills + 1
    /\ Exits(p)
    /\ raced' = (raced \/ At(p, "write"))
    /\ UNCHANGED <<laptop, relay, runs, saved>>

Takes(p) ==
    \/ LoadFile(p) \/ UpgradeSecrets(p) \/ NothingToUpgrade(p)
    \/ SaveText(p) \/ SaveToml(p) \/ SaveForm(p) \/ EmptyFile(p) \/ WriteFile(p)
    \/ SyncPin(p) \/ SetPass(p) \/ CreateTask(p, "arm") \/ CreateTask(p, "disarm")
    \/ KeepPass(p) \/ DeleteTasks(p) \/ LinkAccount(p) \/ Register(p)
    \/ ArmTask(p) \/ EndUninvited(p) \/ Disarms(p) \/ DisarmFails(p)

Next ==
    \/ OwnerRuns \/ TaskRuns("arm") \/ TaskRuns("disarm") \/ PhoneArms
    \/ \E p \in Process : Takes(p) \/ Killed(p)

Spec == Init /\ [][Next]_vars

\* Processes go on, the disarming task runs every day, and gets through at last.
FairSpec ==
    /\ Spec
    /\ \A p \in Process : WF_vars(Takes(p))
    /\ SF_vars(TaskRuns("disarm"))
    /\ SF_vars(Disarms(Scheduler))

-----------------------------------------------------------------------------
Setting == {"pin", "token", "auto"}
Values == [pin : Pin \cup {"6969"}, token : {"", "ours", "other"}, auto : {"off", "on"},
           masked : BOOLEAN]

Doc == [pin : Pin \cup {"6969", Mask}, token : {"", "ours", "other"}, auto : {"off", "on"},
        plain : BOOLEAN, table : BOOLEAN]

\* The steps of the commands, and the two of a rewrite with the setting it saves.
AnyStep ==
    [op : {"load", "upgrade", "toml", "empty", "write", "create start", "create end", "delete",
           "link", "register", "arm", "disarm"}, set : {""}, to : {""}]
    \cup [op : {"text", "form", "write"}, set : {"pin"}, to : Pin \cup {Mask}]
    \cup [op : {"text", "write"}, set : {"token"}, to : {"other"}]
    \cup [op : {"toml", "write"}, set : {"auto"}, to : {"off", "on"}]
    \cup [op : {"sync"}, set : {"pin"}, to : Pin]
    \cup [op : {"pass"}, set : {"pass"}, to : Pass]
    \cup [op : {"keep"}, set : {"pass"}, to : {""} \cup Pass]

TypeOK ==
    /\ file \in Doc
    /\ tasks \subseteq {"arm", "disarm"}
    /\ passFile \in {None, ""} \cup Pass
    /\ relay \in [pass : {""} \cup Pass, pin : {""} \cup Pin, armed : BOOLEAN]
    /\ todo \in [Process -> Seq(AnyStep)]
    /\ me \in [Process -> [cfg : Doc, doc : Doc]]
    /\ runs \in 0 .. MaxRuns /\ kills \in 0 .. MaxKills
    /\ saved \in Values
    /\ raced \in BOOLEAN

\* A rewrite is what a process does next, if it is to do one at all: it empties the file, and
\* then writes it.
Ordered(t) ==
    \A i \in 1 .. Len(t) :
        /\ t[i].op = "empty" => i = 1 /\ Len(t) > 1 /\ t[2].op = "write"
        /\ t[i].op = "write" => i = 1 \/ (i = 2 /\ t[1].op = "empty")

RewritesOrdered == \A p \in Process : Ordered(todo[p])

\* The mask takes the place of the PIN that was chosen before it.
Expected == IF saved.masked THEN [saved EXCEPT !.pin = Mask] ELSE saved

\* Between two rewrites the file says what was last chosen for each of these settings, by
\* whichever command: neither a form opened long ago nor the encryption of secrets takes one
\* back or loses one.  The exceptions: a form that is saved with the mask loses the PIN, and
\* nothing is said once rewrites overlapped or one was cut short.
SettingsKept ==
    ~raced /\ (\A p \in Process : ~At(p, "write")) => \A s \in Setting : file[s] = Expected[s]

\* "saving the mask keeps them intact" (gui/bridge.py:134): a form that shows the mask in place
\* of the PIN, and is saved with it, leaves the PIN that was chosen.
MaskKeepsPin ==
    ~raced /\ (\A p \in Process : ~At(p, "write")) => file.pin = saved.pin

\* Unless rewrites overlapped or one was cut short, there is one at most, ...
OneRewrite == ~raced => \A p, q \in Process : Rewriting(p) /\ Rewriting(q) => p = q

\* ... what it will write is what was saved, with the one setting it saves, ...
Saving(p) == IF At(p, "write") THEN Head(todo[p]) ELSE todo[p][2]

Drafted ==
    ~raced => \A p \in Process : Rewriting(p) =>
        /\ me[p].doc.table
        /\ \A s \in Setting :
             me[p].doc[s] = IF s = Saving(p).set THEN Saving(p).to ELSE Expected[s]

\* ... and between two of them the table is there, which load() looks for.
TableThere == ~raced /\ (\A p \in Process : ~At(p, "write")) => file.table

\* What holds in every state.
SettingsInv ==
    TypeOK /\ RewritesOrdered /\ OneRewrite /\ Drafted /\ TableThere /\ SettingsKept

\* An account that auto-disarms with its present pass ("disarms at ...", cli.py) does not stay
\* armed, whatever the laptop is doing and however often a call fails.
AutoDisarms ==
    /\ ~raced
    /\ saved.auto = "on" /\ saved.token = "ours"
    /\ "disarm" \in tasks /\ passFile # None /\ relay.pass \in {"", passFile}

QuietEnds == relay.armed /\ AutoDisarms ~> ~relay.armed \/ ~AutoDisarms
=============================================================================
