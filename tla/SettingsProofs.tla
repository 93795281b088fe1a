--------------------------- MODULE SettingsProofs ---------------------------
(***************************************************************************)
(* config.toml says what was last saved, for any processes, PINs, passes   *)
(* and number of commands, as long as no two rewrites overlap and none is  *)
(* cut short.  SettingsInv is inductive: RewritesOrdered says of every     *)
(* process when it empties and writes the file, OneRewrite keeps the       *)
(* others out in between, and Drafted says what will be written.           *)
(***************************************************************************)
EXTENDS Settings, SequenceTheorems, TLAPS

-----------------------------------------------------------------------------
(* The steps and the settings they save.                                   *)

\* What the steps that rewrite the file save: one setting, or none.
Saves(s) ==
    \/ s.set = ""
    \/ s.set = "pin" /\ s.to \in Pin \cup {Mask}
    \/ s.set = "token" /\ s.to = "other"
    \/ s.set = "auto" /\ s.to \in {"off", "on"}

LEMMA StepFields ==
    ASSUME NEW op, NEW set, NEW to
    PROVE  Step(op, set, to).op = op /\ Step(op, set, to).set = set /\ Step(op, set, to).to = to
  BY DEF Step

\* The steps of the scripts have the values their handlers use.
LEMMA StepFacts ==
    ASSUME NEW s \in AnyStep
    PROVE  /\ s.op \in {"text", "form", "toml", "upgrade", "empty", "write"} => Saves(s)
           /\ s.op = "text" => s.set # ""
           /\ s.op = "form" => s.set = "pin"
           /\ s.op = "upgrade" => s.set = ""
           /\ s.op = "sync" => s.to \in Pin
           /\ s.op = "pass" => s.to \in Pass
           /\ s.op = "keep" => s.to \in {""} \cup Pass
  BY DEF AnyStep, Saves

\* What is written is a step of its own.
LEMMA WriteSteps ==
    ASSUME NEW s \in AnyStep, s.op \in {"text", "form", "toml", "upgrade"}
    PROVE  Step("write", s.set, s.to) \in AnyStep
  BY DEF AnyStep, Step

\* A text with the setting of a step changed.
With(d, s) == [d EXCEPT ![s.set] = s.to]

\* One setting of a text is changed (_save_worker_token, _save_config_values).
LEMMA Changed ==
    ASSUME NEW d \in Doc, NEW s, Saves(s), s.set # ""
    PROVE  /\ With(d, s) \in Doc /\ With(d, s).table = d.table
           /\ \A x \in Setting : With(d, s)[x] = IF x = s.set THEN s.to ELSE d[x]
<1>1. CASE s.set = "pin"
  BY <1>1 DEF With, Saves, Doc, Setting
<1>2. CASE s.set = "token"
  BY <1>2 DEF With, Saves, Doc, Setting
<1>3. CASE s.set = "auto"
  BY <1>3 DEF With, Saves, Doc, Setting
<1> QED
  BY <1>1, <1>2, <1>3 DEF Saves

LEMMA Same ==
    ASSUME saved' = saved
    PROVE  Expected' = Expected
BY DEF Expected

\* What the file will be expected to say of that setting, and of the others.
LEMMA SavedChanged ==
    ASSUME saved \in Values, NEW s, Saves(s), saved' = Noted(s)
    PROVE  /\ saved' \in Values
           /\ \A x \in Setting : Expected'[x] = IF x = s.set THEN s.to ELSE Expected[x]
<1>1. CASE s.set = ""
  <2>1. saved' = saved /\ \A x \in Setting : x # s.set
    BY <1>1 DEF Noted, Setting
  <2> QED
    BY <2>1, Same
<1>2. CASE s.set = "pin" /\ s.to = Mask
  BY <1>2 DEF Noted, Expected, Values, Setting
<1>3. CASE s.set = "pin" /\ s.to \in Pin /\ s.to # Mask
  BY <1>3 DEF Noted, Expected, Values, Setting
<1>4. CASE s.set = "token"
  BY <1>4 DEF Noted, Expected, Saves, Values, Setting
<1>5. CASE s.set = "auto"
  BY <1>5 DEF Noted, Expected, Saves, Values, Setting
<1> QED
  BY <1>1, <1>2, <1>3, <1>4, <1>5 DEF Saves

-----------------------------------------------------------------------------
(* The scripts.                                                            *)

\* A script neither empties nor writes: it is the rewriting steps that put these in front.
Plain(t) == \A i \in 1 .. Len(t) : t[i].op \notin {"empty", "write"}

\* What a process with this script does next is no part of a rewrite.
LEMMA PlainStarts ==
    ASSUME NEW t \in Seq(AnyStep), Plain(t)
    PROVE  Ordered(t) /\ (t # <<>> => Head(t).op \notin {"empty", "write"})
<1>1. Ordered(t)
  BY DEF Plain, Ordered
<1>2. t # <<>> => Len(t) \in Nat \ {0}
  BY EmptySeq
<1>3. t # <<>> => Head(t) = t[1] /\ 1 \in 1 .. Len(t)
  BY <1>2
<1> QED
  BY <1>1, <1>3 DEF Plain

LEMMA PlainConcat ==
    ASSUME NEW s \in Seq(AnyStep), NEW t \in Seq(AnyStep), Plain(s), Plain(t)
    PROVE  s \o t \in Seq(AnyStep) /\ Plain(s \o t)
<1>1. /\ s \o t \in Seq(AnyStep) /\ Len(s \o t) = Len(s) + Len(t)
      /\ \A i \in 1 .. Len(s) + Len(t) : (s \o t)[i] = IF i <= Len(s) THEN s[i] ELSE t[i - Len(s)]
  BY ConcatProperties
<1>2. Len(s) \in Nat /\ Len(t) \in Nat
  BY LenProperties
<1>3. ASSUME NEW i \in 1 .. Len(s \o t)
      PROVE  (s \o t)[i].op \notin {"empty", "write"}
  <2>1. CASE i <= Len(s)
    BY <1>1, <1>2, <2>1 DEF Plain
  <2>2. CASE ~(i <= Len(s))
    <3>1. i - Len(s) \in 1 .. Len(t) /\ (s \o t)[i] = t[i - Len(s)]
      BY <1>1, <1>2, <2>2
    <3> QED
      BY <3>1 DEF Plain
  <2> QED
    BY <2>1, <2>2
<1> QED
  BY <1>1, <1>3 DEF Plain

\* The rest of a script: its first step was no "empty", or the "write" of the rewrite is next.
LEMMA RestOrdered ==
    ASSUME NEW t \in Seq(AnyStep), t # <<>>, Ordered(t)
    PROVE  /\ Tail(t) \in Seq(AnyStep) /\ Ordered(Tail(t))
           /\ Head(t) = t[1] /\ Head(t) \in AnyStep
           /\ Head(t).op # "empty" => Plain(Tail(t))
           /\ Head(t).op = "empty" =>
                  Tail(t) # <<>> /\ Head(Tail(t)) = t[2] /\ t[2].op = "write"
<1>1. /\ Head(t) \in AnyStep /\ Tail(t) \in Seq(AnyStep) /\ Len(Tail(t)) = Len(t) - 1
      /\ \A i \in 1 .. Len(Tail(t)) : Tail(t)[i] = t[i + 1]
  BY HeadTailProperties
<1>2. Len(t) \in Nat \ {0}
  BY EmptySeq
<1>3. Head(t) = t[1]
  BY <1>2
<1>4. \A i \in 1 .. Len(Tail(t)) : i + 1 \in 1 .. Len(t) /\ i + 1 # 1
  BY <1>1, <1>2
<1>5. \A i \in 1 .. Len(Tail(t)) : /\ Tail(t)[i].op # "empty"
                                   /\ Tail(t)[i].op = "write" => i = 1 /\ t[1].op = "empty"
  BY <1>1, <1>4 DEF Ordered
<1>6. Ordered(Tail(t)) /\ (Head(t).op # "empty" => Plain(Tail(t)))
  BY <1>3, <1>5 DEF Ordered, Plain
<1>7. ASSUME Head(t).op = "empty"
      PROVE  Tail(t) # <<>> /\ Head(Tail(t)) = t[2] /\ t[2].op = "write"
  <2>1. Len(t) > 1 /\ t[2].op = "write"
    BY <1>2, <1>3, <1>7 DEF Ordered
  <2>2. Len(Tail(t)) \in Nat \ {0} /\ Tail(t)[1] = t[2]
    BY <1>1, <1>2, <2>1
  <2>3. Tail(t) # <<>>
    BY <1>1, <2>2, EmptySeq
  <2>4. Head(Tail(t)) = Tail(t)[1]
    BY <1>1, <2>2, <2>3, HeadTailProperties
  <2> QED
    BY <2>1, <2>2, <2>3, <2>4
<1> QED
  BY <1>1, <1>3, <1>6, <1>7

\* A rewrite that is put in front of a plain script.
LEMMA RewriteOrdered ==
    ASSUME NEW w \in AnyStep, w.op = "write", NEW r \in Seq(AnyStep), Plain(r)
    PROVE  LET t == <<Do("empty"), w>> \o r IN
           /\ t \in Seq(AnyStep) /\ Ordered(t) /\ t # <<>>
           /\ Head(t).op = "empty" /\ t[2] = w
<1> DEFINE s == <<Do("empty"), w>>
           t == s \o r
<1>1. Do("empty") \in AnyStep /\ Do("empty").op = "empty"
  BY DEF AnyStep, Do, Step
<1>2. s \in Seq(AnyStep) /\ Len(s) = 2 /\ s[1] = Do("empty") /\ s[2] = w
  BY <1>1
<1>3. Len(r) \in Nat
  BY LenProperties
<1> HIDE DEF s
<1>4. /\ t \in Seq(AnyStep) /\ Len(t) = 2 + Len(r)
      /\ \A i \in 1 .. 2 + Len(r) : t[i] = IF i <= 2 THEN s[i] ELSE r[i - 2]
  <2>1. /\ s \o r \in Seq(AnyStep) /\ Len(s \o r) = Len(s) + Len(r)
        /\ \A i \in 1 .. Len(s) + Len(r) :
               (s \o r)[i] = IF i <= Len(s) THEN s[i] ELSE r[i - Len(s)]
    BY <1>2, ConcatProperties, Zenon
  <2> QED
    BY <1>2, <2>1
<1> HIDE DEF t
<1>5. t[1] = Do("empty") /\ t[2] = w /\ Len(t) > 1
  BY <1>2, <1>3, <1>4
<1>6. t # <<>> /\ Head(t) = t[1]
  BY <1>3, <1>4, EmptySeq
<1>7. \A i \in 1 .. Len(t) : i > 2 => t[i].op \notin {"empty", "write"}
  <2> SUFFICES ASSUME NEW i \in 1 .. Len(t), i > 2
               PROVE  t[i].op \notin {"empty", "write"}
    OBVIOUS
  <2>1. i - 2 \in 1 .. Len(r) /\ t[i] = r[i - 2]
    BY <1>3, <1>4
  <2> QED
    BY <2>1 DEF Plain
<1>8. Ordered(t)
  <2> SUFFICES ASSUME NEW i \in 1 .. Len(t)
               PROVE  /\ t[i].op = "empty" => i = 1
                      /\ t[i].op = "write" => i = 1 \/ (i = 2 /\ t[1].op = "empty")
    BY <1>5 DEF Ordered
  <2>1. i = 1 \/ i = 2 \/ i > 2
    BY <1>3, <1>4
  <2> QED
    BY <1>1, <1>5, <1>7, <2>1
<1> QED
  BY <1>1, <1>4, <1>5, <1>6, <1>8 DEF t, s

\* The step a process takes next.
LEMMA NextStep ==
    ASSUME TypeOK, NEW p \in Process, todo[p] # <<>>
    PROVE  /\ todo[p] \in Seq(AnyStep) /\ Head(todo[p]) \in AnyStep /\ Rest(p) \in Seq(AnyStep)
           /\ me[p] \in [cfg : Doc, doc : Doc]
<1>1. todo[p] \in Seq(AnyStep) /\ me[p] \in [cfg : Doc, doc : Doc]
  BY DEF TypeOK
<1> QED
  BY <1>1, HeadTailProperties DEF Rest

\* Every script is made of such steps, and is plain.
LEMMA Scripts ==
    ASSUME NEW s, \/ s \in Commands \cup Forms
                  \/ \E t \in {"arm", "disarm"} : s = Load \o <<Do(t)>>
    PROVE  s \in Seq(AnyStep) /\ Plain(s)
<1> DEFINE Fits(a) == a \in AnyStep /\ a.op \notin {"empty", "write"}
<1>1. /\ \A op \in {"load", "upgrade", "toml", "create start", "create end", "delete", "link",
                    "register", "arm", "disarm"} : Fits(Do(op))
      /\ \A n \in Pin : Fits(Step("text", "pin", n)) /\ Fits(Step("sync", "pin", n))
      /\ \A n \in Pin \cup {Mask} : Fits(Step("form", "pin", n))
      /\ \A n \in Pass : Fits(Step("pass", "pass", n))
      /\ \A t \in {""} \cup Pass : Fits(Step("keep", "pass", t))
      /\ \A v \in {"off", "on"} : Fits(Step("toml", "auto", v))
  BY DEF AnyStep, Step, Do
<1>2. ASSUME NEW a, Fits(a)
      PROVE  <<a>> \in Seq(AnyStep) /\ Plain(<<a>>)
  BY <1>2 DEF Plain
<1>3. ASSUME NEW a, NEW b, Fits(a), Fits(b)
      PROVE  <<a, b>> \in Seq(AnyStep) /\ Plain(<<a, b>>)
  BY <1>3 DEF Plain
<1>4. ASSUME NEW a, NEW b, NEW c, Fits(a), Fits(b), Fits(c)
      PROVE  <<a, b, c>> \in Seq(AnyStep) /\ Plain(<<a, b, c>>)
  BY <1>4 DEF Plain
<1> HIDE DEF Fits
<1>5. Load \in Seq(AnyStep) /\ Plain(Load)
  BY <1>1, <1>3 DEF Load
<1>6. ASSUME NEW op \in {"link", "register", "arm", "disarm"}
      PROVE  Load \o <<Do(op)>> \in Seq(AnyStep) /\ Plain(Load \o <<Do(op)>>)
  <2>1. <<Do(op)>> \in Seq(AnyStep) /\ Plain(<<Do(op)>>)
    BY <1>1, <1>2
  <2> QED
    BY <1>5, <2>1, PlainConcat
<1>7. ASSUME NEW n \in Pin
      PROVE  PinCommand(n) \in Seq(AnyStep) /\ Plain(PinCommand(n))
  <2> DEFINE t == <<Step("text", "pin", n), Step("sync", "pin", n)>>
  <2>1. t \in Seq(AnyStep) /\ Plain(t)
    BY <1>1, <1>3
  <2> QED
    BY <1>5, <2>1, PlainConcat DEF PinCommand
<1>8. ASSUME NEW n \in Pass
      PROVE  PassCommand(n) \in Seq(AnyStep) /\ Plain(PassCommand(n))
  <2>1. <<Step("pass", "pass", n)>> \in Seq(AnyStep) /\ Plain(<<Step("pass", "pass", n)>>)
    BY <1>1, <1>2
  <2> QED
    BY <1>5, <2>1, PlainConcat DEF PassCommand
<1>9. QuietArm \in Seq(AnyStep) /\ Plain(QuietArm)
  <2>1. /\ <<Do("create start"), Do("toml")>> \in Seq(AnyStep)
        /\ Plain(<<Do("create start"), Do("toml")>>)
    BY <1>1, <1>3
  <2> QED
    BY <1>5, <2>1, PlainConcat DEF QuietArm
<1>10. ASSUME NEW t \in {""} \cup Pass
       PROVE  QuietArmDisarm(t) \in Seq(AnyStep) /\ Plain(QuietArmDisarm(t))
  <2> DEFINE r == <<Step("keep", "pass", t), Step("toml", "auto", "on"), Do("create end")>>
  <2>1. r \in Seq(AnyStep) /\ Plain(r)
    BY <1>1, <1>4
  <2> QED
    BY <1>9, <2>1, PlainConcat DEF QuietArmDisarm
<1>11. QuietRemove \in Seq(AnyStep) /\ Plain(QuietRemove)
  <2> DEFINE r == <<Do("delete"), Step("toml", "auto", "off")>>
  <2>1. r \in Seq(AnyStep) /\ Plain(r)
    BY <1>1, <1>3
  <2> QED
    BY <1>5, <2>1, PlainConcat DEF QuietRemove
<1>12. ASSUME NEW n \in Pin \cup {Mask}
       PROVE  Form(n) \in Seq(AnyStep) /\ Plain(Form(n))
  BY <1>1, <1>2 DEF Form
<1> QED
  BY <1>6, <1>7, <1>8, <1>9, <1>10, <1>11, <1>12 DEF Commands, Forms, Link, Listen

-----------------------------------------------------------------------------
(* Types.                                                                  *)

\* What a process has left to do, and what it knows, after a step of its own.
LEMMA GoesOn ==
    ASSUME TypeOK, NEW p \in Process, NEW steps \in Seq(AnyStep),
           NEW m \in [cfg : Doc, doc : Doc], Goes(p, steps, m)
    PROVE  /\ todo' \in [Process -> Seq(AnyStep)]
           /\ me' \in [Process -> [cfg : Doc, doc : Doc]]
           /\ todo'[p] = steps
           /\ steps # <<>> => me'[p] = m
           /\ \A q \in Process \ {p} : todo'[q] = todo[q] /\ me'[q] = me[q]
<1>1. Idle \in [cfg : Doc, doc : Doc]
  BY DEF Idle, Default, Blank, Doc
<1>2. todo \in [Process -> Seq(AnyStep)] /\ me \in [Process -> [cfg : Doc, doc : Doc]]
  BY DEF TypeOK
<1> QED
  BY <1>1, <1>2 DEF Goes

\* A process that stops.
LEMMA Stops ==
    ASSUME TypeOK, NEW p \in Process, Exits(p)
    PROVE  /\ todo' \in [Process -> Seq(AnyStep)]
           /\ me' \in [Process -> [cfg : Doc, doc : Doc]]
           /\ todo'[p] = <<>>
           /\ \A q \in Process \ {p} : todo'[q] = todo[q] /\ me'[q] = me[q]
<1>1. Idle \in [cfg : Doc, doc : Doc] /\ <<>> \in Seq(AnyStep)
  BY DEF Idle, Default, Blank, Doc
<1> QED
  BY <1>1, GoesOn DEF Exits

\* A process that takes its next step.
LEMMA GoesNext ==
    ASSUME TypeOK, NEW p \in Process, todo[p] # <<>>, Proceeds(p)
    PROVE  /\ todo' \in [Process -> Seq(AnyStep)]
           /\ me' \in [Process -> [cfg : Doc, doc : Doc]]
           /\ todo'[p] = Rest(p)
           /\ Rest(p) # <<>> => me'[p] = me[p]
           /\ \A q \in Process \ {p} : todo'[q] = todo[q] /\ me'[q] = me[q]
<1>1. Rest(p) \in Seq(AnyStep) /\ me[p] \in [cfg : Doc, doc : Doc]
  BY NextStep
<1> QED
  BY <1>1, GoesOn DEF Proceeds

\* A process that registers or links a new account writes its token (_save_worker_token).
LEMMA TokenStep ==
    ASSUME TypeOK, NEW p \in Process, NewToken(p)
    PROVE  /\ todo' \in [Process -> Seq(AnyStep)]
           /\ me' \in [Process -> [cfg : Doc, doc : Doc]]
           /\ todo'[p] \in Seq(AnyStep) /\ Plain(todo'[p])
           /\ \A q \in Process \ {p} : todo'[q] = todo[q] /\ me'[q] = me[q]
<1> DEFINE s == <<Step("text", "token", "other")>>
<1>1. s \in Seq(AnyStep) /\ Plain(s)
  BY DEF AnyStep, Step, Plain
<1>2. me[p] \in [cfg : Doc, doc : Doc] /\ Goes(p, s, me[p])
  BY DEF TypeOK, NewToken
<1> HIDE DEF s
<1> QED
  BY <1>1, <1>2, GoesOn

\* A call of the relay sets its pass, its PIN or whether it is armed.
LEMMA CallTyped ==
    ASSUME TypeOK, NEW p \in Process, todo[p] # <<>>,
           NEW answered \in [pass : {""} \cup Pass, pin : {""} \cup Pin, armed : BOOLEAN],
           Calls(p, answered)
    PROVE  TypeOK'
<1>1. /\ todo' \in [Process -> Seq(AnyStep)]
      /\ me' \in [Process -> [cfg : Doc, doc : Doc]]
  BY GoesNext DEF Calls
<1> QED
  BY <1>1 DEF TypeOK, Calls, laptop, bounds, history

-----------------------------------------------------------------------------
(* What no step of another process disturbs.                               *)

\* A process that takes no step is where it was.
LEMMA Stays ==
    ASSUME NEW q, todo'[q] = todo[q]
    PROVE  /\ At(q, "empty")' <=> At(q, "empty")
           /\ At(q, "write")' <=> At(q, "write")
           /\ Rewriting(q)' <=> Rewriting(q)
           /\ Saving(q)' = Saving(q)
           /\ Ordered(todo[q])' <=> Ordered(todo[q])
<1>1. At(q, "empty")' <=> At(q, "empty")
  BY DEF At
<1>2. At(q, "write")' <=> At(q, "write")
  BY DEF At
<1>3. Saving(q)' = Saving(q)
  BY <1>2 DEF Saving
<1>4. Ordered(todo[q])' <=> Ordered(todo[q])
  BY DEF Ordered
<1> QED
  BY <1>1, <1>2, <1>3, <1>4 DEF Rewriting

\* The parts of SettingsInv besides the types.
Parts == RewritesOrdered /\ OneRewrite /\ Drafted /\ TableThere /\ SettingsKept

\* A process steps that neither rewrites the file nor is about to.
LEMMA Quiet ==
    ASSUME Parts, NEW p \in Process, file' = file, saved' = saved, raced => raced',
           \A q \in Process \ {p} : todo'[q] = todo[q] /\ me'[q] = me[q],
           Ordered(todo'[p]), ~raced' => ~At(p, "write") /\ ~Rewriting(p)'
    PROVE  Parts'
<1>1. \A q \in Process \ {p} : /\ At(q, "write")' <=> At(q, "write")
                               /\ Rewriting(q)' <=> Rewriting(q)
                               /\ Saving(q)' = Saving(q)
                               /\ Ordered(todo[q])' <=> Ordered(todo[q])
  BY Stays
<1>2. RewritesOrdered'
  BY <1>1 DEF RewritesOrdered, Parts
<1>3. OneRewrite'
  BY <1>1 DEF OneRewrite, Parts
<1>4. Drafted'
  <2> SUFFICES ASSUME ~raced', NEW q \in Process, Rewriting(q)'
               PROVE  /\ me'[q].doc.table
                      /\ \A s \in Setting :
                            me'[q].doc[s] = IF s = Saving(q)'.set
                                            THEN Saving(q)'.to ELSE Expected'[s]
    BY DEF Drafted
  <2>1. q # p
    OBVIOUS
  <2>2. Rewriting(q) /\ Saving(q)' = Saving(q) /\ me'[q] = me[q]
    BY <1>1, <2>1
  <2> QED
    BY <2>2, Same DEF Drafted, Parts
<1>5. ASSUME ~raced', \A q \in Process : ~At(q, "write")'
      PROVE  ~raced /\ \A q \in Process : ~At(q, "write")
  BY <1>1, <1>5
<1>6. TableThere'
  BY <1>5 DEF TableThere, Parts
<1>7. SettingsKept'
  BY <1>5, Same DEF SettingsKept, Parts
<1> QED
  BY <1>2, <1>3, <1>4, <1>6, <1>7 DEF Parts

\* No process steps.
LEMMA Still ==
    ASSUME Parts, file' = file, saved' = saved, raced' = raced, todo' = todo, me' = me
    PROVE  Parts'
<1>1. \A q \in Process : /\ At(q, "write")' <=> At(q, "write")
                         /\ Rewriting(q)' <=> Rewriting(q)
                         /\ Saving(q)' = Saving(q)
                         /\ Ordered(todo[q])' <=> Ordered(todo[q])
  BY Stays
<1>2. RewritesOrdered'
  BY <1>1 DEF RewritesOrdered, Parts
<1>3. OneRewrite'
  BY <1>1 DEF OneRewrite, Parts
<1>4. Drafted'
  BY <1>1, Same DEF Drafted, Parts
<1>5. TableThere'
  BY <1>1 DEF TableThere, Parts
<1>6. SettingsKept'
  BY <1>1, Same DEF SettingsKept, Parts
<1> QED
  BY <1>2, <1>3, <1>4, <1>5, <1>6 DEF Parts

\* A process that takes a step other than those two, and what is left is plain.
LEMMA QuietStep ==
    ASSUME Parts, NEW p \in Process, ~At(p, "write"),
           file' = file, saved' = saved, raced => raced',
           \A q \in Process \ {p} : todo'[q] = todo[q] /\ me'[q] = me[q],
           todo'[p] \in Seq(AnyStep), Plain(todo'[p])
    PROVE  Parts'
<1>1. Ordered(todo'[p]) /\ (todo'[p] # <<>> => Head(todo'[p]).op \notin {"empty", "write"})
  BY PlainStarts
<1>2. ~Rewriting(p)'
  BY <1>1 DEF Rewriting, At
<1> QED
  BY <1>1, <1>2, Quiet

\* A process that goes on with its script, or stops.
LEMMA ScriptStep ==
    ASSUME TypeOK, Parts, NEW p \in Process, todo[p] # <<>>,
           Head(todo[p]).op \notin {"empty", "write"}, Proceeds(p) \/ Exits(p),
           file' = file, saved' = saved, raced => raced'
    PROVE  /\ Parts'
           /\ todo' \in [Process -> Seq(AnyStep)]
           /\ me' \in [Process -> [cfg : Doc, doc : Doc]]
<1>1. ~At(p, "write")
  BY DEF At
<1>2. CASE Proceeds(p)
  <2>1. todo[p] \in Seq(AnyStep) /\ Ordered(todo[p])
    BY NextStep DEF Parts, RewritesOrdered
  <2>2. Rest(p) \in Seq(AnyStep) /\ Plain(Rest(p))
    BY <2>1, RestOrdered DEF Rest
  <2>3. /\ todo' \in [Process -> Seq(AnyStep)]
        /\ me' \in [Process -> [cfg : Doc, doc : Doc]]
        /\ todo'[p] = Rest(p)
        /\ \A q \in Process \ {p} : todo'[q] = todo[q] /\ me'[q] = me[q]
    BY <1>2, GoesNext
  <2>4. todo'[p] \in Seq(AnyStep) /\ Plain(todo'[p])
    BY <2>2, <2>3
  <2> QED
    BY <1>1, <2>3, <2>4, QuietStep
<1>3. CASE Exits(p)
  <2>1. /\ todo' \in [Process -> Seq(AnyStep)]
        /\ me' \in [Process -> [cfg : Doc, doc : Doc]]
        /\ todo'[p] = <<>>
        /\ \A q \in Process \ {p} : todo'[q] = todo[q] /\ me'[q] = me[q]
    BY <1>3, Stops
  <2>2. todo'[p] \in Seq(AnyStep) /\ Plain(todo'[p])
    BY <2>1 DEF Plain
  <2> QED
    BY <1>1, <2>1, <2>2, QuietStep
<1> QED
  BY <1>2, <1>3

-----------------------------------------------------------------------------
(* The steps of a rewrite.                                                 *)

\* A process reads the file with nobody in a rewrite: what it will write is what was saved
\* with its own setting changed.
LEMMA RewriteStarts ==
    ASSUME TypeOK, Parts, NEW p \in Process, todo[p] # <<>>, NEW doc \in Doc,
           Head(todo[p]).op \in {"text", "form", "toml", "upgrade"},
           Reads(p, doc, Rest(p)),
           file.table => /\ doc.table
                         /\ \A s \in Setting : doc[s] = IF s = Head(todo[p]).set
                                                        THEN Head(todo[p]).to ELSE file[s]
    PROVE  TypeOK' /\ Parts'
<1> DEFINE w == Step("write", Head(todo[p]).set, Head(todo[p]).to)
           t == <<Do("empty"), w>> \o Rest(p)
           m == [me[p] EXCEPT !.doc = doc]
<1>1. /\ todo[p] \in Seq(AnyStep) /\ Head(todo[p]) \in AnyStep /\ Rest(p) \in Seq(AnyStep)
      /\ Ordered(todo[p])
      /\ m \in [cfg : Doc, doc : Doc] /\ m.doc = doc
  BY NextStep DEF Parts, RewritesOrdered
<1>2. /\ w \in AnyStep /\ w.op = "write"
      /\ w.set = Head(todo[p]).set /\ w.to = Head(todo[p]).to
  BY <1>1, WriteSteps, StepFields
<1>3. Plain(Rest(p))
  BY <1>1, RestOrdered DEF Rest
<1> HIDE DEF w
<1>4. t \in Seq(AnyStep) /\ Ordered(t) /\ t # <<>> /\ Head(t).op = "empty" /\ t[2] = w
  BY <1>1, <1>2, <1>3, RewriteOrdered
<1>5. Goes(p, t, m) /\ raced' = (raced \/ Meets(p))
      /\ UNCHANGED <<laptop, relay, bounds, saved>>
  BY DEF Reads, w
<1> HIDE DEF t, m
<1>6. /\ todo' \in [Process -> Seq(AnyStep)] /\ me' \in [Process -> [cfg : Doc, doc : Doc]]
      /\ todo'[p] = t /\ me'[p] = m
      /\ \A q \in Process \ {p} : todo'[q] = todo[q] /\ me'[q] = me[q]
  BY <1>1, <1>4, <1>5, GoesOn
<1>7. TypeOK'
  BY <1>5, <1>6 DEF TypeOK, laptop, bounds
<1>8. \A q \in Process \ {p} : /\ Rewriting(q)' <=> Rewriting(q)
                               /\ Ordered(todo[q])' <=> Ordered(todo[q])
  BY <1>6, Stays
<1>9. Rewriting(p)' /\ ~At(p, "write")' /\ Saving(p)' = w
  BY <1>4, <1>6 DEF Rewriting, At, Saving
<1>10. RewritesOrdered'
  BY <1>4, <1>6, <1>8 DEF RewritesOrdered, Parts
<1>11. ASSUME ~raced'
       PROVE  ~raced /\ file.table /\ (\A q \in Process : ~Rewriting(q))
              /\ \A s \in Setting : file[s] = Expected[s]
  <2>1. ~raced /\ \A q \in Process \ {p} : ~Rewriting(q)
    BY <1>5, <1>11 DEF Meets
  <2>2. ~Rewriting(p)
    BY DEF Rewriting, At
  <2>3. \A q \in Process : ~Rewriting(q)
    BY <2>1, <2>2
  <2>4. \A q \in Process : ~At(q, "write")
    BY <2>3 DEF Rewriting
  <2> QED
    BY <2>1, <2>3, <2>4 DEF Parts, TableThere, SettingsKept
<1>12. OneRewrite'
  BY <1>8, <1>11 DEF OneRewrite
<1>13. Drafted'
  <2> SUFFICES ASSUME ~raced', NEW q \in Process, Rewriting(q)'
               PROVE  /\ me'[q].doc.table
                      /\ \A s \in Setting :
                            me'[q].doc[s] = IF s = Saving(q)'.set
                                            THEN Saving(q)'.to ELSE Expected'[s]
    BY DEF Drafted
  <2>1. q = p
    BY <1>8, <1>11
  <2>2. saved' = saved /\ me'[q].doc = doc /\ Saving(q)' = w
    BY <1>1, <1>5, <1>6, <1>9, <2>1
  <2> QED
    BY <1>2, <1>11, <2>2, Same
<1>14. TableThere' /\ SettingsKept'
  BY <1>5, <1>11, Same DEF TableThere, SettingsKept, laptop
<1> QED
  BY <1>7, <1>10, <1>12, <1>13, <1>14 DEF Parts

\* The file is emptied: the process writes it next.
LEMMA FileEmptied ==
    ASSUME TypeOK, Parts, NEW p \in Process, EmptyFile(p)
    PROVE  TypeOK' /\ Parts'
<1>1. todo[p] # <<>> /\ Head(todo[p]).op = "empty" /\ Proceeds(p)
      /\ file' = Blank /\ UNCHANGED <<tasks, passFile, relay, bounds, history>>
  BY DEF EmptyFile, At
<1>2. todo[p] \in Seq(AnyStep) /\ Ordered(todo[p])
  BY <1>1, NextStep DEF Parts, RewritesOrdered
<1>3. /\ Rest(p) # <<>> /\ Head(Rest(p)).op = "write" /\ Head(Rest(p)) = todo[p][2]
      /\ Ordered(Rest(p))
  BY <1>1, <1>2, RestOrdered DEF Rest
<1>4. /\ todo' \in [Process -> Seq(AnyStep)] /\ me' \in [Process -> [cfg : Doc, doc : Doc]]
      /\ todo'[p] = Rest(p) /\ me'[p] = me[p]
      /\ \A q \in Process \ {p} : todo'[q] = todo[q] /\ me'[q] = me[q]
  BY <1>1, <1>3, GoesNext
<1>5. Blank \in Doc
  BY DEF Blank, Default, Doc
<1>6. TypeOK'
  BY <1>1, <1>4, <1>5 DEF TypeOK, bounds, history
<1>7. \A q \in Process \ {p} : /\ Rewriting(q)' <=> Rewriting(q)
                               /\ Saving(q)' = Saving(q)
                               /\ Ordered(todo[q])' <=> Ordered(todo[q])
  BY <1>4, Stays
<1>8. At(p, "write")' /\ Rewriting(p)' /\ Rewriting(p) /\ Saving(p)' = Saving(p)
  BY <1>1, <1>3, <1>4 DEF Rewriting, At, Saving
<1>9. RewritesOrdered'
  BY <1>3, <1>4, <1>7 DEF RewritesOrdered, Parts
<1>10. \A q \in Process : /\ Rewriting(q)' <=> Rewriting(q)
                          /\ Saving(q)' = Saving(q) /\ me'[q] = me[q]
  BY <1>4, <1>7, <1>8
<1>11. saved' = saved /\ raced' = raced
  BY <1>1 DEF history
<1>12. OneRewrite'
  BY <1>10, <1>11 DEF OneRewrite, Parts
<1>13. Drafted'
  BY <1>10, <1>11, Same DEF Drafted, Parts
<1>14. TableThere' /\ SettingsKept'
  BY <1>8 DEF TableThere, SettingsKept
<1> QED
  BY <1>6, <1>9, <1>12, <1>13, <1>14 DEF Parts

\* The file is written: it says what is saved from now on.
LEMMA FileWritten ==
    ASSUME TypeOK, Parts, NEW p \in Process, WriteFile(p)
    PROVE  TypeOK' /\ Parts'
<1> DEFINE h == Head(todo[p])
<1>1. todo[p] # <<>> /\ h.op = "write" /\ Proceeds(p) /\ file' = me[p].doc
      /\ saved' = Noted(h)
      /\ UNCHANGED <<tasks, passFile, relay, bounds, raced>>
  BY DEF WriteFile, At
<1>2. /\ todo[p] \in Seq(AnyStep) /\ Ordered(todo[p]) /\ h \in AnyStep
      /\ me[p] \in [cfg : Doc, doc : Doc]
  BY <1>1, NextStep DEF Parts, RewritesOrdered
<1>3. /\ todo' \in [Process -> Seq(AnyStep)] /\ me' \in [Process -> [cfg : Doc, doc : Doc]]
      /\ todo'[p] = Rest(p)
      /\ \A q \in Process \ {p} : todo'[q] = todo[q] /\ me'[q] = me[q]
  BY <1>1, GoesNext
<1>4. Rest(p) \in Seq(AnyStep) /\ Plain(Rest(p))
  BY <1>1, <1>2, RestOrdered DEF Rest
<1>5. Ordered(Rest(p)) /\ (Rest(p) # <<>> => Head(Rest(p)).op \notin {"empty", "write"})
  BY <1>4, PlainStarts
<1>6. Rewriting(p) /\ At(p, "write") /\ ~Rewriting(p)' /\ ~At(p, "write")'
  BY <1>1, <1>3, <1>5 DEF Rewriting, At
<1>7. \A q \in Process \ {p} : /\ Rewriting(q)' <=> Rewriting(q)
                               /\ Ordered(todo[q])' <=> Ordered(todo[q])
  BY <1>3, Stays
<1>8. saved \in Values /\ Saves(h)
  BY <1>1, <1>2, StepFacts DEF TypeOK
<1> HIDE DEF h
<1>9. /\ saved' \in Values
      /\ \A s \in Setting : Expected'[s] = IF s = h.set THEN h.to ELSE Expected[s]
  BY <1>1, <1>8, SavedChanged
<1>10. TypeOK'
  BY <1>1, <1>2, <1>3, <1>9 DEF TypeOK, bounds
<1>11. RewritesOrdered'
  BY <1>3, <1>5, <1>7 DEF RewritesOrdered, Parts
<1>12. ASSUME ~raced'
       PROVE  ~raced /\ \A q \in Process : ~Rewriting(q)'
  BY <1>1, <1>6, <1>7, <1>12 DEF Parts, OneRewrite
<1>13. OneRewrite' /\ Drafted'
  BY <1>12 DEF OneRewrite, Drafted
<1>14. ASSUME ~raced'
       PROVE  file'.table /\ \A s \in Setting : file'[s] = Expected'[s]
  <2>1. Saving(p) = h
    BY <1>6 DEF Saving, h
  <2>2. /\ me[p].doc.table
        /\ \A s \in Setting : me[p].doc[s] = IF s = h.set THEN h.to ELSE Expected[s]
    BY <1>6, <1>12, <1>14, <2>1 DEF Parts, Drafted
  <2> QED
    BY <1>1, <1>9, <2>2
<1>15. TableThere' /\ SettingsKept'
  BY <1>14 DEF TableThere, SettingsKept
<1> QED
  BY <1>10, <1>11, <1>13, <1>15 DEF Parts

-----------------------------------------------------------------------------
(* The actions.                                                            *)

\* A process starts a script.
LEMMA Started ==
    ASSUME TypeOK, Parts, NEW p \in Process, NEW script, Run(p, script),
           \/ script \in Commands \cup Forms
           \/ \E t \in {"arm", "disarm"} : script = Load \o <<Do(t)>>,
           file' = file, saved' = saved, raced' = raced
    PROVE  /\ Parts'
           /\ todo' \in [Process -> Seq(AnyStep)]
           /\ me' \in [Process -> [cfg : Doc, doc : Doc]]
<1>1. script \in Seq(AnyStep) /\ Plain(script)
  BY Scripts
<1>2. Idle \in [cfg : Doc, doc : Doc]
  BY DEF Idle, Default, Blank, Doc
<1>3. /\ todo' \in [Process -> Seq(AnyStep)]
      /\ me' \in [Process -> [cfg : Doc, doc : Doc]]
      /\ todo'[p] = script
      /\ \A q \in Process \ {p} : todo'[q] = todo[q] /\ me'[q] = me[q]
  BY <1>1, <1>2, GoesOn DEF Run
<1>4. ~At(p, "write")
  BY DEF Run, At
<1>5. Parts'
  BY <1>1, <1>3, <1>4, QuietStep
<1> QED
  BY <1>3, <1>5

\* The rewriting steps (config.py, cli.py, gui/bridge.py).
LEMMA Rewrites ==
    ASSUME TypeOK, Parts, NEW p \in Process,
           UpgradeSecrets(p) \/ SaveText(p) \/ SaveToml(p) \/ SaveForm(p)
    PROVE  TypeOK' /\ Parts'
<1> DEFINE s == Head(todo[p])
<1>1. todo[p] # <<>> /\ s.op \in {"text", "form", "toml", "upgrade"}
  BY DEF UpgradeSecrets, SaveText, SaveToml, SaveForm, At
<1>2. s \in AnyStep
  BY <1>1, NextStep
<1>3. Saves(s) /\ file \in Doc
  BY <1>1, <1>2, StepFacts DEF TypeOK
<1>4. CASE UpgradeSecrets(p)
  <2> DEFINE doc == [file EXCEPT !.plain = FALSE]
  <2>1. s.op = "upgrade" /\ Reads(p, doc, Rest(p))
    BY <1>4 DEF UpgradeSecrets, At, Upgraded
  <2>2. s.set = ""
    BY <1>2, <2>1, StepFacts
  <2>3. doc \in Doc /\ doc.table = file.table /\ \A x \in Setting : doc[x] = file[x]
    BY <1>3 DEF Doc, Setting
  <2>4. \A x \in Setting : x # s.set
    BY <2>2 DEF Setting
  <2> QED
    BY <1>1, <2>1, <2>3, <2>4, RewriteStarts
<1>5. CASE SaveText(p)
  <2> DEFINE doc == IF file.table THEN With(file, s) ELSE Blank
  <2>1. s.op = "text" /\ Reads(p, doc, Rest(p))
    BY <1>5 DEF SaveText, At, With
  <2>2. s.set # ""
    BY <1>2, <2>1, StepFacts
  <2>3. /\ With(file, s) \in Doc /\ With(file, s).table = file.table
        /\ \A x \in Setting : With(file, s)[x] = IF x = s.set THEN s.to ELSE file[x]
    BY <1>3, <2>2, Changed
  <2>4. Blank \in Doc
    BY DEF Blank, Default, Doc
  <2>5. /\ doc \in Doc
        /\ file.table => /\ doc.table
                         /\ \A x \in Setting : doc[x] = IF x = s.set THEN s.to ELSE file[x]
    BY <2>3, <2>4
  <2> QED
    BY <1>1, <2>1, <2>5, RewriteStarts
<1>6. CASE SaveToml(p)
  <2> DEFINE base == [file EXCEPT !.table = TRUE]
             doc == IF s.set = "" THEN base ELSE With(base, s)
  <2>1. Reads(p, doc, Rest(p))
    BY <1>6 DEF SaveToml, With
  <2>2. base \in Doc /\ base.table /\ \A x \in Setting : base[x] = file[x]
    BY <1>3 DEF Doc, Setting
  <2>3. /\ doc \in Doc /\ doc.table
        /\ \A x \in Setting : doc[x] = IF x = s.set THEN s.to ELSE file[x]
    <3>1. CASE s.set = ""
      BY <2>2, <3>1 DEF Setting
    <3>2. CASE s.set # ""
      <4>1. /\ With(base, s) \in Doc /\ With(base, s).table = base.table
            /\ \A x \in Setting : With(base, s)[x] = IF x = s.set THEN s.to ELSE base[x]
        BY <1>3, <2>2, <3>2, Changed
      <4> QED
        BY <2>2, <3>2, <4>1
    <3> QED
      BY <3>1, <3>2
  <2> QED
    BY <1>1, <2>1, <2>3, RewriteStarts
<1>7. CASE SaveForm(p)
  <2> DEFINE doc == [file EXCEPT !.table = TRUE, !.plain = TRUE, !.pin = s.to]
  <2>1. s.op = "form" /\ Reads(p, doc, Rest(p))
    BY <1>7 DEF SaveForm, At
  <2>2. s.set = "pin" /\ s.to \in Pin \cup {Mask}
    BY <1>2, <1>3, <2>1, StepFacts DEF Saves
  <2>3. /\ doc \in Doc /\ doc.table
        /\ \A x \in Setting : doc[x] = IF x = s.set THEN s.to ELSE file[x]
    BY <1>3, <2>2 DEF Doc, Setting
  <2> QED
    BY <1>1, <2>1, <2>3, RewriteStarts
<1> QED
  BY <1>4, <1>5, <1>6, <1>7

\* A process loads the file.
LEMMA Loads ==
    ASSUME TypeOK, Parts, NEW p \in Process, LoadFile(p)
    PROVE  TypeOK' /\ Parts'
<1> DEFINE m == [me[p] EXCEPT !.cfg = Loaded(file)]
<1>1. /\ todo[p] # <<>> /\ Head(todo[p]).op = "load" /\ Goes(p, Rest(p), m)
      /\ raced' = (raced \/ file = Blank) /\ UNCHANGED <<laptop, relay, bounds, saved>>
  BY DEF LoadFile, At
<1>2. /\ todo[p] \in Seq(AnyStep) /\ Ordered(todo[p]) /\ me[p] \in [cfg : Doc, doc : Doc]
      /\ m \in [cfg : Doc, doc : Doc]
  BY <1>1, NextStep DEF Parts, RewritesOrdered, TypeOK, Loaded
<1>3. Rest(p) \in Seq(AnyStep) /\ Plain(Rest(p))
  BY <1>1, <1>2, RestOrdered DEF Rest
<1> HIDE DEF m
<1>4. /\ todo' \in [Process -> Seq(AnyStep)] /\ me' \in [Process -> [cfg : Doc, doc : Doc]]
      /\ todo'[p] = Rest(p)
      /\ \A q \in Process \ {p} : todo'[q] = todo[q] /\ me'[q] = me[q]
  BY <1>1, <1>2, <1>3, GoesOn
<1>5. TypeOK'
  BY <1>1, <1>4 DEF TypeOK, laptop, bounds
<1>6. todo'[p] \in Seq(AnyStep) /\ Plain(todo'[p]) /\ ~At(p, "write")
      /\ file' = file /\ saved' = saved /\ (raced => raced')
  BY <1>1, <1>3, <1>4 DEF At, laptop
<1>7. Parts'
  BY <1>4, <1>6, QuietStep
<1> QED
  BY <1>5, <1>7

\* A call of the relay (worker_client.py).
LEMMA CallsTheRelay ==
    ASSUME TypeOK, Parts, NEW p \in Process, SyncPin(p) \/ SetPass(p) \/ ArmTask(p)
    PROVE  TypeOK' /\ Parts'
<1> DEFINE s == Head(todo[p])
<1>1. todo[p] # <<>> /\ s.op \in {"sync", "pass", "arm"}
  BY DEF SyncPin, SetPass, ArmTask, At
<1>2. s \in AnyStep
  BY <1>1, NextStep
<1>3. PICK answered \in [pass : {""} \cup Pass, pin : {""} \cup Pin, armed : BOOLEAN] :
          Calls(p, answered)
  <2>1. CASE SyncPin(p)
    <3>1. s.to \in Pin /\ Calls(p, [relay EXCEPT !.pin = s.to])
      BY <1>2, <2>1, StepFacts DEF SyncPin, At
    <3>2. [relay EXCEPT !.pin = s.to]
              \in [pass : {""} \cup Pass, pin : {""} \cup Pin, armed : BOOLEAN]
      BY <3>1 DEF TypeOK
    <3> QED
      BY <3>1, <3>2
  <2>2. CASE SetPass(p)
    <3>1. s.to \in Pass /\ Calls(p, [relay EXCEPT !.pass = s.to])
      BY <1>2, <2>2, StepFacts DEF SetPass, At
    <3>2. [relay EXCEPT !.pass = s.to]
              \in [pass : {""} \cup Pass, pin : {""} \cup Pin, armed : BOOLEAN]
      BY <3>1 DEF TypeOK
    <3> QED
      BY <3>1, <3>2
  <2>3. CASE ArmTask(p)
    <3>1. [relay EXCEPT !.armed = TRUE]
              \in [pass : {""} \cup Pass, pin : {""} \cup Pin, armed : BOOLEAN]
      BY DEF TypeOK
    <3> QED
      BY <2>3, <3>1 DEF ArmTask
  <2> QED
    BY <2>1, <2>2, <2>3
<1>4. TypeOK'
  BY <1>1, <1>3, CallTyped
<1>5. Proceeds(p) /\ file' = file /\ saved' = saved /\ raced' = raced
  BY <1>3 DEF Calls, laptop, history
<1>6. Parts'
  BY <1>1, <1>5, ScriptStep
<1> QED
  BY <1>4, <1>6

\* A new token is to be written, or none (_ensure_worker_setup, cmd_link).
LEMMA Tokens ==
    ASSUME TypeOK, Parts, NEW p \in Process, LinkAccount(p) \/ Register(p)
    PROVE  TypeOK' /\ Parts'
<1>1. /\ todo[p] # <<>> /\ Head(todo[p]).op \notin {"empty", "write"} /\ ~At(p, "write")
      /\ NewToken(p) \/ Exits(p)
      /\ UNCHANGED <<laptop, relay, bounds, history>>
  BY DEF LinkAccount, Register, At
<1>2. file' = file /\ saved' = saved /\ raced' = raced
  BY <1>1 DEF laptop, history
<1>3. /\ Parts'
      /\ todo' \in [Process -> Seq(AnyStep)] /\ me' \in [Process -> [cfg : Doc, doc : Doc]]
  <2>1. CASE NewToken(p)
    BY <1>1, <1>2, <2>1, TokenStep, QuietStep
  <2>2. CASE Exits(p)
    BY <1>1, <1>2, <2>2, ScriptStep
  <2> QED
    BY <1>1, <2>1, <2>2
<1> QED
  BY <1>1, <1>3 DEF TypeOK, laptop, bounds, history

\* The steps of the nightly arming, and the upgrade that finds nothing to do.
LEMMA OtherSteps ==
    ASSUME TypeOK, Parts, NEW p \in Process,
           \/ NothingToUpgrade(p) \/ CreateTask(p, "arm") \/ CreateTask(p, "disarm")
           \/ KeepPass(p) \/ DeleteTasks(p)
           \/ EndUninvited(p) \/ Disarms(p) \/ DisarmFails(p)
    PROVE  TypeOK' /\ Parts'
<1>1. /\ todo[p] # <<>> /\ Head(todo[p]).op \notin {"empty", "write"}
      /\ Proceeds(p) \/ Exits(p)
  BY DEF NothingToUpgrade, CreateTask, KeepPass, DeleteTasks, EndUninvited, Disarms,
         DisarmFails, At
<1>2. file' = file /\ saved' = saved /\ raced' = raced /\ UNCHANGED bounds
  BY DEF NothingToUpgrade, CreateTask, KeepPass, DeleteTasks, EndUninvited, Disarms,
         DisarmFails, laptop, history
<1>3. /\ Parts'
      /\ todo' \in [Process -> Seq(AnyStep)] /\ me' \in [Process -> [cfg : Doc, doc : Doc]]
  BY <1>1, <1>2, ScriptStep
<1>4. tasks' \subseteq {"arm", "disarm"}
  BY DEF TypeOK, NothingToUpgrade, CreateTask, KeepPass, DeleteTasks, EndUninvited, Disarms,
         DisarmFails, laptop
<1>5. passFile' \in {None, ""} \cup Pass
  <2>1. CASE KeepPass(p)
    <3>1. Head(todo[p]).op = "keep" /\ passFile' = Head(todo[p]).to
      BY <2>1 DEF KeepPass, At
    <3> QED
      BY <1>1, <3>1, NextStep, StepFacts
  <2>2. CASE ~KeepPass(p)
    BY <2>2 DEF TypeOK, NothingToUpgrade, CreateTask, DeleteTasks, EndUninvited, Disarms,
                DisarmFails, laptop
  <2> QED
    BY <2>1, <2>2
<1>6. relay' \in [pass : {""} \cup Pass, pin : {""} \cup Pin, armed : BOOLEAN]
  BY DEF TypeOK, NothingToUpgrade, CreateTask, KeepPass, DeleteTasks, EndUninvited, Disarms,
         DisarmFails
<1> QED
  BY <1>2, <1>3, <1>4, <1>5, <1>6 DEF TypeOK, bounds

\* A command is given, or a task runs.
LEMMA Starts ==
    ASSUME TypeOK, Parts, OwnerRuns \/ TaskRuns("arm") \/ TaskRuns("disarm")
    PROVE  TypeOK' /\ Parts'
<1> DEFINE Script(s) == \/ s \in Commands \cup Forms
                        \/ \E t \in {"arm", "disarm"} : s = Load \o <<Do(t)>>
<1>1. PICK p \in Process : \E script : Script(script) /\ Run(p, script)
  <2>1. CASE OwnerRuns
    BY <2>1, Zenon DEF OwnerRuns, Process
  <2>2. ASSUME NEW t \in {"arm", "disarm"}, TaskRuns(t)
        PROVE  \E p \in Process : \E script : Script(script) /\ Run(p, script)
    BY <2>2, Zenon DEF TaskRuns, Process
  <2> QED
    BY <2>1, <2>2, Zenon
<1>2. /\ UNCHANGED <<laptop, relay, history>> /\ kills' = kills
      /\ runs' = runs \/ (runs < MaxRuns /\ runs' = runs + 1)
  BY DEF OwnerRuns, TaskRuns, bounds
<1>3. file' = file /\ saved' = saved /\ raced' = raced
  BY <1>2 DEF laptop, history
<1>4. /\ Parts'
      /\ todo' \in [Process -> Seq(AnyStep)] /\ me' \in [Process -> [cfg : Doc, doc : Doc]]
  BY <1>1, <1>3, Started
<1>5. runs' \in 0 .. MaxRuns /\ kills' \in 0 .. MaxKills
  <2>1. runs \in 0 .. MaxRuns /\ kills \in 0 .. MaxKills
    BY DEF TypeOK
  <2>2. kills' = kills /\ (runs' = runs \/ (runs < MaxRuns /\ runs' = runs + 1))
    BY <1>2
  <2> QED
    BY <2>1, <2>2, BoundAssumption
<1>6. TypeOK'
  BY <1>2, <1>4, <1>5 DEF TypeOK, laptop, history
<1> QED
  BY <1>4, <1>6

\* A process is killed.
LEMMA Kills ==
    ASSUME TypeOK, Parts, NEW p \in Process, Killed(p)
    PROVE  TypeOK' /\ Parts'
<1>1. /\ kills < MaxKills /\ todo[p] # <<>> /\ kills' = kills + 1 /\ Exits(p)
      /\ raced' = (raced \/ At(p, "write"))
      /\ UNCHANGED <<laptop, relay, runs, saved>>
  BY DEF Killed
<1>2. /\ todo' \in [Process -> Seq(AnyStep)] /\ me' \in [Process -> [cfg : Doc, doc : Doc]]
      /\ todo'[p] = <<>>
      /\ \A q \in Process \ {p} : todo'[q] = todo[q] /\ me'[q] = me[q]
  BY <1>1, Stops
<1>3. TypeOK'
  <2>1. raced' \in BOOLEAN
    BY <1>1, Zenon DEF TypeOK
  <2>2. runs' \in 0 .. MaxRuns /\ kills' \in 0 .. MaxKills
    <3>1. runs \in 0 .. MaxRuns /\ kills \in 0 .. MaxKills
      BY DEF TypeOK
    <3>2. runs' = runs /\ kills < MaxKills /\ kills' = kills + 1
      BY <1>1
    <3> QED
      BY <3>1, <3>2, BoundAssumption
  <2> QED
    BY <1>1, <1>2, <2>1, <2>2 DEF TypeOK, laptop
<1>4. Ordered(todo'[p])
  BY <1>2 DEF Ordered
<1>5. ~raced' => ~At(p, "write") /\ ~Rewriting(p)'
  BY <1>1, <1>2 DEF Rewriting, At
<1>6. file' = file /\ saved' = saved /\ (raced => raced')
  BY <1>1 DEF laptop
<1>7. Parts'
  BY <1>2, <1>4, <1>5, <1>6, Quiet
<1> QED
  BY <1>3, <1>7

-----------------------------------------------------------------------------
(* The invariant.                                                          *)

\* At the start config.toml is there, and nobody does anything.
LEMMA InitKept == Init => TypeOK /\ Parts
<1> SUFFICES ASSUME Init
             PROVE  TypeOK /\ Parts
  OBVIOUS
<1>1. /\ file \in Doc /\ file.table
      /\ file.pin \in Pin \cup {"6969"} /\ file.token \in {"", "ours", "other"}
      /\ file.auto \in {"off", "on"}
  <2>1. CASE file = [Default EXCEPT !.table = TRUE]
    BY <2>1 DEF Default, Doc
  <2>2. ASSUME NEW b \in BOOLEAN,
               file = [Default EXCEPT !.token = "ours", !.plain = b, !.table = TRUE]
        PROVE  /\ file \in Doc /\ file.table
               /\ file.pin \in Pin \cup {"6969"} /\ file.token \in {"", "ours", "other"}
               /\ file.auto \in {"off", "on"}
    BY <2>2 DEF Default, Doc
  <2> QED
    BY <2>1, <2>2 DEF Init
<1>2. /\ saved = [pin |-> file.pin, token |-> file.token, auto |-> file.auto, masked |-> FALSE]
      /\ raced = FALSE /\ tasks = {} /\ passFile = None /\ runs = 0 /\ kills = 0
      /\ relay \in [pass : {""} \cup Pass, pin : {""}, armed : {FALSE}]
      /\ todo = [p \in Process |-> <<>>] /\ me = [p \in Process |-> Idle]
  BY DEF Init
<1>3. saved \in Values /\ \A s \in Setting : file[s] = Expected[s]
  <2>1. /\ saved.pin = file.pin /\ saved.token = file.token /\ saved.auto = file.auto
        /\ Expected = saved
    BY <1>2 DEF Expected
  <2>2. saved \in Values
    BY <1>1, <1>2 DEF Values
  <2>3. \A s \in Setting : s = "pin" \/ s = "token" \/ s = "auto"
    BY DEF Setting
  <2> QED
    BY <2>1, <2>2, <2>3
<1>4. \A p \in Process : todo[p] = <<>>
  BY <1>2
<1>5. Ordered(<<>>)
  BY DEF Ordered
<1>6. \A p \in Process : Ordered(todo[p]) /\ ~Rewriting(p)
  BY <1>4, <1>5 DEF Rewriting, At
<1>7. Parts
  BY <1>1, <1>2, <1>3, <1>6
     DEF Parts, RewritesOrdered, OneRewrite, Drafted, TableThere, SettingsKept
<1>8. Idle \in [cfg : Doc, doc : Doc] /\ <<>> \in Seq(AnyStep)
  BY DEF Idle, Default, Blank, Doc
<1>9. /\ todo \in [Process -> Seq(AnyStep)] /\ me \in [Process -> [cfg : Doc, doc : Doc]]
  BY <1>2, <1>8
<1>10. runs \in 0 .. MaxRuns /\ kills \in 0 .. MaxKills
  <2>1. runs = 0 /\ kills = 0
    BY <1>2
  <2> QED
    BY <2>1, BoundAssumption
<1>11. relay \in [pass : {""} \cup Pass, pin : {""} \cup Pin, armed : BOOLEAN]
  BY <1>2
<1>12. TypeOK
  BY <1>1, <1>2, <1>3, <1>9, <1>10, <1>11 DEF TypeOK
<1> QED
  BY <1>7, <1>12

\* Every step keeps it.
LEMMA NextKept == TypeOK /\ Parts /\ [Next]_vars => TypeOK' /\ Parts'
<1> SUFFICES ASSUME TypeOK, Parts, [Next]_vars
             PROVE  TypeOK' /\ Parts'
  OBVIOUS
<1>1. CASE OwnerRuns \/ TaskRuns("arm") \/ TaskRuns("disarm")
  BY <1>1, Starts
<1>2. CASE PhoneArms
  <2>1. file' = file /\ saved' = saved /\ raced' = raced /\ todo' = todo /\ me' = me
    BY <1>2 DEF PhoneArms, laptop, process, history
  <2>2. Parts'
    BY <2>1, Still
  <2> QED
    BY <1>2, <2>2 DEF PhoneArms, TypeOK, laptop, process, bounds, history
<1>3. ASSUME NEW p \in Process, Takes(p) \/ Killed(p)
      PROVE  TypeOK' /\ Parts'
  BY <1>3, Loads, Rewrites, FileEmptied, FileWritten, CallsTheRelay, Tokens, OtherSteps, Kills
     DEF Takes
<1>4. CASE UNCHANGED vars
  <2>1. file' = file /\ saved' = saved /\ raced' = raced /\ todo' = todo /\ me' = me
    BY <1>4 DEF vars, laptop, process, history
  <2>2. Parts'
    BY <2>1, Still
  <2> QED
    BY <1>4, <2>2 DEF vars, TypeOK, laptop, process, bounds, history
<1> QED
  BY <1>1, <1>2, <1>3, <1>4 DEF Next

\* config.toml says what was last saved for each setting, whichever of the commands, the
\* settings form, the listeners' first start and load()'s own encryption rewrote it, unless two
\* rewrites overlapped or one was cut short (cli.py, gui/bridge.py, config.py).
THEOREM Kept == Spec => []SettingsInv
<1>1. Init => SettingsInv
  BY InitKept DEF SettingsInv, Parts
<1>2. SettingsInv /\ [Next]_vars => SettingsInv'
  BY NextKept DEF SettingsInv, Parts
<1> QED
  BY <1>1, <1>2, PTL DEF Spec
=============================================================================
