------------------------- MODULE RelayPairingProofs -------------------------
(***************************************************************************)
(* Proofs about RelayPairing, for any number of accounts, codes and        *)
(* requests in flight: PairingInv is inductive.  It says of every request  *)
(* what it holds of the tables, because the statements of a link act on    *)
(* what earlier statements read.                                           *)
(***************************************************************************)
EXTENDS RelayPairing, TLAPS

\* Appending an account keeps the history of generated codes and adds one.
LEMMA Grows ==
    ASSUME NEW s \in Seq(Account), NEW a \in Account
    PROVE  /\ Append(s, a) \in Seq(Account)
           /\ Len(Append(s, a)) = Len(s) + 1
           /\ \A i \in 1..Len(s) : Append(s, a)[i] = s[i]
           /\ Append(s, a)[Len(s) + 1] = a
OBVIOUS

\* The empty states of a code and of a request.
LEMMA States ==
    /\ NoRow \in CodeRow /\ NoRow.gen = 0 /\ ~NoRow.live
    /\ Idle \in RequestState /\ Idle.pc = "idle"
BY BoundAssumption DEF NoRow, CodeRow, Idle, RequestState, Pc

\* A link holds a record of an account, whose generation was generated.
LEMMA Owned ==
    ASSUME PairingInv, NEW r \in Request, req[r].pc \in Holding
    PROVE  /\ Owner(r) \in Account /\ req[r].code \in Code
           /\ req[r].row.gen \in 1..Len(gens) /\ gens[req[r].row.gen] = Owner(r)
<1>1. RequestOK(r) /\ gens \in Seq(Account)
  BY DEF PairingInv, TypeOK
<1>2. QED
  BY <1>1 DEF RequestOK

LEMMA TypeStep == PairingInv /\ [Next]_vars => TypeOK'
<1> SUFFICES ASSUME PairingInv, [Next]_vars PROVE TypeOK'
  OBVIOUS
<1> USE BoundAssumption
<1>0. TypeOK /\ TokensMinted
  BY DEF PairingInv
<1> USE DEF TypeOK
<1>1. ASSUME NEW r \in Request, NEW pc \in Pc
      PROVE  [req EXCEPT ![r].pc = pc] \in [Request -> RequestState]
  BY <1>0 DEF RequestState
<1>2. ASSUME NEW r \in Request
      PROVE  [req EXCEPT ![r] = Idle] \in [Request -> RequestState]
  BY <1>0, States
<1>3. ASSUME NEW a \in Account, PairGenerate(a) PROVE TypeOK'
  <2>1. PICK c \in Code :
            codes' = [codes EXCEPT ![c] = [owner |-> a, live |-> TRUE,
                                           gen |-> Len(gens) + 1]]
    BY <1>3 DEF PairGenerate
  <2>2. Len(gens) \in 0..MaxGen /\ Len(gens) + 1 \in 0..MaxGen
    BY <1>0, <1>3 DEF PairGenerate
  <2>3. [owner |-> a, live |-> TRUE, gen |-> Len(gens) + 1] \in CodeRow
    BY <2>2 DEF CodeRow
  <2>4. codes' \in [Code -> CodeRow]
    BY <1>0, <2>1, <2>3
  <2>5. gens' \in Seq(Account) /\ Len(gens') <= MaxGen
    BY <1>0, <1>3, <2>2, Grows DEF PairGenerate
  <2>6. QED
    BY <1>0, <1>3, <2>4, <2>5 DEF PairGenerate
<1>4. ASSUME NEW c \in Code, CodeExpires(c) PROVE TypeOK'
  <2>1. codes' \in [Code -> CodeRow]
    BY <1>0, <1>4 DEF CodeExpires, CodeRow
  <2>2. QED
    BY <1>0, <1>4, <2>1 DEF CodeExpires
<1>5. ASSUME NEW r \in Request, NEW c \in Code, Lookup(r, c) PROVE TypeOK'
  <2>1. [Idle EXCEPT !.pc = "burn", !.code = c, !.row = codes[c]] \in RequestState
    BY <1>0, States DEF RequestState, Pc
  <2>2. QED
    BY <1>0, <1>5, <2>1 DEF Lookup
<1>6. ASSUME NEW r \in Request, Burn(r) PROVE TypeOK'
  <2>1. codes' \in [Code -> CodeRow]
    BY <1>0, <1>6, States DEF Burn
  <2>2. QED
    BY <1>0, <1>1, <1>6, <2>1 DEF Burn, Goto, Pc
<1>7. ASSUME NEW r \in Request, ReadPrevious(r) PROVE TypeOK'
  <2>1. linked[Owner(r)] \in Token \cup {None}
    BY <1>0, <1>7, Owned DEF ReadPrevious, At, Token, Holding
  <2>2. [req[r] EXCEPT !.pc = "retire", !.token = linked[Owner(r)]] \in RequestState
    BY <1>0, <2>1 DEF RequestState, Pc
  <2>3. req' = [req EXCEPT ![r] = [req[r] EXCEPT !.pc = "retire",
                                                 !.token = linked[Owner(r)]]]
    BY <1>0, <1>7 DEF ReadPrevious
  <2>4. QED
    BY <1>0, <1>7, <2>2, <2>3 DEF ReadPrevious
<1>8. ASSUME NEW r \in Request, RetireRow(r) PROVE TypeOK'
  BY <1>0, <1>1, <1>8 DEF RetireRow, Goto, Pc
<1>9. ASSUME NEW r \in Request, RotateToken(r) PROVE TypeOK'
  <2>1. Owner(r) \in Account /\ req[r].row.gen \in 0..MaxGen
    BY <1>0, <1>9, Owned DEF RotateToken, At, Holding, RequestState, CodeRow
  <2>2. minted + 1 \in 1..MaxToken
    BY <1>0, <1>9 DEF RotateToken
  <2>3. linked' \in [Account -> 1..MaxToken \cup {None}]
    BY <1>0, <1>9, <2>2 DEF RotateToken, NewLinked
  <2>4. from' \in [1..MaxToken -> 0..MaxGen]
    BY <1>0, <1>9, <2>1 DEF RotateToken
  <2>5. retired' \subseteq 1..MaxToken
    BY <1>0, <1>9, <2>1 DEF RotateToken
  <2>6. [req[r] EXCEPT !.pc = "register", !.token = minted + 1] \in RequestState
    <3>1. req[r] \in RequestState /\ minted + 1 \in Token /\ "register" \in Pc
      BY <1>0, <2>2 DEF Pc, Token
    <3>2. QED
      BY <3>1 DEF RequestState
  <2>7. req' = [req EXCEPT ![r] = [req[r] EXCEPT !.pc = "register", !.token = minted + 1]]
    BY <1>0, <1>9 DEF RotateToken
  <2>8. QED
    BY <1>0, <1>9, <2>2, <2>3, <2>4, <2>5, <2>6, <2>7 DEF RotateToken
<1>10. ASSUME NEW t \in Token, NEW a \in Account, Upsert(t, a)
       PROVE  devices' \subseteq [token : Token, owner : Account]
  BY <1>0, <1>10 DEF Upsert
<1>11. ASSUME NEW r \in Request, RegisterPhone(r) PROVE TypeOK'
  <2>1. RequestOK(r) /\ Owner(r) \in Account
    BY <1>11, Owned DEF PairingInv, RegisterPhone, At, Holding
  <2>2. req[r].token \in Token
    BY <1>0, <1>11, <2>1 DEF RequestOK, RegisterPhone, At, Token
  <2>3. QED
    BY <1>0, <1>1, <1>10, <1>11, <2>1, <2>2 DEF RegisterPhone, Goto, Pc
<1>12. ASSUME NEW r \in Request, ReplyToken(r) PROVE TypeOK'
  <2>1. RequestOK(r)
    BY DEF PairingInv
  <2>2. req[r].token \in 1..MaxToken
    BY <1>0, <1>12, <2>1 DEF RequestOK, ReplyToken, At
  <2>3. handed' \subseteq 1..MaxToken
    BY <1>0, <1>12, <2>2 DEF ReplyToken
  <2>4. QED
    BY <1>0, <1>2, <1>12, <2>3 DEF ReplyToken, Finish
<1>13. ASSUME NEW r \in Request, Authenticate(r) PROVE TypeOK'
  <2>1. PICK a \in Account, t \in Account \cup handed :
            req' = [req EXCEPT ![r] = [Idle EXCEPT !.pc = "touch", !.token = t,
                                                   !.row = [NoRow EXCEPT !.owner = a]]]
    BY <1>13 DEF Authenticate
  <2>2. [NoRow EXCEPT !.owner = a] \in CodeRow
    BY States DEF CodeRow
  <2>3. t \in Token
    BY <1>0 DEF Token
  <2>4. [Idle EXCEPT !.pc = "touch", !.token = t,
                     !.row = [NoRow EXCEPT !.owner = a]] \in RequestState
    BY <2>2, <2>3, States DEF RequestState, Pc
  <2>5. QED
    BY <1>0, <1>13, <2>1, <2>4 DEF Authenticate
<1>14. ASSUME NEW r \in Request, TouchDevice(r) PROVE TypeOK'
  <2>1. RequestOK(r)
    BY DEF PairingInv
  <2>2. Owner(r) \in Account /\ req[r].token \in Token
    BY <1>0, <1>14, <2>1 DEF RequestOK, TouchDevice, At, Granted, Token
  <2>3. QED
    BY <1>0, <1>2, <1>10, <1>14, <2>2 DEF TouchDevice, Finish
<1>15. ASSUME NEW r \in Request, Fail(r) PROVE TypeOK'
  BY <1>0, <1>2, <1>15 DEF Fail, Finish
<1>16. CASE UNCHANGED vars
  BY <1>0, <1>16 DEF vars
<1>17. QED
  BY <1>3, <1>4, <1>5, <1>6, <1>7, <1>8, <1>9, <1>11, <1>12, <1>13, <1>14, <1>15, <1>16
     DEF Next

-----------------------------------------------------------------------------
(* What no step takes back.                                                *)

\* Codes that were generated and tokens that were minted stay so, a code changes only
\* to "no row" or to a new generation, and a linked token that is replaced is retired.
Keeps ==
    /\ Len(gens') >= Len(gens)
    /\ \A i \in 1..Len(gens) : gens'[i] = gens[i]
    /\ minted' >= minted
    /\ \A t \in 1..minted : from'[t] = from[t]
    /\ \A c \in Code : codes'[c].gen \in {codes[c].gen, 0, Len(gens) + 1}
    /\ retired \subseteq retired'
    /\ \A a \in Account : linked[a] \in {linked'[a], None} \cup retired'

LEMMA StepKeeps == PairingInv /\ [Next]_vars => Keeps
<1> SUFFICES ASSUME PairingInv, [Next]_vars PROVE Keeps
  OBVIOUS
<1> USE BoundAssumption
<1>0. TypeOK
  BY DEF PairingInv
<1> USE DEF TypeOK
<1>1. ASSUME UNCHANGED <<gens, minted, from, retired, linked>>,
             \A c \in Code : codes'[c].gen \in {codes[c].gen, 0}
      PROVE  Keeps
  BY <1>0, <1>1 DEF Keeps
<1>2. ASSUME NEW a \in Account, PairGenerate(a) PROVE Keeps
  BY <1>0, <1>2, Grows DEF PairGenerate, Keeps
<1>3. ASSUME NEW c \in Code, CodeExpires(c) PROVE Keeps
  BY <1>0, <1>1, <1>3 DEF CodeExpires, CodeRow
<1>4. ASSUME NEW r \in Request, Burn(r) PROVE Keeps
  BY <1>0, <1>1, <1>4, States DEF Burn
<1>5. ASSUME NEW r \in Request, RotateToken(r) PROVE Keeps
  <2>1. Owner(r) \in Account
    BY <1>5, Owned DEF RotateToken, At, Holding
  <2>2. \A a \in Account : linked[a] \in {linked'[a], None} \cup retired'
    BY <1>0, <1>5, <2>1 DEF RotateToken, NewLinked
  <2>3. QED
    BY <1>0, <1>5, <2>2 DEF RotateToken, Keeps
<1>6. ASSUME UNCHANGED <<codes, gens, minted, from, retired, linked>> PROVE Keeps
  BY <1>1, <1>6
<1>7. QED
  BY <1>2, <1>3, <1>4, <1>5, <1>6
     DEF Next, vars, Lookup, ReadPrevious, RetireRow, RegisterPhone, ReplyToken,
         Authenticate, TouchDevice, Fail

\* A token stays granted to its account.
LEMMA StaysGranted ==
    ASSUME PairingInv, Keeps, TypeOK', NEW t, NEW a, Granted(t, a)
    PROVE  Granted(t, a)'
<1>1. TypeOK /\ TokensMinted
  BY DEF PairingInv
<1>2. CASE t = a
  BY <1>2 DEF Granted
<1>3. CASE t \in 1..minted /\ gens[from[t]] = a
  <2>1. from[t] \in 1..Len(gens)
    BY <1>1, <1>3 DEF TokensMinted
  <2>2. from'[t] = from[t] /\ gens'[from[t]] = gens[from[t]]
    BY <1>3, <2>1 DEF Keeps
  <2>3. t \in 1..minted'
    BY <1>1, <1>3, BoundAssumption DEF Keeps, TypeOK
  <2>4. QED
    BY <1>3, <2>2, <2>3 DEF Granted
<1>4. QED
  BY <1>2, <1>3 DEF Granted

\* What a request holds stays right while others act.
LEMMA StaysOK ==
    ASSUME PairingInv, Keeps, TypeOK', NEW r \in Request, req'[r] = req[r]
    PROVE  RequestOK(r)'
<1>1. TypeOK /\ TokensMinted /\ RequestOK(r)
  BY DEF PairingInv
<1>2. Owner(r)' = Owner(r)
  BY DEF Owner
<1>3. ASSUME req[r].pc \in Holding
      PROVE  /\ req[r].row.gen \in 1..Len(gens')
             /\ gens'[req[r].row.gen] = Owner(r)
             /\ \A c \in Code : codes'[c].gen = req[r].row.gen
                                => codes[c].gen = req[r].row.gen
  <2>1. req[r].row.gen \in 1..Len(gens) /\ gens[req[r].row.gen] = Owner(r)
    BY <1>3, Owned
  <2>2. Len(gens) \in Nat /\ Len(gens') \in Nat
    BY <1>1 DEF TypeOK
  <2>3. gens'[req[r].row.gen] = Owner(r) /\ req[r].row.gen \in 1..Len(gens')
    BY <2>1, <2>2 DEF Keeps
  <2>4. \A c \in Code : codes'[c].gen \in {codes[c].gen, 0, Len(gens) + 1}
    BY DEF Keeps
  <2>5. QED
    BY <2>1, <2>2, <2>3, <2>4
<1>4. ASSUME req[r].pc \in {"register", "reply"}
      PROVE  /\ req[r].token \in 1..minted'
             /\ from'[req[r].token] = req[r].row.gen
             /\ req[r].token \in retired' \/ linked'[Owner(r)] = req[r].token
  <2>1. Owner(r) \in Account
    BY <1>4, Owned DEF Holding
  <2>2. req[r].token # None
    BY <1>1, <1>4, NoneAssumption, BoundAssumption DEF RequestOK, TypeOK
  <2>3. /\ req[r].token \in 1..minted /\ from[req[r].token] = req[r].row.gen
        /\ req[r].token \in retired \/ linked[Owner(r)] = req[r].token
    BY <1>1, <1>4 DEF RequestOK
  <2>4. req[r].token \in 1..minted' /\ from'[req[r].token] = req[r].row.gen
    BY <1>1, <2>3, BoundAssumption DEF Keeps, TypeOK
  <2>5. req[r].token \in retired' \/ linked'[Owner(r)] = req[r].token
    BY <2>1, <2>2, <2>3 DEF Keeps
  <2>6. QED
    BY <2>4, <2>5
<1>5. ASSUME req[r].pc = "touch" PROVE Granted(req[r].token, Owner(r))'
  <2> DEFINE t == req[r].token
             a == Owner(r)
  <2>1. Granted(t, a)
    BY <1>1, <1>5 DEF RequestOK
  <2>2. PICK u, b : u = t /\ b = a
    OBVIOUS
  <2>3. Granted(u, b)'
    BY <2>1, <2>2, StaysGranted
  <2>4. QED
    BY <1>2, <2>2, <2>3 DEF Granted
<1>6. QED
  BY <1>1, <1>2, <1>3, <1>4, <1>5 DEF RequestOK, Burnt

-----------------------------------------------------------------------------
(* The parts of PairingInv, one by one.                                    *)

LEMMA CodesStep == PairingInv /\ [Next]_vars => CodesOwned'
<1> SUFFICES ASSUME PairingInv, [Next]_vars PROVE CodesOwned'
  OBVIOUS
<1>0. TypeOK /\ CodesOwned /\ TypeOK' /\ Keeps
  BY TypeStep, StepKeeps DEF PairingInv
<1>1. ASSUME \A c \in Code :
                \/ codes'[c].gen = 0 /\ ~codes'[c].live
                \/ /\ codes'[c].gen = codes[c].gen /\ codes'[c].owner = codes[c].owner
                   /\ codes'[c].live => codes[c].live,
             gens' = gens
      PROVE  CodesOwned'
  BY <1>0, <1>1 DEF CodesOwned
<1>2. ASSUME NEW a \in Account, PairGenerate(a) PROVE CodesOwned'
  <2>1. PICK d \in Code :
            /\ codes[d].gen = 0
            /\ codes' = [codes EXCEPT ![d] = [owner |-> a, live |-> TRUE,
                                              gen |-> Len(gens) + 1]]
    BY <1>2 DEF PairGenerate
  <2>2. /\ Len(gens) \in Nat /\ Len(gens') = Len(gens) + 1
        /\ gens'[Len(gens) + 1] = a
        /\ \A i \in 1..Len(gens) : gens'[i] = gens[i]
    BY <1>0, <1>2, Grows DEF PairGenerate, TypeOK
  <2>3. codes'[d].gen = Len(gens) + 1 /\ codes'[d].owner = a
    BY <1>0, <2>1 DEF TypeOK
  <2>4. \A c \in Code \ {d} : codes'[c] = codes[c]
    BY <1>0, <2>1 DEF TypeOK
  <2>5. \A c \in Code \ {d} : codes[c].gen # 0 => codes[c].gen \in 1..Len(gens)
    BY <1>0 DEF CodesOwned
  <2>6. \A c \in Code \ {d} : codes'[c].gen # Len(gens) + 1
    BY <2>2, <2>4, <2>5
  <2>7. \A c \in Code : codes'[c].live => codes'[c].gen # 0
    BY <1>0, <2>2, <2>3, <2>4 DEF CodesOwned
  <2>8. ASSUME NEW c \in Code \ {d}, codes'[c].gen # 0
        PROVE  /\ codes'[c].gen \in 1..Len(gens')
               /\ gens'[codes'[c].gen] = codes'[c].owner
               /\ \A e \in Code : codes'[e].gen = codes'[c].gen => e = c
    BY <1>0, <2>2, <2>3, <2>4, <2>6, <2>8 DEF CodesOwned
  <2>9. QED
    BY <2>2, <2>3, <2>6, <2>7, <2>8 DEF CodesOwned
<1>3. ASSUME NEW c \in Code, CodeExpires(c) PROVE CodesOwned'
  <2>1. \A e \in Code : /\ codes'[e].gen = codes[e].gen /\ codes'[e].owner = codes[e].owner
                         /\ codes'[e].live => codes[e].live
    BY <1>0, <1>3 DEF CodeExpires, TypeOK, CodeRow
  <2>2. QED
    BY <1>1, <1>3, <2>1 DEF CodeExpires
<1>4. ASSUME NEW r \in Request, Burn(r) PROVE CodesOwned'
  <2>1. \A e \in Code : codes'[e] \in {codes[e], NoRow}
    BY <1>0, <1>4 DEF Burn, TypeOK
  <2>2. QED
    BY <1>1, <1>4, <2>1, States DEF Burn
<1>5. ASSUME UNCHANGED <<codes, gens>> PROVE CodesOwned'
  BY <1>1, <1>5
<1>6. QED
  BY <1>2, <1>3, <1>4, <1>5
     DEF Next, vars, Lookup, ReadPrevious, RetireRow, RotateToken, RegisterPhone,
         ReplyToken, Authenticate, TouchDevice, Fail

LEMMA TokensStep == PairingInv /\ [Next]_vars => TokensMinted'
<1> SUFFICES ASSUME PairingInv, [Next]_vars PROVE TokensMinted'
  OBVIOUS
<1> USE BoundAssumption
<1>0. TypeOK /\ TokensMinted /\ TypeOK' /\ Keeps
  BY TypeStep, StepKeeps DEF PairingInv
<1>1. /\ Len(gens) \in Nat /\ Len(gens') \in Nat /\ Len(gens) <= Len(gens')
      /\ minted \in Nat /\ minted' \in Nat /\ minted <= minted'
  BY <1>0 DEF TypeOK, Keeps
<1>2. \A t \in 1..minted : from'[t] \in 1..Len(gens')
  BY <1>0, <1>1 DEF TokensMinted, Keeps
<1>3. ASSUME NEW r \in Request, RotateToken(r) PROVE TokensMinted'
  <2>1. Owner(r) \in Account /\ req[r].row.gen \in 1..Len(gens)
    BY <1>3, Owned DEF RotateToken, At, Holding
  <2>2. /\ minted' = minted + 1 /\ from'[minted + 1] = req[r].row.gen
        /\ \A a \in Account : linked'[a] \in {linked[a], minted + 1}
        /\ handed' = handed
    BY <1>0, <1>3 DEF RotateToken, NewLinked, TypeOK
  <2>3. retired' \subseteq 1..minted
    BY <1>0, <1>3, <2>1 DEF RotateToken, TokensMinted
  <2>4. \A t \in 1..minted' : from'[t] \in 1..Len(gens')
    BY <1>1, <1>2, <2>1, <2>2
  <2>5. \A a \in Account : linked'[a] # None => linked'[a] \in 1..minted'
    BY <1>0, <1>1, <2>2 DEF TokensMinted
  <2>6. handed' \subseteq 1..minted' /\ retired' \subseteq 1..minted'
    BY <1>0, <1>1, <2>2, <2>3 DEF TokensMinted
  <2>7. QED
    BY <2>4, <2>5, <2>6 DEF TokensMinted
<1>4. ASSUME NEW r \in Request, ReplyToken(r) PROVE TokensMinted'
  <2>1. req[r].token \in 1..minted
    BY <1>4 DEF PairingInv, RequestOK, ReplyToken, At
  <2>2. QED
    BY <1>0, <1>4, <2>1 DEF TokensMinted, ReplyToken
<1>5. ASSUME UNCHANGED <<minted, linked, handed, retired>> PROVE TokensMinted'
  BY <1>0, <1>1, <1>2, <1>5 DEF TokensMinted
<1>6. QED
  BY <1>3, <1>4, <1>5
     DEF Next, vars, PairGenerate, CodeExpires, Lookup, Burn, ReadPrevious, RetireRow,
         RegisterPhone, Authenticate, TouchDevice, Fail

LEMMA GoneStep == PairingInv /\ [Next]_vars => MintedCodeGone'
<1> SUFFICES ASSUME PairingInv, [Next]_vars,
                    NEW c \in Code, NEW t \in 1..minted'
             PROVE  codes'[c].gen # from'[t]
  BY DEF MintedCodeGone
<1> USE BoundAssumption
<1>0. TypeOK /\ TokensMinted /\ MintedCodeGone /\ TokensMinted' /\ TypeOK' /\ Keeps
  BY TypeStep, TokensStep, StepKeeps DEF PairingInv
<1>1. Len(gens) \in Nat /\ minted \in Nat
  BY <1>0 DEF TypeOK
<1>2. from'[t] # 0
  BY <1>0 DEF TokensMinted, TypeOK
<1>3. CASE t \in 1..minted
  <2>1. from'[t] = from[t] /\ from[t] \in 1..Len(gens) /\ codes[c].gen # from[t]
    BY <1>0, <1>3 DEF Keeps, TokensMinted, MintedCodeGone
  <2>2. codes'[c].gen \in {codes[c].gen, 0, Len(gens) + 1}
    BY <1>0 DEF Keeps
  <2>3. QED
    BY <1>1, <1>2, <2>1, <2>2
<1>4. ASSUME NEW r \in Request, RotateToken(r), t = minted + 1
      PROVE  codes'[c].gen # from'[t]
  <2>1. codes[c].gen # req[r].row.gen
    BY <1>4 DEF PairingInv, RequestOK, RotateToken, At, Burnt, Holding
  <2>2. codes' = codes /\ from'[t] = req[r].row.gen
    BY <1>0, <1>4 DEF RotateToken, TypeOK
  <2>3. QED
    BY <2>1, <2>2
<1>5. CASE minted' = minted
  BY <1>3, <1>5
<1>6. QED
  <2>1. ASSUME NEW r \in Request, RotateToken(r) PROVE t \in 1..minted \/ t = minted + 1
    BY <1>1, <2>1 DEF RotateToken
  <2>2. QED
    BY <1>3, <1>4, <1>5, <2>1
       DEF Next, vars, PairGenerate, CodeExpires, Lookup, Burn, ReadPrevious, RetireRow,
           RegisterPhone, ReplyToken, Authenticate, TouchDevice, Fail

LEMMA GrantedStep == PairingInv /\ [Next]_vars => GrantedByOwner'
<1> SUFFICES ASSUME PairingInv, [Next]_vars PROVE GrantedByOwner'
  OBVIOUS
<1>0. TypeOK /\ GrantedByOwner /\ TypeOK' /\ TokensMinted' /\ Keeps
  BY TypeStep, TokensStep, StepKeeps DEF PairingInv
<1>1. ASSUME NEW a \in Account, linked'[a] # None,
             linked'[a] = linked[a] \/ Granted(linked[a], a)'
      PROVE  Granted(linked[a], a)'
  <2>1. CASE linked'[a] = linked[a]
    <3>1. PICK t : t = linked[a]
      OBVIOUS
    <3>2. Granted(t, a)
      BY <1>0, <1>1, <2>1, <3>1 DEF GrantedByOwner
    <3>3. Granted(t, a)'
      BY <1>0, <3>2, StaysGranted
    <3>4. t = linked'[a]
      BY <2>1, <3>1
    <3>5. QED
      BY <3>3, <3>4 DEF Granted
  <2>2. QED
    BY <1>1, <2>1
<1>2. ASSUME NEW d \in devices PROVE Granted(d.token, d.owner)'
  <2>1. Granted(d.token, d.owner)
    BY <1>0 DEF GrantedByOwner
  <2>2. QED
    BY <1>0, <2>1, StaysGranted
<1>3. ASSUME NEW t, NEW a, Granted(t, a), Upsert(t, a), linked' = linked
      PROVE  GrantedByOwner'
  <2>1. Granted(t, a)'
    BY <1>0, <1>3, StaysGranted
  <2>2. ASSUME NEW d \in devices' PROVE Granted(d.token, d.owner)'
    BY <1>2, <1>3, <2>1 DEF Upsert
  <2>3. QED
    BY <1>1, <1>3, <2>2 DEF GrantedByOwner
<1>4. ASSUME NEW r \in Request, RotateToken(r) PROVE GrantedByOwner'
  <2>1. Owner(r) \in Account /\ req[r].row.gen \in 1..Len(gens)
        /\ gens[req[r].row.gen] = Owner(r)
    BY <1>4, Owned DEF RotateToken, At, Holding
  <2>2. /\ minted' = minted + 1 /\ from'[minted + 1] = req[r].row.gen
        /\ \A a \in Account \ {Owner(r)} : linked'[a] = linked[a]
        /\ linked'[Owner(r)] = minted + 1 /\ gens' = gens /\ devices' = devices
        /\ minted \in Nat
    BY <1>0, <1>4, <2>1, BoundAssumption DEF RotateToken, NewLinked, TypeOK
  <2>3. PICK a \in Account : a = Owner(r)
    BY <2>1
  <2>4. Granted(linked[a], a)'
    BY <2>1, <2>2, <2>3 DEF Granted
  <2>5. QED
    BY <1>1, <1>2, <2>2, <2>3, <2>4 DEF GrantedByOwner
<1>5. ASSUME NEW r \in Request, RegisterPhone(r) PROVE GrantedByOwner'
  <2>1. RequestOK(r) /\ Owner(r) \in Account /\ gens[req[r].row.gen] = Owner(r)
    BY <1>5, Owned DEF PairingInv, RegisterPhone, At, Holding
  <2>2. Granted(req[r].token, Owner(r))
    BY <1>5, <2>1 DEF RequestOK, RegisterPhone, At, Granted
  <2>3. PICK t, a : t = req[r].token /\ a = Owner(r)
    OBVIOUS
  <2>4. QED
    BY <1>3, <1>5, <2>2, <2>3 DEF RegisterPhone
<1>6. ASSUME NEW r \in Request, TouchDevice(r) PROVE GrantedByOwner'
  <2>1. Granted(req[r].token, Owner(r))
    BY <1>6 DEF PairingInv, RequestOK, TouchDevice, At
  <2>2. PICK t, a : t = req[r].token /\ a = Owner(r)
    OBVIOUS
  <2>3. QED
    BY <1>3, <1>6, <2>1, <2>2 DEF TouchDevice
<1>7. ASSUME devices' \subseteq devices, linked' = linked PROVE GrantedByOwner'
  BY <1>1, <1>2, <1>7 DEF GrantedByOwner
<1>8. ASSUME NEW r \in Request, RetireRow(r) PROVE GrantedByOwner'
  BY <1>7, <1>8 DEF RetireRow
<1>9. QED
  BY <1>4, <1>5, <1>6, <1>7, <1>8
     DEF Next, vars, PairGenerate, CodeExpires, Lookup, Burn, ReadPrevious, ReplyToken,
         Authenticate, Fail

LEMMA RetiredStep == PairingInv /\ [Next]_vars => RetiredStaysOut'
<1> SUFFICES ASSUME PairingInv, [Next]_vars PROVE RetiredStaysOut'
  OBVIOUS
<1> USE BoundAssumption
<1>0. TypeOK /\ TokensMinted /\ GrantedByOwner /\ RetiredStaysOut
  BY DEF PairingInv
<1>1. ASSUME NEW r \in Request, RotateToken(r) PROVE RetiredStaysOut'
  <2>1. Owner(r) \in Account
    BY <1>1, Owned DEF RotateToken, At, Holding
  <2>2. /\ \A a \in Account \ {Owner(r)} : linked'[a] = linked[a]
        /\ linked'[Owner(r)] = minted + 1
        /\ retired' = retired \cup ({linked[Owner(r)]} \ {None})
        /\ minted \in Nat
    BY <1>0, <1>1, <2>1 DEF RotateToken, NewLinked, TypeOK
  <2>3. retired' \subseteq 1..minted
    BY <1>0, <2>1, <2>2 DEF TokensMinted
  <2>4. minted + 1 \notin retired'
    BY <2>2, <2>3
  <2>5. ASSUME NEW a \in Account \ {Owner(r)}, linked[a] = linked[Owner(r)],
               linked[a] # None
        PROVE  FALSE
    <3>1. linked[a] \in Nat
      BY <1>0, <2>5 DEF TokensMinted
    <3>2. linked[a] # a /\ linked[a] # Owner(r)
      BY <3>1, <2>1, AccountAssumption
    <3>3. gens[from[linked[a]]] = a /\ gens[from[linked[a]]] = Owner(r)
      BY <1>0, <2>1, <2>5, <3>2 DEF GrantedByOwner, Granted
    <3>4. QED
      BY <2>5, <3>3
  <2>6. ASSUME NEW a \in Account \ {Owner(r)} PROVE linked'[a] \notin retired'
    <3>1. linked'[a] = linked[a] /\ linked[a] \notin retired
      BY <1>0, <2>2 DEF RetiredStaysOut
    <3>2. linked[a] \in {linked[Owner(r)]} \ {None} => FALSE
      BY <2>5
    <3>3. QED
      BY <2>2, <3>1, <3>2
  <2>7. linked'[Owner(r)] \notin retired'
    BY <2>2, <2>4
  <2>8. QED
    BY <2>6, <2>7 DEF RetiredStaysOut
<1>2. ASSUME UNCHANGED <<linked, retired>> PROVE RetiredStaysOut'
  BY <1>0, <1>2 DEF RetiredStaysOut
<1>3. QED
  BY <1>1, <1>2
     DEF Next, vars, PairGenerate, CodeExpires, Lookup, Burn, ReadPrevious, RetireRow,
         RegisterPhone, ReplyToken, Authenticate, TouchDevice, Fail

LEMMA HandedStep == PairingInv /\ [Next]_vars => HandedWorks'
<1> SUFFICES ASSUME PairingInv, [Next]_vars PROVE HandedWorks'
  OBVIOUS
<1>0. TypeOK /\ TokensMinted /\ HandedWorks /\ Keeps
  BY StepKeeps DEF PairingInv
<1>1. ASSUME NEW t \in handed PROVE t \in retired' \/ \E a \in Account : linked'[a] = t
  <2>1. t # None
    BY <1>0, NoneAssumption DEF TypeOK
  <2>2. QED
    BY <1>0, <2>1 DEF HandedWorks, Keeps
<1>2. ASSUME NEW r \in Request, ReplyToken(r) PROVE HandedWorks'
  <2>1. RequestOK(r) /\ Owner(r) \in Account
    BY <1>2, Owned DEF PairingInv, ReplyToken, At, Holding
  <2>2. req[r].token \in retired \/ linked[Owner(r)] = req[r].token
    BY <1>2, <2>1 DEF RequestOK, ReplyToken, At
  <2>3. QED
    BY <1>1, <1>2, <2>1, <2>2 DEF HandedWorks, ReplyToken
<1>3. ASSUME handed' = handed PROVE HandedWorks'
  BY <1>1, <1>3 DEF HandedWorks
<1>4. QED
  BY <1>2, <1>3
     DEF Next, vars, PairGenerate, CodeExpires, Lookup, Burn, ReadPrevious, RetireRow,
         RotateToken, RegisterPhone, Authenticate, TouchDevice, Fail

\* The request that acts holds what it must.
LEMMA RequestsStep == PairingInv /\ [Next]_vars => \A q \in Request : RequestOK(q)'
<1> SUFFICES ASSUME PairingInv, [Next]_vars, NEW q \in Request PROVE RequestOK(q)'
  OBVIOUS
<1> USE BoundAssumption
<1>0. /\ TypeOK /\ TokensMinted /\ CodesOwned /\ MintedCodeGone /\ GrantedByOwner
      /\ RequestOK(q) /\ TypeOK' /\ CodesOwned' /\ Keeps
  BY TypeStep, CodesStep, StepKeeps DEF PairingInv
<1>1. CASE req'[q] = req[q]
  BY <1>0, <1>1, StaysOK
<1>2. ASSUME req'[q] = Idle PROVE RequestOK(q)'
  BY <1>2, States DEF RequestOK, Holding, Burnt
<1>3. ASSUME NEW c \in Code, Lookup(q, c) PROVE RequestOK(q)'
  <2>1. req'[q] = [Idle EXCEPT !.pc = "burn", !.code = c, !.row = codes[c]]
    BY <1>0, <1>3 DEF Lookup, TypeOK
  <2>2. /\ req'[q].pc = "burn" /\ req'[q].code = c /\ req'[q].row = codes[c]
        /\ codes' = codes /\ gens' = gens
    <3>1. /\ req'[q].pc = "burn" /\ req'[q].code = c /\ req'[q].row = codes[c]
      BY <2>1 DEF Idle
    <3>2. codes' = codes /\ gens' = gens
      BY <1>3 DEF Lookup
    <3>3. QED
      BY <3>1, <3>2
  <2>3. codes[c].gen # 0
    BY <1>0, <1>3 DEF Lookup, CodesOwned
  <2>4. QED
    BY <1>0, <2>2, <2>3 DEF CodesOwned, RequestOK, Holding, Burnt, Owner
<1>4. ASSUME Burn(q) PROVE RequestOK(q)'
  <2>1. /\ req[q].pc = "burn" /\ req[q].code \in Code /\ req[q].row.gen \in 1..Len(gens)
        /\ gens[req[q].row.gen] = Owner(q)
        /\ \A c \in Code : codes[c].gen = req[q].row.gen => c = req[q].code
    BY <1>0, <1>4 DEF RequestOK, Burn, At, Holding
  <2>2. /\ req'[q].pc = "previous" /\ req'[q].row = req[q].row /\ req'[q].code = req[q].code
        /\ gens' = gens
    BY <1>0, <1>4 DEF Burn, Goto, TypeOK, RequestState
  <2>3. \A c \in Code : codes'[c] = IF c = req[q].code THEN NoRow ELSE codes[c]
    BY <1>0, <1>4 DEF Burn, TypeOK
  <2>4. \A c \in Code : codes'[c].gen # req[q].row.gen
    BY <2>1, <2>3, States
  <2>5. QED
    BY <2>1, <2>2, <2>4 DEF RequestOK, Holding, Burnt, Owner
<1>5. ASSUME req[q].pc \in {"previous", "retire"}, req'[q].pc \in {"retire", "rotate"},
             req'[q].row = req[q].row, req'[q].code = req[q].code,
             UNCHANGED <<codes, gens>>
      PROVE  RequestOK(q)'
  BY <1>0, <1>5 DEF RequestOK, Holding, Burnt, Owner
<1>6. ASSUME ReadPrevious(q) PROVE RequestOK(q)'
  BY <1>0, <1>5, <1>6 DEF ReadPrevious, At, TypeOK, RequestState
<1>7. ASSUME RetireRow(q) PROVE RequestOK(q)'
  BY <1>0, <1>5, <1>7 DEF RetireRow, At, Goto, TypeOK, RequestState
<1>8. ASSUME RotateToken(q) PROVE RequestOK(q)'
  <2>1. /\ req[q].pc = "rotate" /\ Owner(q) \in Account
        /\ req[q].row.gen \in 1..Len(gens) /\ gens[req[q].row.gen] = Owner(q)
        /\ req[q].code \in Code
        /\ \A c \in Code : codes[c].gen # req[q].row.gen
    BY <1>0, <1>8, Owned DEF RequestOK, RotateToken, At, Holding, Burnt
  <2>2. /\ req'[q].pc = "register" /\ req'[q].token = minted + 1
        /\ req'[q].row = req[q].row /\ req'[q].code = req[q].code
    BY <1>0, <1>8 DEF RotateToken, TypeOK, RequestState
  <2>3. /\ minted' = minted + 1 /\ minted \in Nat /\ from'[minted + 1] = req[q].row.gen
        /\ linked'[Owner(q)] = minted + 1 /\ codes' = codes /\ gens' = gens
    BY <1>0, <1>8, <2>1 DEF RotateToken, NewLinked, TypeOK
  <2>4. QED
    BY <2>1, <2>2, <2>3 DEF RequestOK, Holding, Burnt, Owner
<1>9. ASSUME RegisterPhone(q) PROVE RequestOK(q)'
  <2>1. /\ req[q].pc = "register" /\ req'[q].pc = "reply"
        /\ req'[q].row = req[q].row /\ req'[q].code = req[q].code
        /\ req'[q].token = req[q].token
        /\ UNCHANGED <<codes, gens, linked, minted, from, retired>>
    BY <1>0, <1>9 DEF RegisterPhone, At, Goto, TypeOK, RequestState
  <2>2. QED
    BY <1>0, <2>1 DEF RequestOK, Holding, Burnt, Owner
<1>10. ASSUME Authenticate(q) PROVE RequestOK(q)'
  <2>1. PICK a \in Account, t \in Account \cup handed :
            /\ t = a \/ linked[a] = t
            /\ req' = [req EXCEPT ![q] = [Idle EXCEPT !.pc = "touch", !.token = t,
                                                     !.row = [NoRow EXCEPT !.owner = a]]]
    BY <1>10 DEF Authenticate
  <2>2. req'[q].pc = "touch" /\ req'[q].token = t /\ req'[q].row.owner = a
    BY <1>0, <2>1 DEF TypeOK, Idle, NoRow
  <2>3. t # None
    <3>1. handed \subseteq 1..MaxToken
      BY DEF PairingInv, TypeOK
    <3>2. None \notin Account /\ None \notin Nat
      BY NoneAssumption
    <3>3. t \in handed => t \in Nat
      BY <3>1
    <3>4. t \in Account \/ t \in handed
      OBVIOUS
    <3>5. QED
      BY <3>2, <3>3, <3>4, Zenon
  <2>4. Granted(t, a)
    BY <1>0, <2>1, <2>3 DEF GrantedByOwner, Granted
  <2>5. Granted(t, a)'
    BY <1>0, <2>4, StaysGranted
  <2>6. QED
    BY <2>2, <2>5 DEF RequestOK, Holding, Burnt, Owner, Granted
<1>11. ASSUME NEW r \in Request, r # q PROVE
          \/ \E c \in Code : Lookup(r, c)
          \/ Burn(r) \/ ReadPrevious(r) \/ RetireRow(r) \/ RotateToken(r)
          \/ RegisterPhone(r) \/ ReplyToken(r) \/ Authenticate(r) \/ TouchDevice(r)
          \/ Fail(r)
          => req'[q] = req[q]
  BY <1>0, <1>11
     DEF TypeOK, Lookup, Burn, ReadPrevious, RetireRow, RotateToken, RegisterPhone,
         ReplyToken, Authenticate, TouchDevice, Fail, Goto, Finish
<1>12. ASSUME ReplyToken(q) \/ TouchDevice(q) \/ Fail(q) PROVE req'[q] = Idle
  BY <1>0, <1>12 DEF TypeOK, ReplyToken, TouchDevice, Fail, Finish
<1>13. ASSUME NEW r \in Request, r # q,
              \/ \E c \in Code : Lookup(r, c)
              \/ Burn(r) \/ ReadPrevious(r) \/ RetireRow(r) \/ RotateToken(r)
              \/ RegisterPhone(r) \/ ReplyToken(r) \/ Authenticate(r) \/ TouchDevice(r)
              \/ Fail(r)
       PROVE  RequestOK(q)'
  BY <1>1, <1>11, <1>13
<1>14. CASE req' = req
  BY <1>1, <1>14
<1>15. QED
  BY <1>2, <1>3, <1>4, <1>6, <1>7, <1>8, <1>9, <1>10, <1>12, <1>13, <1>14
     DEF Next, vars, PairGenerate, CodeExpires

-----------------------------------------------------------------------------
\* What links in flight hold of the tables, and the promises of pairing below, are
\* kept by every interleaving of links, polls, expiries and failures.
THEOREM PairingKept == Spec => []PairingInv
<1> USE BoundAssumption
<1>1. Init => PairingInv
  <2> SUFFICES ASSUME Init PROVE PairingInv
    OBVIOUS
  <2>1. /\ codes = [c \in Code |-> NoRow] /\ gens = <<>> /\ minted = 0
        /\ linked = [a \in Account |-> None]
        /\ devices = {[token |-> a, owner |-> a] : a \in Account}
        /\ from = [t \in 1..MaxToken |-> 0] /\ handed = {} /\ retired = {}
        /\ req = [r \in Request |-> Idle]
    BY DEF Init
  <2>2. TypeOK
    BY <2>1, States DEF TypeOK, Token
  <2>3. CodesOwned /\ TokensMinted /\ MintedCodeGone /\ HandedWorks /\ RetiredStaysOut
    BY <2>1, States DEF CodesOwned, TokensMinted, MintedCodeGone, HandedWorks,
                        RetiredStaysOut
  <2>4. GrantedByOwner
    BY <2>1 DEF GrantedByOwner, Granted
  <2>5. \A r \in Request : RequestOK(r)
    BY <2>1, States DEF RequestOK, Holding, Burnt
  <2>6. QED
    BY <2>2, <2>3, <2>4, <2>5 DEF PairingInv
<1>2. PairingInv /\ [Next]_vars => PairingInv'
  <2> SUFFICES ASSUME PairingInv, [Next]_vars PROVE PairingInv'
    OBVIOUS
  <2>1. TypeOK' /\ CodesOwned' /\ TokensMinted' /\ MintedCodeGone'
    BY TypeStep, CodesStep, TokensStep, GoneStep
  <2>2. GrantedByOwner' /\ RetiredStaysOut' /\ HandedWorks'
    BY GrantedStep, RetiredStep, HandedStep
  <2>3. \A r \in Request : RequestOK(r)'
    BY RequestsStep
  <2>4. QED
    BY <2>1, <2>2, <2>3 DEF PairingInv
<1>3. QED
  BY <1>1, <1>2, PTL DEF Spec

\* handlePairLink: no phone can present a code again once a token was minted for it,
\* also when the same six digits were handed out again.
THEOREM CodesSpent == Spec => []MintedCodeGone
<1>1. PairingInv => MintedCodeGone
  BY DEF PairingInv
<1>2. QED
  BY <1>1, PairingKept, PTL

\* handlePairLink, authUser: a linked token opens the account that generated the code it
\* was minted for, and no other; the device rows name that account.
THEOREM OwnersOnly == Spec => []GrantedByOwner
<1>1. PairingInv => GrantedByOwner
  BY DEF PairingInv
<1>2. QED
  BY <1>1, PairingKept, PTL

\* handlePairLink: pairing again locks the previous phone out for good, also when links
\* of one account overlap.
THEOREM Rotation == Spec => []RetiredStaysOut
<1>1. PairingInv => RetiredStaysOut
  BY DEF PairingInv
<1>2. QED
  BY <1>1, PairingKept, PTL

\* handlePairLink: nothing but a later pairing locks out a phone that got its token.
THEOREM PhonesStayIn == Spec => []HandedWorks
<1>1. PairingInv => HandedWorks
  BY DEF PairingInv
<1>2. QED
  BY <1>1, PairingKept, PTL
=============================================================================
