---------------------------- MODULE SignInProofs ----------------------------
(***************************************************************************)
(* Theorems about SignIn and RateLimits, for every set of clients and      *)
(* requests and every bound.  The inductive invariant of signing in ties   *)
(* what a request read before an await to the rows as they are when it     *)
(* goes on: the row it names still exists, every row but the latest is     *)
(* retired, a row that was accepted is spent, and the guesses on their way *)
(* count against the attempts of their code.  That of the limiter counts   *)
(* the requests of the open window whose statement was executed.           *)
(***************************************************************************)
EXTENDS SignIn, RateLimits, SequenceTheorems, FiniteSetTheorems, TLAPS

Account == [active : BOOLEAN, password : Nat \ {0}, version : 0..AccountChanges]
CodeRow == [attempts : Nat, consumed : BOOLEAN, expired : BOOLEAN, cooling : BOOLEAN]
TokenRow == [status : {"unused", "used", "deleted"}, expired : BOOLEAN]
Request == [pc : {"idle", "issuing", "wrong", "right", "consumed", "entering",
                  "comparing", "resetting", "hashing"},
            row : Nat, password : Nat, version : Nat]
Use == [what : {"code", "token"}, row : Nat, latest : Nat, attempts : Nat]
Session == [version : Nat, password : Nat]

TypeInv ==
  /\ account \in Account
  /\ codes \in Seq(CodeRow) /\ tokens \in Seq(TokenRow)
  /\ client \in [Clients -> Request]
  /\ uses \in Seq(Use) /\ sessions \in SUBSET Session

CodeInv ==
  /\ \A i \in 1..Len(codes) : i < Len(codes) => codes[i].consumed
  /\ \A c \in Clients : client[c].pc \in {"wrong", "right"} => client[c].row \in 1..Len(codes)
  /\ \A n \in 1..Len(uses) : uses[n].what = "code" =>
       uses[n].row \in 1..Len(codes) /\ codes[uses[n].row].consumed

TokenInv ==
  /\ \A i \in 1..Len(tokens) : i < Len(tokens) => tokens[i].status # "unused"
  /\ \A c \in Clients : client[c].pc = "hashing" => client[c].row \in 1..Len(tokens)
  /\ \A n \in 1..Len(uses) : uses[n].what = "token" =>
       uses[n].row \in 1..Len(tokens) /\ tokens[uses[n].row].status # "unused"

UseInv ==
  /\ \A m, n \in 1..Len(uses) : uses[m].what = uses[n].what /\ uses[m].row = uses[n].row => m = n
  /\ \A n \in 1..Len(uses) : uses[n].row = uses[n].latest /\ uses[n].attempts < OtpMaxAttempts

Stamp(version, password) ==
  /\ version <= account.version
  /\ version = account.version /\ password # NoPassword => password = account.password

VersionInv ==
  /\ \A s \in sessions : Stamp(s.version, s.password)
  /\ \A c \in Clients : client[c].pc = "comparing" => Stamp(client[c].version, client[c].password)

Guessing(i) == {c \in Clients : client[c].pc = "wrong" /\ client[c].row = i}

AttemptInv ==
  \A i \in 1..Len(codes) :
    codes[i].attempts + Cardinality(Guessing(i)) < OtpMaxAttempts + Cardinality(Clients)

IInv == TypeInv /\ CodeInv /\ TokenInv /\ UseInv /\ VersionInv /\ AttemptInv
-----------------------------------------------------------------------------
(* What `uses \o <<x>>` holds. *)
LEMMA OneMoreUse ==
  ASSUME NEW S, NEW s \in Seq(S), NEW x \in S
  PROVE  /\ s \o <<x>> \in Seq(S)
         /\ Len(s \o <<x>>) = Len(s) + 1
         /\ \A n \in 1..Len(s) : (s \o <<x>>)[n] = s[n]
         /\ (s \o <<x>>)[Len(s) + 1] = x
  OBVIOUS

(* Rows rewritten in place are a sequence of rows of the same length. *)
LEMMA RewriteType ==
  ASSUME NEW S, NEW n \in Nat, NEW g \in [1..n -> S]
  PROVE  g \in Seq(S) /\ Len(g) = n
  OBVIOUS

(* The clients are finitely many, and so are the guesses on their way. *)
LEMMA GuessingIsFinite ==
  ASSUME NEW i
  PROVE  /\ Cardinality(Clients) \in Nat /\ IsFiniteSet(Guessing(i))
         /\ Cardinality(Guessing(i)) \in Nat /\ Cardinality(Guessing(i)) <= Cardinality(Clients)
  <1>1. Guessing(i) \subseteq Clients BY DEF Guessing
  <1> QED BY <1>1, SignInAssumption, FS_Subset, FS_CardinalityType

(* A code that is retired. *)
LEMMA RetiredRow ==
  ASSUME NEW r \in CodeRow
  PROVE  LET s == [r EXCEPT !.consumed = TRUE, !.expired = FALSE, !.cooling = FALSE]
         IN s \in CodeRow /\ s.consumed /\ s.attempts = r.attempts
  BY DEF CodeRow

(* A token whose status changes. *)
LEMMA RestatedRow ==
  ASSUME NEW r \in TokenRow, NEW status \in {"unused", "used", "deleted"}
  PROVE  [r EXCEPT !.status = status] \in TokenRow /\ [r EXCEPT !.status = status].status = status
  BY DEF TokenRow

(* The codes after a new one was issued. *)
LEMMA IssuedCodes ==
  ASSUME codes \in Seq(CodeRow)
  PROVE  LET issued == Append(Retired, NewCode)
         IN /\ issued \in Seq(CodeRow) /\ Len(issued) = Len(codes) + 1
            /\ \A i \in 1..Len(codes) : issued[i].consumed /\ issued[i].attempts = codes[i].attempts
            /\ issued[Len(codes) + 1] = NewCode
  <1>1. DOMAIN codes = 1..Len(codes) /\ Len(codes) \in Nat OBVIOUS
  <1>2. \A i \in 1..Len(codes) : /\ Retired[i] \in CodeRow /\ Retired[i].consumed
                                 /\ Retired[i].attempts = codes[i].attempts
    <2> SUFFICES ASSUME NEW i \in 1..Len(codes)
                 PROVE  /\ Retired[i] \in CodeRow /\ Retired[i].consumed
                        /\ Retired[i].attempts = codes[i].attempts
      OBVIOUS
    <2>1. Retired[i] = [codes[i] EXCEPT !.consumed = TRUE, !.expired = FALSE, !.cooling = FALSE]
      BY <1>1 DEF Retired
    <2>2. codes[i] \in CodeRow BY ElementOfSeq
    <2> QED BY <2>1, RetiredRow, <2>2
  <1>3. Retired \in Seq(CodeRow) /\ Len(Retired) = Len(codes)
    <2>1. Retired = [i \in 1..Len(codes) |-> Retired[i]] BY <1>1 DEF Retired
    <2>2. Retired \in [1..Len(codes) -> CodeRow] BY <1>2, <2>1
    <2> QED BY <1>1, <2>2, RewriteType
  <1>4. NewCode \in CodeRow BY DEF NewCode, CodeRow
  <1> HIDE DEF Retired, NewCode, CodeRow
  <1> QED BY <1>1, <1>2, <1>3, <1>4, AppendProperties

(* The tokens after a new one was issued. *)
LEMMA IssuedTokens ==
  ASSUME tokens \in Seq(TokenRow), NEW c, IssueToken(c)
  PROVE  /\ tokens' \in Seq(TokenRow) /\ Len(tokens') = Len(tokens) + 1
         /\ \A i \in 1..Len(tokens) : tokens'[i].status # "unused"
  <1> DEFINE before == [i \in DOMAIN tokens |-> IF Usable(i) THEN [tokens[i] EXCEPT !.status = "deleted"] ELSE tokens[i]]
             new == [status |-> "unused", expired |-> FALSE]
  <1>1. DOMAIN tokens = 1..Len(tokens) /\ Len(tokens) \in Nat OBVIOUS
  <1>2. ASSUME NEW i \in 1..Len(tokens)
        PROVE  before[i] \in TokenRow /\ before[i].status # "unused"
    <2>1. tokens[i] \in TokenRow BY ElementOfSeq
    <2>2. CASE Usable(i) BY <1>1, <2>1, <2>2, RestatedRow
    <2>3. CASE ~Usable(i) BY <1>1, <2>1, <2>3 DEF Usable
    <2> QED BY <2>2, <2>3
  <1>3. before \in Seq(TokenRow) /\ Len(before) = Len(tokens)
    <2>1. before \in [1..Len(tokens) -> TokenRow] BY <1>1, <1>2
    <2> QED BY <1>1, <2>1, RewriteType
  <1>4. new \in TokenRow BY DEF TokenRow
  <1>5. tokens' = Append(before, new) BY DEF IssueToken
  <1> HIDE DEF before, new
  <1> QED BY <1>1, <1>2, <1>3, <1>4, <1>5, AppendProperties

(* The tokens after one of them was used. *)
LEMMA UsedTokens ==
  ASSUME tokens \in Seq(TokenRow), NEW r, UseToken(r)
  PROVE  /\ tokens' \in Seq(TokenRow) /\ Len(tokens') = Len(tokens)
         /\ \A i \in 1..Len(tokens) : tokens'[i].status # "unused"
  <1>1. DOMAIN tokens = 1..Len(tokens) /\ Len(tokens) \in Nat OBVIOUS
  <1>2. ASSUME NEW i \in 1..Len(tokens)
        PROVE  tokens'[i] \in TokenRow /\ tokens'[i].status # "unused"
    <2>1. tokens[i] \in TokenRow BY ElementOfSeq
    <2>2. tokens'[i] = [tokens[i] EXCEPT !.status = IF i = r THEN "used" ELSE "deleted"]
      BY <1>1 DEF UseToken
    <2> QED BY <2>1, <2>2, RestatedRow
  <1>3. tokens' \in [1..Len(tokens) -> TokenRow]
    <2>1. tokens' = [i \in 1..Len(tokens) |-> tokens'[i]] BY <1>1 DEF UseToken
    <2> QED BY <1>2, <2>1
  <1> QED BY <1>1, <1>2, <1>3, RewriteType

(* A code in which one row is rewritten. *)
LEMMA RewrittenCode ==
  ASSUME codes \in Seq(CodeRow), NEW i \in 1..Len(codes), NEW r \in CodeRow,
         codes' = [codes EXCEPT ![i] = r]
  PROVE  /\ codes' \in Seq(CodeRow) /\ Len(codes') = Len(codes)
         /\ codes'[i] = r
         /\ \A j \in 1..Len(codes) : j # i => codes'[j] = codes[j]
  <1>1. DOMAIN codes = 1..Len(codes) /\ Len(codes) \in Nat OBVIOUS
  <1> HIDE DEF CodeRow
  <1> QED BY <1>1, ExceptSeq

(* A wrong guess counts on its code and changes nothing else. *)
LEMMA CountedCode ==
  ASSUME TypeInv, CodeInv, NEW c \in Clients, CountWrongGuess(c)
  PROVE  LET i == client[c].row
         IN /\ i \in 1..Len(codes)
            /\ codes' \in Seq(CodeRow) /\ Len(codes') = Len(codes)
            /\ codes'[i].attempts = codes[i].attempts + 1 /\ codes'[i].consumed = codes[i].consumed
            /\ \A j \in 1..Len(codes) : j # i => codes'[j] = codes[j]
  <1> DEFINE i == client[c].row
             r == [codes[i] EXCEPT !.attempts = @ + 1]
  <1>1. i \in 1..Len(codes) BY DEF CodeInv, CountWrongGuess
  <1>2. codes[i] \in CodeRow BY <1>1, ElementOfSeq DEF TypeInv
  <1>3. r \in CodeRow /\ r.attempts = codes[i].attempts + 1 /\ r.consumed = codes[i].consumed
    BY <1>2 DEF CodeRow
  <1>4. codes' = [codes EXCEPT ![i] = r] BY DEF CountWrongGuess
  <1>5. codes \in Seq(CodeRow) BY DEF TypeInv
  <1> HIDE DEF i, r
  <1>6. QED BY <1>1, <1>3, <1>4, <1>5, RewrittenCode DEF i

(* A code that is burnt is consumed and keeps its attempts. *)
LEMMA BurntCode ==
  ASSUME TypeInv, NEW i \in 1..Len(codes), codes' = [codes EXCEPT ![i].consumed = TRUE]
  PROVE  /\ codes' \in Seq(CodeRow) /\ Len(codes') = Len(codes)
         /\ codes'[i].consumed /\ codes'[i].attempts = codes[i].attempts
         /\ \A j \in 1..Len(codes) : j # i => codes'[j] = codes[j]
  <1> DEFINE r == [codes[i] EXCEPT !.consumed = TRUE]
  <1>1. codes[i] \in CodeRow BY ElementOfSeq DEF TypeInv
  <1>2. r \in CodeRow /\ r.attempts = codes[i].attempts /\ r.consumed BY <1>1 DEF CodeRow
  <1>3. codes' = [codes EXCEPT ![i] = r] OBVIOUS
  <1>4. codes \in Seq(CodeRow) BY DEF TypeInv
  <1> HIDE DEF r
  <1>5. /\ codes' \in Seq(CodeRow) /\ Len(codes') = Len(codes) /\ codes'[i] = r
        /\ \A j \in 1..Len(codes) : j # i => codes'[j] = codes[j]
    BY <1>2, <1>3, <1>4, RewrittenCode, Zenon
  <1> QED BY <1>2, <1>5

(* Time retires no row and undoes no retirement. *)
LEMMA AgedRows ==
  ASSUME TypeInv, TimeGoesBy
  PROVE  /\ codes' \in Seq(CodeRow) /\ Len(codes') = Len(codes)
         /\ \A j \in 1..Len(codes) : /\ codes'[j].consumed = codes[j].consumed
                                     /\ codes'[j].attempts = codes[j].attempts
         /\ tokens' \in Seq(TokenRow) /\ Len(tokens') = Len(tokens)
         /\ \A j \in 1..Len(tokens) : tokens'[j].status = tokens[j].status
  <1>1. CASE codes # <<>> /\ UNCHANGED tokens /\ \E expired \in BOOLEAN :
             codes' = [codes EXCEPT ![Len(codes)].cooling = FALSE, ![Len(codes)].expired = @ \/ expired]
    <2>1. PICK expired \in BOOLEAN :
             codes' = [codes EXCEPT ![Len(codes)].cooling = FALSE, ![Len(codes)].expired = @ \/ expired]
      BY <1>1
    <2> DEFINE n == Len(codes)
               r == [codes[n] EXCEPT !.cooling = FALSE, !.expired = @ \/ expired]
    <2>2. n \in 1..Len(codes) BY <1>1, EmptySeq DEF TypeInv
    <2>3. codes[n] \in CodeRow BY <2>2, ElementOfSeq DEF TypeInv
    <2>4. r \in CodeRow /\ r.attempts = codes[n].attempts /\ r.consumed = codes[n].consumed
      BY <2>3 DEF CodeRow
    <2>5. codes' = [codes EXCEPT ![n] = r] BY <2>1, <2>2
    <2> HIDE DEF n, r
    <2>6. /\ codes' \in Seq(CodeRow) /\ Len(codes') = Len(codes) /\ codes'[n] = r
          /\ \A j \in 1..Len(codes) : j # n => codes'[j] = codes[j]
      BY <2>2, <2>4, <2>5, RewrittenCode, Zenon DEF TypeInv
    <2>7. \A j \in 1..Len(codes) : codes'[j].consumed = codes[j].consumed /\ codes'[j].attempts = codes[j].attempts
      BY <2>4, <2>6
    <2>8. tokens' = tokens BY <1>1
    <2> QED BY <2>6, <2>7, <2>8 DEF TypeInv
  <1>2. CASE tokens # <<>> /\ tokens' = [tokens EXCEPT ![Len(tokens)].expired = TRUE] /\ UNCHANGED codes
    <2> DEFINE n == Len(tokens)
               r == [tokens[n] EXCEPT !.expired = TRUE]
    <2>1. n \in 1..Len(tokens) BY <1>2, EmptySeq DEF TypeInv
    <2>2. tokens[n] \in TokenRow BY <2>1, ElementOfSeq DEF TypeInv
    <2>3. r \in TokenRow /\ r.status = tokens[n].status BY <2>2 DEF TokenRow
    <2>4. tokens' = [tokens EXCEPT ![n] = r] BY <1>2
    <2> HIDE DEF n, r, TokenRow
    <2>5. tokens' \in Seq(TokenRow) /\ Len(tokens') = Len(tokens)
      BY <2>1, <2>3, <2>4, ExceptSeq DEF TypeInv
    <2>6. \A j \in 1..Len(tokens) : tokens'[j].status = tokens[j].status
      BY <2>1, <2>3, <2>4, ExceptSeq DEF TypeInv
    <2>7. codes' = codes BY <1>2
    <2> QED BY <2>5, <2>6, <2>7 DEF TypeInv
  <1> QED BY <1>1, <1>2 DEF TimeGoesBy
-----------------------------------------------------------------------------
(* What a step does to the codes: they only grow, every code but the latest is
   consumed, and none comes back. *)
CodesGo ==
  /\ codes' \in Seq(CodeRow) /\ Len(codes') >= Len(codes)
  /\ \A i \in 1..Len(codes) : codes[i].consumed => codes'[i].consumed
  /\ \A i \in 1..Len(codes') : i < Len(codes') => codes'[i].consumed

(* Codes of the same number, none of which came back. *)
LEMMA SameCodes ==
  ASSUME TypeInv, CodeInv, codes' \in Seq(CodeRow), Len(codes') = Len(codes),
         \A i \in 1..Len(codes) : codes[i].consumed => codes'[i].consumed
  PROVE  CodesGo
  <1>1. codes \in Seq(CodeRow) /\ Len(codes) \in Nat BY LenProperties DEF TypeInv
  <1>2. \A i \in 1..Len(codes) : i < Len(codes) => codes[i].consumed BY DEF CodeInv
  <1> QED BY <1>1, <1>2 DEF CodesGo

(* Every step keeps the codes in order. *)
LEMMA CodesStep ==
  ASSUME TypeInv, CodeInv, SignInNext
  PROVE  CodesGo
  <1>1. CASE UNCHANGED codes BY <1>1, SameCodes DEF TypeInv
  <1>2. ASSUME NEW c \in Clients, IssueCode(c) PROVE CodesGo
    <2>1. codes' = Append(Retired, NewCode) BY <1>2 DEF IssueCode
    <2>2. Len(codes) \in Nat BY LenProperties DEF TypeInv
    <2> QED BY <2>1, <2>2, IssuedCodes DEF TypeInv, CodesGo
  <1>3. ASSUME NEW c \in Clients, CountWrongGuess(c) PROVE CodesGo
    BY <1>3, CountedCode, SameCodes
  <1>4. ASSUME NEW c \in Clients, ConsumeCode(c) PROVE CodesGo
    <2>1. CASE UNCHANGED codes BY <1>1, <2>1
    <2>2. CASE codes' = [codes EXCEPT ![client[c].row].consumed = TRUE]
      <3>1. client[c].row \in 1..Len(codes) BY <1>4 DEF CodeInv, ConsumeCode
      <3>2. /\ codes' \in Seq(CodeRow) /\ Len(codes') = Len(codes)
            /\ codes'[client[c].row].consumed
            /\ \A j \in 1..Len(codes) : j # client[c].row => codes'[j] = codes[j]
        BY <2>2, <3>1, BurntCode, Zenon
      <3> QED BY <3>2, SameCodes
    <2> QED BY <1>4, <2>1, <2>2 DEF ConsumeCode
  <1>5. CASE TimeGoesBy BY <1>5, AgedRows, SameCodes
  <1> QED
    BY <1>1, <1>2, <1>3, <1>4, <1>5
    DEF SignInNext, RequestCode, ReadCode, CheckAccount, EnterByCode, ReadAccount, EnterByPassword,
        RequestReset, IssueToken, ReadToken, ConsumeToken, SignOut, ChangeAccount

(* What a step does to the reset tokens: as for the codes. *)
TokensGo ==
  /\ tokens' \in Seq(TokenRow) /\ Len(tokens') >= Len(tokens)
  /\ \A i \in 1..Len(tokens) : tokens[i].status # "unused" => tokens'[i].status # "unused"
  /\ \A i \in 1..Len(tokens') : i < Len(tokens') => tokens'[i].status # "unused"

(* Every step keeps the tokens in order. *)
LEMMA TokensStep ==
  ASSUME TypeInv, TokenInv, SignInNext
  PROVE  TokensGo
  <1>0. Len(tokens) \in Nat BY LenProperties DEF TypeInv
  <1>1. CASE UNCHANGED tokens BY <1>0, <1>1 DEF TypeInv, TokenInv, TokensGo
  <1>2. ASSUME NEW c \in Clients, IssueToken(c) PROVE TokensGo
    BY <1>0, <1>2, IssuedTokens DEF TypeInv, TokensGo
  <1>3. ASSUME NEW c \in Clients, ConsumeToken(c) PROVE TokensGo
    <2>1. CASE UseToken(client[c].row) BY <1>0, <2>1, UsedTokens DEF TypeInv, TokensGo
    <2> QED BY <1>1, <1>3, <2>1 DEF ConsumeToken
  <1>4. CASE TimeGoesBy BY <1>0, <1>4, AgedRows DEF TokenInv, TokensGo
  <1> QED
    BY <1>1, <1>2, <1>3, <1>4
    DEF SignInNext, RequestCode, IssueCode, ReadCode, CountWrongGuess, ConsumeCode, CheckAccount, EnterByCode,
        ReadAccount, EnterByPassword, RequestReset, ReadToken, SignOut, ChangeAccount

(* What a step does to the account: nothing, or the version goes up by one. *)
AccountGoes ==
  UNCHANGED account \/ (account' \in Account /\ account'.version = account.version + 1)

(* Every change of the account counts the version up. *)
LEMMA AccountStep ==
  ASSUME TypeInv, SignInNext
  PROVE  AccountGoes
  <1> DEFINE changed(active, password) == [active |-> active, password |-> password, version |-> account.version + 1]
  <1>1. CASE UNCHANGED account BY <1>1 DEF AccountGoes
  <1>2. ASSUME account.version < AccountChanges,
               \E active \in BOOLEAN, password \in {account.password, account.password + 1} :
                 account' = changed(active, password)
        PROVE  AccountGoes
    <2>1. PICK active \in BOOLEAN, password \in {account.password, account.password + 1} :
                 account' = changed(active, password)
      BY <1>2
    <2>2. account.password \in Nat \ {0} /\ account.version \in 0..AccountChanges /\ AccountChanges \in Nat
      BY SignInAssumption DEF TypeInv, Account
    <2> QED BY <1>2, <2>1, <2>2 DEF AccountGoes, Account
  <1>3. account = [active |-> account.active, password |-> account.password, version |-> account.version]
        /\ account.active \in BOOLEAN
    BY DEF TypeInv, Account
  <1>4. ASSUME NEW c \in Clients, ConsumeToken(c) PROVE AccountGoes
    <2>1. CASE UseToken(client[c].row)
      <3>1. account' = changed(account.active, account.password + 1)
        <4>1. account' = [account EXCEPT !.password = @ + 1, !.version = @ + 1] BY <2>1 DEF UseToken
        <4> QED BY <1>3, <4>1
      <3>2. account.version < AccountChanges BY <1>4 DEF ConsumeToken
      <3> QED BY <1>2, <1>3, <3>1, <3>2
    <2> QED BY <1>1, <1>4, <2>1 DEF ConsumeToken
  <1>5. CASE SignOut
    <2>1. account' = changed(account.active, account.password)
      <3>1. account' = [account EXCEPT !.version = @ + 1] BY <1>5 DEF SignOut
      <3> QED BY <1>3, <3>1
    <2>2. account.version < AccountChanges BY <1>5 DEF SignOut
    <2> QED BY <1>2, <1>3, <2>1, <2>2
  <1>6. ASSUME NEW active \in BOOLEAN, ChangeAccount(active) PROVE AccountGoes
    BY <1>2, <1>6 DEF ChangeAccount, Changed
  <1> QED
    BY <1>1, <1>4, <1>5, <1>6
    DEF SignInNext, RequestCode, IssueCode, ReadCode, CountWrongGuess, ConsumeCode, CheckAccount, EnterByCode,
        ReadAccount, EnterByPassword, RequestReset, IssueToken, ReadToken, TimeGoesBy
-----------------------------------------------------------------------------
(* The states a request goes to are requests. *)
LEMMA RequestStates ==
  /\ Away \in Request /\ Away.pc = "idle"
  /\ \A pc \in {"idle", "issuing", "wrong", "right", "consumed", "entering", "comparing", "resetting", "hashing"},
        row \in Nat : At(pc, row) \in Request /\ At(pc, row).pc = pc /\ At(pc, row).row = row
  BY DEF Away, At, Request, NoPassword

(* A request that moves leaves the others where they are. *)
LEMMA Moves ==
  ASSUME TypeInv, NEW c \in Clients, NEW state \in Request, Goes(c, state)
  PROVE  /\ client' \in [Clients -> Request] /\ client'[c] = state
         /\ \A d \in Clients : d # c => client'[d] = client[d]
  BY DEF TypeInv, Goes

(* What a step does to a request: it stays, it goes where nothing is remembered, or
   what it remembers is what it has just read. *)
RequestGoes(d) ==
  \/ client'[d] = client[d]
  \/ client'[d].pc \notin {"wrong", "right", "hashing", "comparing"}
  \/ client'[d].pc \in {"wrong", "right"} /\ UNCHANGED codes /\ client'[d].row \in 1..Len(codes)
  \/ client'[d].pc = "hashing" /\ UNCHANGED tokens /\ client'[d].row \in 1..Len(tokens)
  \/ /\ client'[d].pc = "comparing" /\ UNCHANGED account
     /\ client'[d].version = account.version /\ client'[d].password = account.password

RequestsGo == client' \in [Clients -> Request] /\ \A d \in Clients : RequestGoes(d)

(* A request that goes where nothing is remembered. *)
LEMMA Forgets ==
  ASSUME TypeInv, NEW c \in Clients, NEW state \in Request, Goes(c, state),
         state.pc \notin {"wrong", "right", "hashing", "comparing"}
  PROVE  RequestsGo
  <1>1. /\ client' \in [Clients -> Request] /\ client'[c] = state
        /\ \A d \in Clients : d # c => client'[d] = client[d]
    BY Moves
  <1> QED BY <1>1 DEF RequestsGo, RequestGoes

(* What a request remembers is what it read. *)
LEMMA RequestStep ==
  ASSUME TypeInv, CodeInv, SignInNext
  PROVE  RequestsGo
  <1>1. CASE UNCHANGED client BY <1>1 DEF TypeInv, RequestsGo, RequestGoes
  <1>2. ASSUME NEW c \in Clients, Goes(c, Away) PROVE RequestsGo
    BY <1>2, RequestStates, Forgets
  <1>3. ASSUME NEW c \in Clients, NEW pc \in {"issuing", "consumed", "entering", "resetting"}, NEW row \in Nat,
               Goes(c, At(pc, row))
        PROVE  RequestsGo
    <2>1. At(pc, row) \in Request /\ At(pc, row).pc = pc BY RequestStates
    <2> QED BY <1>3, <2>1, Forgets
  <1>4. ASSUME NEW c \in Clients PROVE client[c].row \in Nat BY DEF TypeInv, Request
  <1>5. ASSUME NEW c \in Clients, ReadCode(c) PROVE RequestsGo
    <2>1. PICK guess \in {"wrong", "right"} : Goes(c, At(guess, Len(codes))) BY <1>5 DEF ReadCode
    <2>2. Len(codes) \in 1..Len(codes) /\ Len(codes) \in Nat BY <1>5, EmptySeq, LenProperties DEF ReadCode, TypeInv
    <2>3. /\ At(guess, Len(codes)) \in Request /\ At(guess, Len(codes)).pc = guess
          /\ At(guess, Len(codes)).row = Len(codes)
      BY <2>2, RequestStates
    <2>4. /\ client' \in [Clients -> Request] /\ client'[c] = At(guess, Len(codes))
          /\ \A d \in Clients : d # c => client'[d] = client[d]
      BY <2>1, <2>3, Moves
    <2>5. UNCHANGED codes BY <1>5 DEF ReadCode
    <2>6. client'[c].pc \in {"wrong", "right"} /\ client'[c].row \in 1..Len(codes) BY <2>2, <2>3, <2>4
    <2> QED BY <2>4, <2>5, <2>6 DEF RequestsGo, RequestGoes
  <1>6. ASSUME NEW c \in Clients, ReadToken(c) PROVE RequestsGo
    <2>1. PICK i \in DOMAIN tokens : Goes(c, At("hashing", i)) BY <1>6 DEF ReadToken
    <2>2. i \in 1..Len(tokens) /\ i \in Nat BY <2>1, LenProperties DEF TypeInv
    <2>3. At("hashing", i) \in Request /\ At("hashing", i).pc = "hashing" /\ At("hashing", i).row = i
      BY <2>2, RequestStates
    <2>4. /\ client' \in [Clients -> Request] /\ client'[c] = At("hashing", i)
          /\ \A d \in Clients : d # c => client'[d] = client[d]
      BY <2>1, <2>3, Moves
    <2>5. UNCHANGED tokens BY <1>6 DEF ReadToken
    <2>6. client'[c].pc = "hashing" /\ client'[c].row \in 1..Len(tokens) BY <2>2, <2>3, <2>4
    <2> QED BY <2>4, <2>5, <2>6 DEF RequestsGo, RequestGoes
  <1>7. ASSUME NEW c \in Clients, ReadAccount(c) PROVE RequestsGo
    <2> DEFINE state == [pc |-> "comparing", row |-> 0, password |-> account.password, version |-> account.version]
    <2>1. state \in Request BY DEF TypeInv, Account, Request
    <2>2. Goes(c, state) /\ UNCHANGED account BY <1>7 DEF ReadAccount
    <2>3. /\ client' \in [Clients -> Request] /\ client'[c] = state
          /\ \A d \in Clients : d # c => client'[d] = client[d]
      BY <2>1, <2>2, Moves
    <2> QED BY <2>2, <2>3 DEF RequestsGo, RequestGoes
  <1>8. ASSUME NEW c \in Clients,
               RequestCode(c) \/ ConsumeCode(c) \/ CheckAccount(c) \/ RequestReset(c)
        PROVE  RequestsGo
    <2>1. 0 \in Nat /\ client[c].row \in Nat BY <1>4
    <2> QED BY <1>2, <1>3, <1>8, <2>1 DEF RequestCode, ConsumeCode, CheckAccount, RequestReset
  <1> QED
    BY <1>1, <1>2, <1>5, <1>6, <1>7, <1>8
    DEF SignInNext, IssueCode, CountWrongGuess, EnterByCode, EnterByPassword, IssueToken, ConsumeToken,
        SignOut, ChangeAccount, TimeGoesBy

(* What a step adds to the history: nothing, or the latest row, that was live. *)
UsesGo ==
  \/ UNCHANGED uses
  \/ \E x \in Use :
       /\ uses' = uses \o <<x>> /\ x.row = x.latest /\ x.attempts < OtpMaxAttempts
       /\ \/ /\ x.what = "code" /\ x.row \in 1..Len(codes)
             /\ ~codes[x.row].consumed /\ codes'[x.row].consumed
          \/ /\ x.what = "token" /\ x.row \in 1..Len(tokens)
             /\ tokens[x.row].status = "unused" /\ tokens'[x.row].status # "unused"

(* What is accepted is the latest code or token, while it is live. *)
LEMMA UsesStep ==
  ASSUME TypeInv, CodeInv, TokenInv, SignInNext
  PROVE  UsesGo
  <1>0. Len(codes) \in Nat /\ Len(tokens) \in Nat BY LenProperties DEF TypeInv
  <1>1. ASSUME NEW c \in Clients, ConsumeCode(c) PROVE UsesGo
    <2> DEFINE i == client[c].row
    <2>1. i \in 1..Len(codes) BY <1>1 DEF ConsumeCode, CodeInv
    <2>2. CASE Consumable(i) /\ codes' = [codes EXCEPT ![i].consumed = TRUE]
               /\ uses' = uses \o <<[what |-> "code", row |-> i, latest |-> Len(codes), attempts |-> codes[i].attempts]>>
      <3> DEFINE x == [what |-> "code", row |-> i, latest |-> Len(codes), attempts |-> codes[i].attempts]
      <3>1. codes[i] \in CodeRow BY <2>1, ElementOfSeq DEF TypeInv
      <3>2. x \in Use BY <1>0, <2>1, <3>1 DEF Use, CodeRow
      <3>3. i = Len(codes) /\ ~codes[i].consumed /\ codes[i].attempts < OtpMaxAttempts
        BY <1>0, <2>1, <2>2 DEF Consumable, CodeInv
      <3>4. codes'[i].consumed BY <2>1, <2>2, BurntCode, Zenon
      <3> QED BY <2>1, <2>2, <3>2, <3>3, <3>4 DEF UsesGo
    <2> QED BY <1>1, <2>2 DEF ConsumeCode, UsesGo
  <1>2. ASSUME NEW c \in Clients, ConsumeToken(c) PROVE UsesGo
    <2> DEFINE i == client[c].row
    <2>1. i \in 1..Len(tokens) BY <1>2 DEF ConsumeToken, TokenInv
    <2>2. CASE Usable(i) /\ UseToken(i)
      <3> DEFINE x == [what |-> "token", row |-> i, latest |-> Len(tokens), attempts |-> 0]
      <3>1. x \in Use BY <1>0, <2>1 DEF Use
      <3>2. i = Len(tokens) /\ tokens[i].status = "unused" BY <1>0, <2>1, <2>2 DEF Usable, TokenInv
      <3>3. tokens'[i].status # "unused" BY <2>1, <2>2, UsedTokens DEF TypeInv
      <3>4. uses' = uses \o <<x>> BY <2>2 DEF UseToken
      <3>5. 0 < OtpMaxAttempts BY SignInAssumption
      <3> QED BY <2>1, <3>1, <3>2, <3>3, <3>4, <3>5 DEF UsesGo
    <2> QED BY <1>2, <2>2 DEF ConsumeToken, UsesGo
  <1> QED
    BY <1>1, <1>2
    DEF UsesGo, SignInNext, RequestCode, IssueCode, ReadCode, CountWrongGuess, CheckAccount, EnterByCode,
        ReadAccount, EnterByPassword, RequestReset, IssueToken, ReadToken, SignOut, ChangeAccount, TimeGoesBy
-----------------------------------------------------------------------------
(* A sign-in adds the version and the password that were read with it. *)
LEMMA SessionStep ==
  ASSUME TypeInv, VersionInv, SignInNext
  PROVE  /\ sessions' \in SUBSET Session
         /\ \A s \in sessions' \ sessions : UNCHANGED account /\ Stamp(s.version, s.password)
  <1>1. CASE UNCHANGED sessions BY <1>1 DEF TypeInv
  <1>2. ASSUME NEW c \in Clients, EnterByCode(c)
        PROVE  /\ sessions' \in SUBSET Session
               /\ \A s \in sessions' \ sessions : UNCHANGED account /\ Stamp(s.version, s.password)
    <2> DEFINE x == [version |-> account.version, password |-> NoPassword]
    <2>1. account.version \in Nat BY SignInAssumption DEF TypeInv, Account
    <2>2. x \in Session /\ Stamp(x.version, x.password) BY <2>1 DEF Session, Stamp, NoPassword
    <2>3. sessions' \subseteq sessions \cup {x} /\ UNCHANGED account BY <1>2 DEF EnterByCode
    <2> QED BY <2>2, <2>3 DEF TypeInv
  <1>3. ASSUME NEW c \in Clients, EnterByPassword(c)
        PROVE  /\ sessions' \in SUBSET Session
               /\ \A s \in sessions' \ sessions : UNCHANGED account /\ Stamp(s.version, s.password)
    <2> DEFINE x == [version |-> client[c].version, password |-> client[c].password]
    <2>1. x \in Session BY DEF TypeInv, Request, Session
    <2>2. Stamp(x.version, x.password) BY <1>3 DEF VersionInv, EnterByPassword
    <2>3. sessions' \subseteq sessions \cup {x} /\ UNCHANGED account BY <1>3 DEF EnterByPassword, StampedVersion
    <2> QED BY <2>1, <2>2, <2>3 DEF TypeInv
  <1> QED
    BY <1>1, <1>2, <1>3
    DEF SignInNext, RequestCode, IssueCode, ReadCode, CountWrongGuess, ConsumeCode, CheckAccount,
        ReadAccount, RequestReset, IssueToken, ReadToken, ConsumeToken, SignOut, ChangeAccount, TimeGoesBy

(* The type invariant is preserved. *)
LEMMA TypeStep ==
  ASSUME IInv, SignInNext
  PROVE  TypeInv'
  <1>1. codes' \in Seq(CodeRow) BY CodesStep DEF IInv, CodesGo
  <1>2. tokens' \in Seq(TokenRow) BY TokensStep DEF IInv, TokensGo
  <1>3. client' \in [Clients -> Request] BY RequestStep DEF IInv, RequestsGo
  <1>4. account' \in Account BY AccountStep DEF IInv, TypeInv, AccountGoes
  <1>5. sessions' \in SUBSET Session BY SessionStep DEF IInv
  <1>6. uses' \in Seq(Use)
    <2>1. uses \in Seq(Use) BY DEF IInv, TypeInv
    <2>2. UNCHANGED uses \/ \E x \in Use : uses' = uses \o <<x>> BY UsesStep DEF IInv, UsesGo
    <2> HIDE DEF Use
    <2> QED BY <2>1, <2>2, OneMoreUse
  <1> QED BY <1>1, <1>2, <1>3, <1>4, <1>5, <1>6 DEF TypeInv

(* The uses after a step: those there were, and at most one more. *)
LEMMA UsesAfter ==
  ASSUME IInv, SignInNext, NEW n \in 1..Len(uses')
  PROVE  \/ n \in 1..Len(uses) /\ uses'[n] = uses[n]
         \/ /\ n = Len(uses) + 1 /\ Len(uses') = Len(uses) + 1
            /\ uses'[n].row = uses'[n].latest /\ uses'[n].attempts < OtpMaxAttempts
            /\ \/ /\ uses'[n].what = "code" /\ uses'[n].row \in 1..Len(codes)
                  /\ ~codes[uses'[n].row].consumed /\ codes'[uses'[n].row].consumed
               \/ /\ uses'[n].what = "token" /\ uses'[n].row \in 1..Len(tokens)
                  /\ tokens[uses'[n].row].status = "unused" /\ tokens'[uses'[n].row].status # "unused"
  <1>1. UsesGo BY UsesStep DEF IInv
  <1>2. CASE UNCHANGED uses BY <1>2
  <1>3. CASE ~UNCHANGED uses
    <2>1. PICK x \in Use :
             /\ uses' = uses \o <<x>> /\ x.row = x.latest /\ x.attempts < OtpMaxAttempts
             /\ \/ /\ x.what = "code" /\ x.row \in 1..Len(codes)
                   /\ ~codes[x.row].consumed /\ codes'[x.row].consumed
                \/ /\ x.what = "token" /\ x.row \in 1..Len(tokens)
                   /\ tokens[x.row].status = "unused" /\ tokens'[x.row].status # "unused"
      BY <1>1, <1>3 DEF UsesGo
    <2>2. /\ Len(uses') = Len(uses) + 1 /\ uses'[Len(uses) + 1] = x /\ Len(uses) \in Nat
          /\ \A m \in 1..Len(uses) : uses'[m] = uses[m]
      BY <2>1, OneMoreUse, LenProperties DEF IInv, TypeInv
    <2> QED BY <2>1, <2>2
  <1> QED BY <1>2, <1>3

(* The invariant of the codes is preserved. *)
LEMMA CodeStep ==
  ASSUME IInv, SignInNext
  PROVE  CodeInv'
  <1>0. Len(codes) \in Nat /\ Len(codes') \in Nat BY CodesStep, LenProperties DEF IInv, TypeInv, CodesGo
  <1>1. CodesGo /\ RequestsGo BY CodesStep, RequestStep DEF IInv
  <1>2. ASSUME NEW c \in Clients, client'[c].pc \in {"wrong", "right"} PROVE client'[c].row \in 1..Len(codes')
    BY <1>0, <1>1, <1>2 DEF IInv, CodeInv, CodesGo, RequestsGo, RequestGoes
  <1>3. ASSUME NEW n \in 1..Len(uses'), uses'[n].what = "code"
        PROVE  uses'[n].row \in 1..Len(codes') /\ codes'[uses'[n].row].consumed
    BY <1>0, <1>1, <1>3, UsesAfter DEF IInv, CodeInv, CodesGo
  <1> QED BY <1>1, <1>2, <1>3 DEF CodeInv, CodesGo

(* The invariant of the tokens is preserved. *)
LEMMA TokenStep ==
  ASSUME IInv, SignInNext
  PROVE  TokenInv'
  <1>0. Len(tokens) \in Nat /\ Len(tokens') \in Nat BY TokensStep, LenProperties DEF IInv, TypeInv, TokensGo
  <1>1. TokensGo /\ RequestsGo BY TokensStep, RequestStep DEF IInv
  <1>2. ASSUME NEW c \in Clients, client'[c].pc = "hashing" PROVE client'[c].row \in 1..Len(tokens')
    BY <1>0, <1>1, <1>2 DEF IInv, TokenInv, TokensGo, RequestsGo, RequestGoes
  <1>3. ASSUME NEW n \in 1..Len(uses'), uses'[n].what = "token"
        PROVE  uses'[n].row \in 1..Len(tokens') /\ tokens'[uses'[n].row].status # "unused"
    BY <1>0, <1>1, <1>3, UsesAfter DEF IInv, TokenInv, TokensGo
  <1> QED BY <1>1, <1>2, <1>3 DEF TokenInv, TokensGo

(* The invariant of the history is preserved: what is accepted was live, and what
   was accepted before is not. *)
LEMMA UseStep ==
  ASSUME IInv, SignInNext
  PROVE  UseInv'
  <1>1. ASSUME NEW m \in 1..Len(uses'), NEW n \in 1..Len(uses'),
               uses'[m].what = uses'[n].what, uses'[m].row = uses'[n].row
        PROVE  m = n
    <2>0. Len(uses) \in Nat BY LenProperties DEF IInv, TypeInv
    <2>1. CASE m \in 1..Len(uses) /\ n \in 1..Len(uses)
      <3>1. uses'[m] = uses[m] /\ uses'[n] = uses[n] BY <2>0, <2>1, UsesAfter
      <3> QED BY <1>1, <2>1, <3>1 DEF IInv, UseInv
    <2>2. ASSUME NEW k \in 1..Len(uses'), NEW new \in 1..Len(uses'),
                 k \in 1..Len(uses), new \notin 1..Len(uses)
          PROVE  ~(uses'[k].what = uses'[new].what /\ uses'[k].row = uses'[new].row)
      <3>1. uses'[k] = uses[k] BY <2>0, <2>2, UsesAfter
      <3>2. \/ uses'[new].what = "code" /\ ~codes[uses'[new].row].consumed
            \/ uses'[new].what = "token" /\ tokens[uses'[new].row].status = "unused"
        BY <2>2, UsesAfter
      <3> QED BY <2>2, <3>1, <3>2 DEF IInv, CodeInv, TokenInv
    <2>3. CASE m \notin 1..Len(uses) /\ n \notin 1..Len(uses) BY <2>3, UsesAfter
    <2> QED BY <1>1, <2>1, <2>2, <2>3
  <1>2. ASSUME NEW n \in 1..Len(uses')
        PROVE  uses'[n].row = uses'[n].latest /\ uses'[n].attempts < OtpMaxAttempts
    BY <1>2, UsesAfter DEF IInv, UseInv
  <1> QED BY <1>1, <1>2 DEF UseInv

(* The invariant of the versions is preserved: a step that changes the password
   leaves every session, and every sign-in on its way, an older version. *)
LEMMA VersionStep ==
  ASSUME IInv, SignInNext
  PROVE  VersionInv'
  <1>0. account.version \in Nat BY SignInAssumption DEF IInv, TypeInv, Account
  <1>1. ASSUME NEW v \in Nat, NEW p \in Nat, Stamp(v, p) PROVE Stamp(v, p)'
    BY <1>0, <1>1, AccountStep DEF IInv, AccountGoes, Stamp
  <1>2. ASSUME NEW s \in sessions' PROVE Stamp(s.version, s.password)'
    <2>1. s \in Session BY SessionStep DEF IInv
    <2>2. CASE s \in sessions BY <1>1, <2>1, <2>2 DEF IInv, VersionInv, Session
    <2>3. CASE s \notin sessions BY <2>3, SessionStep DEF IInv, Stamp
    <2> QED BY <2>2, <2>3
  <1>3. ASSUME NEW c \in Clients, client'[c].pc = "comparing"
        PROVE  Stamp(client[c].version, client[c].password)'
    <2>1. RequestGoes(c) BY RequestStep DEF IInv, RequestsGo
    <2>2. CASE client'[c] = client[c]
      <3>1. client[c].version \in Nat /\ client[c].password \in Nat BY DEF IInv, TypeInv, Request
      <3>2. Stamp(client[c].version, client[c].password) BY <1>3, <2>2 DEF IInv, VersionInv
      <3>3. /\ client[c].version <= account'.version
            /\ client[c].version = account'.version /\ client[c].password # NoPassword
               => client[c].password = account'.password
        BY <1>0, <3>1, <3>2, AccountStep DEF IInv, AccountGoes, Stamp
      <3> QED BY <2>2, <3>3 DEF Stamp
    <2>3. CASE /\ UNCHANGED account /\ client'[c].version = account.version
               /\ client'[c].password = account.password
      BY <1>0, <2>3 DEF Stamp
    <2> QED BY <1>3, <2>1, <2>2, <2>3 DEF RequestGoes
  <1> QED BY <1>2, <1>3 DEF VersionInv

(* Where no request begins to guess wrongly, no more guesses are on their way. *)
LEMMA NoNewGuess ==
  ASSUME NEW i, \A d \in Clients : client'[d].pc = "wrong" => client'[d] = client[d]
  PROVE  Cardinality(Guessing(i)') <= Cardinality(Guessing(i)) /\ Cardinality(Guessing(i)') \in Nat
  <1>1. Guessing(i)' \subseteq Guessing(i) BY DEF Guessing
  <1> QED BY <1>1, GuessingIsFinite, FS_Subset, FS_CardinalityType

(* The guesses on their way after a step are clients too. *)
LEMMA GuessesAreClients ==
  ASSUME NEW i
  PROVE  /\ Cardinality(Guessing(i)') \in Nat
         /\ Cardinality(Guessing(i)') <= Cardinality(Clients) /\ Cardinality(Clients) \in Nat
  <1>1. Guessing(i)' \subseteq Clients BY DEF Guessing
  <1> QED BY <1>1, SignInAssumption, FS_Subset, FS_CardinalityType

(* Only a look at a code begins a guess. *)
LEMMA GuessBegins ==
  ASSUME TypeInv, SignInNext, NEW d \in Clients, client'[d].pc = "wrong", client'[d] # client[d]
  PROVE  ReadCode(d)
  <1>1. ASSUME NEW c \in Clients, NEW state \in Request, Goes(c, state), state.pc # "wrong"
        PROVE  FALSE
    BY <1>1, Moves
  <1>2. ASSUME NEW c \in Clients, ReadCode(c) PROVE ReadCode(d)
    <2>1. PICK guess \in {"wrong", "right"} : Goes(c, At(guess, Len(codes))) BY <1>2 DEF ReadCode
    <2>2. At(guess, Len(codes)) \in Request BY LenProperties, RequestStates DEF TypeInv
    <2>3. c = d BY <2>1, <2>2, Moves
    <2> QED BY <1>2, <2>3
  <1>3. ASSUME NEW c \in Clients, NEW pc \in {"issuing", "consumed", "entering", "resetting", "hashing"},
               NEW row \in Nat, Goes(c, At(pc, row))
        PROVE  FALSE
    <2>1. At(pc, row) \in Request /\ At(pc, row).pc = pc BY RequestStates
    <2> QED BY <1>1, <1>3, <2>1
  <1>4. ASSUME NEW c \in Clients, Goes(c, Away) PROVE FALSE BY <1>1, <1>4, RequestStates
  <1>5. CASE UNCHANGED client BY <1>5
  <1>6. ASSUME NEW c \in Clients, ReadToken(c) PROVE FALSE
    <2>1. PICK i \in DOMAIN tokens : Goes(c, At("hashing", i)) BY <1>6 DEF ReadToken
    <2>2. i \in Nat BY <2>1, LenProperties DEF TypeInv
    <2> QED BY <1>3, <2>1, <2>2
  <1>7. ASSUME NEW c \in Clients, ReadAccount(c) PROVE FALSE
    <2> DEFINE state == [pc |-> "comparing", row |-> 0, password |-> account.password, version |-> account.version]
    <2>1. state \in Request /\ state.pc # "wrong" BY DEF TypeInv, Account, Request
    <2>2. Goes(c, state) BY <1>7 DEF ReadAccount
    <2> HIDE DEF state
    <2> QED BY <1>1, <2>1, <2>2
  <1>8. ASSUME NEW c \in Clients, RequestCode(c) \/ ConsumeCode(c) \/ CheckAccount(c) \/ RequestReset(c)
        PROVE  FALSE
    <2>1. 0 \in Nat /\ client[c].row \in Nat BY DEF TypeInv, Request
    <2> QED BY <1>3, <1>4, <1>8, <2>1 DEF RequestCode, ConsumeCode, CheckAccount, RequestReset
  <1> QED
    BY <1>2, <1>4, <1>5, <1>6, <1>7, <1>8
    DEF SignInNext, IssueCode, CountWrongGuess, EnterByCode, EnterByPassword, IssueToken, ConsumeToken,
        SignOut, ChangeAccount, TimeGoesBy

(* The attempts that the codes have after a step, where it is not a wrong guess that counts. *)
LEMMA AttemptsAfter ==
  ASSUME TypeInv, CodeInv, SignInNext, \A c \in Clients : ~CountWrongGuess(c), NEW i \in 1..Len(codes')
  PROVE  \/ i \in 1..Len(codes) /\ codes'[i].attempts = codes[i].attempts
         \/ codes'[i].attempts = 0
  <1>0. Len(codes) \in Nat BY LenProperties DEF TypeInv
  <1>1. CASE UNCHANGED codes BY <1>1
  <1>2. ASSUME NEW c \in Clients, IssueCode(c)
        PROVE  (i \in 1..Len(codes) /\ codes'[i].attempts = codes[i].attempts) \/ codes'[i].attempts = 0
    <2>1. codes' = Append(Retired, NewCode) BY <1>2 DEF IssueCode
    <2>2. NewCode.attempts = 0 BY DEF NewCode
    <2> QED BY <1>0, <2>1, <2>2, IssuedCodes DEF TypeInv
  <1>3. ASSUME NEW c \in Clients, ConsumeCode(c)
        PROVE  i \in 1..Len(codes) /\ codes'[i].attempts = codes[i].attempts
    <2>1. CASE UNCHANGED codes BY <2>1
    <2>2. CASE codes' = [codes EXCEPT ![client[c].row].consumed = TRUE]
      <3>1. client[c].row \in 1..Len(codes) BY <1>3 DEF CodeInv, ConsumeCode
      <3>2. /\ Len(codes') = Len(codes)
            /\ codes'[client[c].row].attempts = codes[client[c].row].attempts
            /\ \A j \in 1..Len(codes) : j # client[c].row => codes'[j] = codes[j]
        BY <2>2, <3>1, BurntCode, Zenon
      <3> QED BY <3>2
    <2> QED BY <1>3, <2>1, <2>2 DEF ConsumeCode
  <1>4. CASE TimeGoesBy BY <1>4, AgedRows
  <1> QED
    BY <1>1, <1>2, <1>3, <1>4
    DEF SignInNext, RequestCode, ReadCode, CheckAccount, EnterByCode, ReadAccount, EnterByPassword,
        RequestReset, IssueToken, ReadToken, ConsumeToken, SignOut, ChangeAccount

(* The invariant of the attempts is preserved: a guess begins while attempts are
   left, and when it counts it is not on its way any more. *)
LEMMA AttemptStep ==
  ASSUME IInv, SignInNext
  PROVE  AttemptInv'
  <1>0. /\ Len(codes) \in Nat /\ OtpMaxAttempts \in Nat \ {0} /\ Cardinality(Clients) \in Nat
        /\ \A j \in 1..Len(codes) : codes[j].attempts \in Nat
    <2>1. Len(codes) \in Nat BY LenProperties DEF IInv, TypeInv
    <2>2. ASSUME NEW j \in 1..Len(codes) PROVE codes[j].attempts \in Nat
      <3>1. codes[j] \in CodeRow BY ElementOfSeq DEF IInv, TypeInv
      <3> QED BY <3>1 DEF CodeRow
    <2> QED BY <2>1, <2>2, SignInAssumption, GuessingIsFinite
  <1> SUFFICES ASSUME NEW i \in 1..Len(codes')
               PROVE  codes'[i].attempts + Cardinality(Guessing(i)') < OtpMaxAttempts + Cardinality(Clients)
    BY DEF AttemptInv
  <1>1. ASSUME NEW c \in Clients, ReadCode(c)
        PROVE  codes'[i].attempts + Cardinality(Guessing(i)') < OtpMaxAttempts + Cardinality(Clients)
    <2>1. UNCHANGED codes /\ codes[Len(codes)].attempts < OtpMaxAttempts BY <1>1 DEF ReadCode
    <2>2. CASE i = Len(codes) BY <1>0, <2>1, <2>2, GuessesAreClients
    <2>3. CASE i # Len(codes)
      <3>1. PICK guess \in {"wrong", "right"} : Goes(c, At(guess, Len(codes))) BY <1>1 DEF ReadCode
      <3>2. At(guess, Len(codes)) \in Request /\ At(guess, Len(codes)).row = Len(codes)
        BY <1>0, RequestStates
      <3>3. /\ client'[c].row = Len(codes)
            /\ \A d \in Clients : d # c => client'[d] = client[d]
        BY <3>1, <3>2, Moves DEF IInv
      <3>4. Guessing(i)' \subseteq Guessing(i) BY <2>3, <3>3 DEF Guessing
      <3>5. /\ Cardinality(Guessing(i)') <= Cardinality(Guessing(i))
            /\ Cardinality(Guessing(i)) \in Nat /\ Cardinality(Guessing(i)') \in Nat
        BY <3>4, GuessingIsFinite, GuessesAreClients, FS_Subset
      <3> QED BY <1>0, <2>1, <3>5 DEF IInv, AttemptInv
    <2> QED BY <2>2, <2>3
  <1>2. ASSUME NEW c \in Clients, CountWrongGuess(c)
        PROVE  codes'[i].attempts + Cardinality(Guessing(i)') < OtpMaxAttempts + Cardinality(Clients)
    <2> DEFINE r == client[c].row
    <2>1. /\ r \in 1..Len(codes) /\ Len(codes') = Len(codes) /\ codes'[r].attempts = codes[r].attempts + 1
          /\ \A j \in 1..Len(codes) : j # r => codes'[j] = codes[j]
      BY <1>2, CountedCode DEF IInv
    <2>2. client'[c].pc = "idle" /\ \A d \in Clients : d # c => client'[d] = client[d]
      <3>1. Goes(c, Away) BY <1>2 DEF CountWrongGuess
      <3> QED BY <3>1, RequestStates, Moves DEF IInv
    <2>3. CASE i = r
      <3>1. c \in Guessing(i) BY <1>2, <2>3 DEF Guessing, CountWrongGuess
      <3>2. Guessing(i)' = Guessing(i) \ {c} BY <2>2 DEF Guessing
      <3>3. Cardinality(Guessing(i)') = Cardinality(Guessing(i)) - 1
        BY <3>1, <3>2, GuessingIsFinite, FS_RemoveElement
      <3>4. Cardinality(Guessing(i)) \in Nat BY GuessingIsFinite
      <3>5. codes[i].attempts + Cardinality(Guessing(i)) < OtpMaxAttempts + Cardinality(Clients)
        BY <2>1, <2>3 DEF IInv, AttemptInv
      <3>6. codes'[i].attempts = codes[i].attempts + 1 /\ codes[i].attempts \in Nat BY <1>0, <2>1, <2>3
      <3> QED BY <1>0, <3>3, <3>4, <3>5, <3>6
    <2>4. CASE i # r
      <3>1. Cardinality(Guessing(i)') <= Cardinality(Guessing(i)) /\ Cardinality(Guessing(i)') \in Nat
        <4>1. \A d \in Clients : client'[d].pc = "wrong" => client'[d] = client[d] BY <2>2
        <4> QED BY <4>1, NoNewGuess
      <3>2. Cardinality(Guessing(i)) \in Nat BY GuessingIsFinite
      <3>3. codes'[i] = codes[i] /\ codes[i].attempts \in Nat BY <1>0, <2>1, <2>4
      <3>4. codes[i].attempts + Cardinality(Guessing(i)) < OtpMaxAttempts + Cardinality(Clients)
        BY <2>1 DEF IInv, AttemptInv
      <3> QED BY <1>0, <3>1, <3>2, <3>3, <3>4
    <2> QED BY <2>3, <2>4
  <1>3. CASE \A c \in Clients : ~ReadCode(c) /\ ~CountWrongGuess(c)
    <2>1. \A d \in Clients : client'[d].pc = "wrong" => client'[d] = client[d]
      BY <1>3, GuessBegins DEF IInv
    <2>2. Cardinality(Guessing(i)') <= Cardinality(Guessing(i)) /\ Cardinality(Guessing(i)') \in Nat
      BY <2>1, NoNewGuess
    <2>3. Cardinality(Guessing(i)) \in Nat BY GuessingIsFinite
    <2>4. CASE i \in 1..Len(codes) /\ codes'[i].attempts = codes[i].attempts
      <3>1. codes[i].attempts + Cardinality(Guessing(i)) < OtpMaxAttempts + Cardinality(Clients)
        BY <2>4 DEF IInv, AttemptInv
      <3> QED BY <1>0, <2>2, <2>3, <2>4, <3>1
    <2>5. CASE codes'[i].attempts = 0 BY <1>0, <2>5, GuessesAreClients
    <2> QED BY <1>3, <2>4, <2>5, AttemptsAfter DEF IInv
  <1> QED BY <1>1, <1>2, <1>3
-----------------------------------------------------------------------------
(* The invariant holds at first. *)
LEMMA InvInit == SignInInit => IInv
  <1> SUFFICES ASSUME SignInInit PROVE IInv
    OBVIOUS
  <1>1. /\ codes \in Seq(CodeRow) /\ tokens \in Seq(TokenRow) /\ uses \in Seq(Use)
        /\ Len(codes) = 0 /\ Len(tokens) = 0 /\ Len(uses) = 0
    BY EmptySeq DEF SignInInit
  <1>2. /\ account \in Account /\ sessions = {}
        /\ client \in [Clients -> Request] /\ \A c \in Clients : client[c].pc = "idle"
    BY SignInAssumption, RequestStates DEF SignInInit, Account
  <1>3. TypeInv BY <1>1, <1>2 DEF TypeInv
  <1>4. CodeInv /\ TokenInv /\ UseInv /\ AttemptInv BY <1>1, <1>2 DEF CodeInv, TokenInv, UseInv, AttemptInv
  <1>5. VersionInv BY <1>2 DEF VersionInv
  <1> QED BY <1>3, <1>4, <1>5 DEF IInv

(* Every step, and every stutter, preserves the invariant. *)
LEMMA InvNext == IInv /\ [SignInNext]_signInVars => IInv'
  <1> SUFFICES ASSUME IInv, [SignInNext]_signInVars PROVE IInv'
    OBVIOUS
  <1>1. CASE SignInNext
    BY <1>1, TypeStep, CodeStep, TokenStep, UseStep, VersionStep, AttemptStep DEF IInv
  <1>2. CASE UNCHANGED signInVars
    BY <1>2 DEF signInVars, IInv, TypeInv, CodeInv, TokenInv, UseInv, VersionInv, Stamp, AttemptInv, Guessing
  <1> QED BY <1>1, <1>2

(* IInv is an invariant of signing in. *)
LEMMA Invariant == SignInSpec => []IInv
  <1>1. SignInInit => IInv BY InvInit
  <1>2. IInv /\ [SignInNext]_signInVars => IInv' BY InvNext
  <1> QED BY <1>1, <1>2, PTL DEF SignInSpec

(* The rows are of their types. *)
LEMMA SignInTyped == IInv => SignInTypeOK
  <1> SUFFICES ASSUME IInv PROVE SignInTypeOK
    OBVIOUS
  <1>1. DOMAIN codes = 1..Len(codes) /\ DOMAIN tokens = 1..Len(tokens) BY LenProperties DEF IInv, TypeInv
  <1>2. ASSUME NEW i \in 1..Len(codes) PROVE codes[i] \in CodeRow BY ElementOfSeq DEF IInv, TypeInv
  <1>3. ASSUME NEW i \in 1..Len(tokens) PROVE tokens[i] \in TokenRow BY ElementOfSeq DEF IInv, TypeInv
  <1> QED BY <1>1, <1>2, <1>3 DEF IInv, TypeInv, SignInTypeOK, Account, CodeRow, TokenRow, Session

(* Whatever the number of requests and the order of their steps, the state keeps its type. *)
THEOREM SignInIsTyped == SignInSpec => []SignInTypeOK
  BY SignInTyped, Invariant, PTL

(* A login code and a reset token are accepted once, while they are the latest and an
   attempt is left; guesses that run at the same time get at most one each beyond
   OTP_MAX_ATTEMPTS (otp-service.ts, password-reset.ts). *)
THEOREM AcceptedOnlyOnce == SignInSpec => []AcceptedOnce
  <1>1. IInv => AcceptedOnce
    <2> SUFFICES ASSUME IInv PROVE AcceptedOnce
      OBVIOUS
    <2>1. DOMAIN codes = 1..Len(codes) /\ DOMAIN uses = 1..Len(uses) BY LenProperties DEF IInv, TypeInv
    <2>2. ASSUME NEW i \in 1..Len(codes) PROVE codes[i].attempts < OtpMaxAttempts + Cardinality(Clients)
      <3>1. codes[i].attempts \in Nat
        <4>1. codes[i] \in CodeRow BY ElementOfSeq DEF IInv, TypeInv
        <4> QED BY <4>1 DEF CodeRow
      <3>2. Cardinality(Guessing(i)) \in Nat /\ Cardinality(Clients) \in Nat BY GuessingIsFinite
      <3> QED BY <3>1, <3>2, SignInAssumption DEF IInv, AttemptInv
    <2> QED BY <2>1, <2>2 DEF IInv, UseInv, AcceptedOnce
  <1> QED BY <1>1, Invariant, PTL

(* No session outlives the password it was opened with: a sign-in that a change of
   the password overtook carries the version it read (auth.ts, auth.config.ts). *)
THEOREM SessionsAreCurrent == SignInSpec => []SessionsHoldCurrentPassword
  <1>1. IInv => SessionsHoldCurrentPassword BY DEF IInv, VersionInv, Stamp, SessionsHoldCurrentPassword
  <1> QED BY <1>1, Invariant, PTL
-----------------------------------------------------------------------------
(* The limiter in front of signing in, and of every other route that asks it. *)
RequestPcs == {"new", "clock", "counted", "admitted", "refused"}

LimitTypes ==
  /\ bucket \in [start : Nat, count : Nat] /\ bucket.start <= window
  /\ window \in 1..Windows /\ disturbed \subseteq 1..Windows
  /\ request \in [Requests -> [pc : RequestPcs, window : 0..window]]
  /\ \A r \in Requests : request[r].pc # "new" => request[r].window > 0

(* The requests whose statement has reached the database, in all and of a window. *)
Reached == {r \in Requests : request[r].pc \in {"counted", "admitted", "refused"}}
ReachedIn(w) == {r \in Reached : request[r].window = w}

(* In an undisturbed window the row counts every request of the window, so that the
   admitted ones are among those it has counted. *)
LimitInv ==
  /\ LimitTypes
  /\ bucket.count <= Cardinality(Reached)
  /\ window \notin disturbed =>
       IF bucket.start = window THEN Cardinality(ReachedIn(window)) <= bucket.count ELSE ReachedIn(window) = {}
  /\ WindowKeepsLimit

(* Sets of requests are finite. *)
LEMMA RequestsAreFinite ==
  ASSUME NEW S, NEW T, S \subseteq T, T \subseteq Requests
  PROVE  /\ IsFiniteSet(S) /\ Cardinality(S) \in Nat /\ Cardinality(T) \in Nat /\ Cardinality(S) <= Cardinality(T)
  <1>1. IsFiniteSet(T) BY FS_Subset, RateLimitsAssumption
  <1> QED BY <1>1, FS_Subset, FS_CardinalityType

(* A statement that reaches the database adds its request. *)
LEMMA OneMoreRequest ==
  ASSUME NEW S, S \subseteq Requests, NEW r \in Requests, r \notin S
  PROVE  Cardinality(S \cup {r}) = Cardinality(S) + 1
  <1>1. IsFiniteSet(S) BY FS_Subset, RateLimitsAssumption
  <1> QED BY <1>1, FS_AddElement

(* One case per action. *)
LEMMA LimitStep == ASSUME LimitInv, [LimitNext]_limitVars PROVE LimitInv'
  <1>t. /\ bucket \in [start : Nat, count : Nat] /\ bucket.start <= window
        /\ window \in 1..Windows /\ disturbed \subseteq 1..Windows
        /\ request \in [Requests -> [pc : RequestPcs, window : 0..window]] /\ window \in Nat
        /\ \A r \in Requests : request[r].pc # "new" => request[r].window > 0
    BY RateLimitsAssumption DEF LimitInv, LimitTypes
  <1>w. WindowKeepsLimit BY DEF LimitInv
  <1>1. ASSUME NEW r \in Requests, ReadClock(r) PROVE LimitInv'
    <2>1. /\ request[r].pc = "new" /\ UNCHANGED <<bucket, window, disturbed>>
          /\ request' = [request EXCEPT ![r] = [pc |-> "clock", window |-> window]]
      BY <1>1 DEF ReadClock
    <2>2. /\ request' \in [Requests -> [pc : RequestPcs, window : 0..window]]
          /\ \A q \in Requests : request'[q] = IF q = r THEN [pc |-> "clock", window |-> window] ELSE request[q]
      BY <1>t, <2>1 DEF RequestPcs
    <2>3. Reached' = Reached BY <2>1, <2>2 DEF Reached
    <2>4. ReachedIn(window)' = ReachedIn(window) BY <2>1, <2>2, <2>3 DEF ReachedIn, Reached
    <2>5. \A w \in 1..Windows : Admitted(w)' = Admitted(w) BY <2>1, <2>2 DEF Admitted
    <2> QED BY <1>t, <1>w, <2>1, <2>2, <2>3, <2>4, <2>5 DEF LimitInv, LimitTypes, WindowKeepsLimit
  <1>2. ASSUME NEW r \in Requests, CountRequest(r) PROVE LimitInv'
    <2> DEFINE v == request[r].window
    <2>1. /\ request[r].pc = "clock" /\ bucket' = Counted(v) /\ window' = window
          /\ disturbed' = (IF v < window THEN disturbed \cup v..window ELSE disturbed)
          /\ request' = [request EXCEPT ![r].pc = "counted"]
      BY <1>2 DEF CountRequest
    <2>2. v \in Nat /\ v <= window BY <1>t
    <2>3. /\ request' \in [Requests -> [pc : RequestPcs, window : 0..window]]
          /\ \A q \in Requests : request'[q] = IF q = r THEN [pc |-> "counted", window |-> v] ELSE request[q]
      BY <1>t, <2>1 DEF RequestPcs
    <2> HIDE DEF v
    <2>4. /\ bucket' \in [start : Nat, count : Nat] /\ bucket'.start = v
          /\ bucket'.count = IF bucket.start < v THEN 1 ELSE bucket.count + 1
      BY <1>t, <2>1, <2>2 DEF Counted
    <2>5. r \notin Reached /\ Reached' = Reached \cup {r} BY <2>1, <2>3 DEF Reached
    <2>6. Reached \subseteq Requests BY DEF Reached
    <2>7. Cardinality(Reached') = Cardinality(Reached) + 1 /\ Cardinality(Reached) \in Nat
      BY <2>5, <2>6, OneMoreRequest, RequestsAreFinite
    <2>8. bucket'.count <= Cardinality(Reached')
      BY <1>t, <2>4, <2>7 DEF LimitInv
    <2>9. \A w \in 1..Windows : Admitted(w)' = Admitted(w) BY <2>1, <2>3 DEF Admitted
    <2>10. disturbed \subseteq disturbed' /\ disturbed' \subseteq 1..Windows /\ v > 0
      <3>1. v > 0 BY <1>t, <2>1 DEF v
      <3>2. v..window \subseteq 1..Windows BY <1>t, <2>2, <3>1, RateLimitsAssumption
      <3> QED BY <1>t, <2>1, <3>1, <3>2
    <2>11. WindowKeepsLimit' BY <1>w, <2>9, <2>10 DEF WindowKeepsLimit
    <2>12. ASSUME window \notin disturbed'
           PROVE  bucket'.start = window /\ Cardinality(ReachedIn(window)') <= bucket'.count
      <3>1. v = window /\ window \notin disturbed BY <1>t, <2>1, <2>2, <2>12
      <3>2. ReachedIn(window)' = ReachedIn(window) \cup {r} /\ r \notin ReachedIn(window)
        BY <2>1, <2>3, <2>5, <2>6, <3>1 DEF ReachedIn
      <3>3. ReachedIn(window) \subseteq Requests BY DEF ReachedIn, Reached
      <3>4. Cardinality(ReachedIn(window)') = Cardinality(ReachedIn(window)) + 1
        BY <3>2, <3>3, OneMoreRequest
      <3>5. CASE bucket.start = window
        <4>1. Cardinality(ReachedIn(window)) <= bucket.count /\ Cardinality(ReachedIn(window)) \in Nat
          BY <3>1, <3>3, <3>5, RequestsAreFinite DEF LimitInv
        <4> QED BY <1>t, <2>4, <3>1, <3>4, <3>5, <4>1
      <3>6. CASE bucket.start # window
        <4>1. ReachedIn(window) = {} BY <3>1, <3>6 DEF LimitInv
        <4>2. Cardinality(ReachedIn(window)) = 0 BY <4>1, FS_EmptySet
        <4> QED BY <1>t, <2>4, <3>1, <3>4, <3>6, <4>2
      <3> QED BY <3>5, <3>6
    <2> QED BY <1>t, <2>1, <2>2, <2>3, <2>4, <2>8, <2>10, <2>11, <2>12 DEF LimitInv, LimitTypes
  <1>3. ASSUME NEW r \in Requests, AnswerRequest(r) PROVE LimitInv'
    <2> DEFINE v == request[r].window
               answer == IF Admits THEN "admitted" ELSE "refused"
    <2>1. /\ request[r].pc = "counted" /\ UNCHANGED <<bucket, window>>
          /\ request' = [request EXCEPT ![r].pc = answer]
          /\ disturbed' = (IF v < window THEN disturbed \cup {v} ELSE disturbed)
      BY <1>3 DEF AnswerRequest
    <2>2. v \in Nat /\ v <= window BY <1>t
    <2>3. /\ request' \in [Requests -> [pc : RequestPcs, window : 0..window]]
          /\ \A q \in Requests : request'[q] = IF q = r THEN [pc |-> answer, window |-> v] ELSE request[q]
      BY <1>t, <2>1 DEF RequestPcs
    <2>a. answer \in {"admitted", "refused"} /\ (answer = "admitted" => bucket.count <= RequestLimit)
      BY DEF Admits
    <2> HIDE DEF v, answer
    <2>4. Reached' = Reached BY <2>1, <2>3, <2>a DEF Reached
    <2>5. ReachedIn(window)' = ReachedIn(window) BY <2>1, <2>3, <2>4 DEF ReachedIn, v
    <2>6. disturbed \subseteq disturbed' /\ (v < window => v \in disturbed') BY <2>1
    <2>7. disturbed' \subseteq 1..Windows /\ v > 0
      <3>1. v > 0 BY <1>t, <2>1 DEF v
      <3> QED BY <1>t, <2>1, <2>2, <3>1, RateLimitsAssumption
    <2>8. WindowKeepsLimit'
      <3> SUFFICES ASSUME NEW w \in 1..Windows, w \notin disturbed' PROVE Cardinality(Admitted(w)') <= RequestLimit
        BY DEF WindowKeepsLimit
      <3>1. Cardinality(Admitted(w)) <= RequestLimit BY <1>w, <2>6 DEF WindowKeepsLimit
      <3>2. CASE w # v \/ answer # "admitted"
        <4>1. Admitted(w)' = Admitted(w) BY <2>1, <2>3, <3>2 DEF Admitted
        <4> QED BY <3>1, <4>1
      <3>3. CASE w = v /\ answer = "admitted"
        <4>1. v = window BY <2>2, <2>6, <3>3, <1>t
        <4>2. r \in ReachedIn(window) BY <2>1, <4>1 DEF ReachedIn, Reached, v
        <4>3. Cardinality(ReachedIn(window)) <= bucket.count BY <2>6, <3>3, <4>1, <4>2 DEF LimitInv
        <4>4. Admitted(w)' \subseteq ReachedIn(window)
          BY <2>3, <3>3, <4>1, <4>2 DEF Admitted, ReachedIn, Reached
        <4>5. ReachedIn(window) \subseteq Requests BY DEF ReachedIn, Reached
        <4>6. /\ Cardinality(Admitted(w)') <= Cardinality(ReachedIn(window))
              /\ Cardinality(Admitted(w)') \in Nat /\ Cardinality(ReachedIn(window)) \in Nat
          BY <4>4, <4>5, RequestsAreFinite
        <4> QED BY <1>t, <2>a, <3>3, <4>3, <4>6, RateLimitsAssumption
      <3> QED BY <3>2, <3>3
    <2> QED BY <1>t, <2>1, <2>3, <2>4, <2>5, <2>6, <2>7, <2>8 DEF LimitInv, LimitTypes
  <1>4. ASSUME CleanUp PROVE LimitInv'
    <2>1. bucket.start < window /\ bucket' = NoBucket /\ UNCHANGED <<window, request, disturbed>> BY <1>4 DEF CleanUp
    <2>2. bucket' \in [start : Nat, count : Nat] /\ bucket'.start = 0 /\ bucket'.count = 0 BY <2>1 DEF NoBucket
    <2>3. Reached' = Reached /\ ReachedIn(window)' = ReachedIn(window) BY <2>1 DEF Reached, ReachedIn
    <2>4. Cardinality(Reached) \in Nat BY RequestsAreFinite DEF Reached
    <2>5. window \notin disturbed => ReachedIn(window) = {} BY <1>t, <2>1 DEF LimitInv
    <2>6. \A w \in 1..Windows : Admitted(w)' = Admitted(w) BY <2>1 DEF Admitted
    <2> QED BY <1>t, <1>w, <2>1, <2>2, <2>3, <2>4, <2>5, <2>6 DEF LimitInv, LimitTypes, WindowKeepsLimit
  <1>5. ASSUME WindowPasses PROVE LimitInv'
    <2>1. window < Windows /\ window' = window + 1 /\ UNCHANGED <<bucket, request, disturbed>> BY <1>5 DEF WindowPasses
    <2>2. Reached' = Reached BY <2>1 DEF Reached
    <2>3. ReachedIn(window)' = {} BY <1>t, <2>1 DEF ReachedIn, Reached
    <2>4. \A w \in 1..Windows : Admitted(w)' = Admitted(w) BY <2>1 DEF Admitted
    <2>5. window' \in 1..Windows /\ request' \in [Requests -> [pc : RequestPcs, window : 0..window']]
      <3>1. 0..window \subseteq 0..(window + 1) BY <1>t
      <3> QED BY <1>t, <2>1, <3>1, RateLimitsAssumption
    <2>6. bucket'.start < window' BY <1>t, <2>1
    <2> QED BY <1>t, <1>w, <2>1, <2>2, <2>3, <2>4, <2>5, <2>6 DEF LimitInv, LimitTypes, WindowKeepsLimit
  <1>6. CASE UNCHANGED limitVars
    BY <1>6 DEF limitVars, LimitInv, LimitTypes, Reached, ReachedIn, WindowKeepsLimit, Admitted
  <1> QED BY <1>1, <1>2, <1>3, <1>4, <1>5, <1>6 DEF LimitNext

(* At the start nobody was counted. *)
LEMMA LimitStarts == LimitInit => LimitInv
  <1> SUFFICES ASSUME LimitInit PROVE LimitInv OBVIOUS
  <1>1. LimitTypes BY RateLimitsAssumption DEF LimitInit, LimitTypes, NoBucket, RequestPcs
  <1>2. Reached = {} /\ ReachedIn(window) = {} BY DEF LimitInit, Reached, ReachedIn
  <1>3. Cardinality({}) = 0 BY FS_EmptySet
  <1>4. \A w \in 1..Windows : Admitted(w) = {} BY DEF LimitInit, Admitted
  <1>5. WindowKeepsLimit BY <1>3, <1>4, RateLimitsAssumption DEF WindowKeepsLimit
  <1> QED BY <1>1, <1>2, <1>3, <1>5 DEF LimitInv, LimitInit, NoBucket

(* A window admits no more than its limit, unless the statement or the answer of a
   request comes after its window. *)
THEOREM WindowsKeepTheirLimit == LimitSpec => []WindowKeepsLimit
  <1>1. LimitInv => WindowKeepsLimit BY DEF LimitInv
  <1> QED BY <1>1, LimitStarts, LimitStep, PTL DEF LimitSpec

(* The bucket counts no more than the requests made, and no clock is ahead. *)
LEMMA LimitTyped == LimitInv => LimitTypeOK
  <1> SUFFICES ASSUME LimitInv PROVE LimitTypeOK OBVIOUS
  <1>1. Cardinality(Reached) <= Cardinality(Requests) /\ Cardinality(Reached) \in Nat /\ Cardinality(Requests) \in Nat
    BY RequestsAreFinite DEF Reached
  <1>2. bucket.start \in 0..Windows /\ bucket.count \in 0..Cardinality(Requests)
    BY <1>1, RateLimitsAssumption DEF LimitInv, LimitTypes
  <1>3. bucket = [start |-> bucket.start, count |-> bucket.count] BY DEF LimitInv, LimitTypes
  <1>4. bucket \in [start : 0..Windows, count : 0..Cardinality(Requests)] BY <1>2, <1>3
  <1> QED BY <1>4 DEF LimitTypeOK, LimitInv, LimitTypes

(* In every reachable state. *)
THEOREM LimitTypeCorrect == LimitSpec => []LimitTypeOK
  BY LimitTyped, LimitStarts, LimitStep, PTL DEF LimitSpec
=============================================================================
