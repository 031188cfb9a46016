------------------------------- MODULE SignIn -------------------------------
(***************************************************************************)
(* Signing in to one account: login codes (src/lib/otp-service.ts),        *)
(* passwords and sign-out (src/lib/auth.ts), password resets               *)
(* (src/lib/password-reset.ts), changes by an administrator                *)
(* (src/app/api/users/[id]/route.ts), and the version that every session   *)
(* token is compared with (src/auth.config.ts).  A step is what happens    *)
(* between two awaits; a rate limit that refuses is a step not taken.      *)
(***************************************************************************)
EXTENDS Integers, Sequences, FiniteSets

CONSTANTS
  Clients,         \* requests that run at the same time
  OtpMaxAttempts,  \* OTP_MAX_ATTEMPTS
  MaxCodes,        \* bound on the login codes issued
  MaxTokens,       \* bound on the reset tokens issued
  AccountChanges   \* bound on the session version

ASSUME SignInAssumption ==
  /\ IsFiniteSet(Clients) /\ OtpMaxAttempts \in Nat \ {0}
  /\ MaxCodes \in Nat /\ MaxTokens \in Nat /\ AccountChanges \in Nat

VARIABLES
  account,   \* the User row; password counts its changes
  codes,     \* OtpChallenge rows of the user, in order of creation
  tokens,    \* PasswordResetToken rows, in order of creation
  client,    \* per request: where it is and what it has read
  sessions,  \* tokens handed out: the version they carry, the password that was typed
  uses       \* history: the codes and reset tokens that were accepted

signInVars == <<account, codes, tokens, client, sessions, uses>>

NoPassword == 0
Away == [pc |-> "idle", row |-> 0, password |-> NoPassword, version |-> 0]

SignInInit ==
  /\ account = [active |-> TRUE, password |-> 1, version |-> 0]
  /\ codes = <<>> /\ tokens = <<>>
  /\ client = [c \in Clients |-> Away]
  /\ sessions = {} /\ uses = <<>>

Goes(c, state) == client' = [client EXCEPT ![c] = state]
At(pc, row) == [Away EXCEPT !.pc = pc, !.row = row]
-----------------------------------------------------------------------------
(* requestLoginOtp: the account and the cooldown are read, *)
RequestCode(c) ==
  /\ client[c].pc = "idle" /\ account.active /\ Len(codes) < MaxCodes
  /\ codes # <<>> => ~codes[Len(codes)].cooling
  /\ Goes(c, At("issuing", 0))
  /\ UNCHANGED <<account, codes, tokens, sessions, uses>>

NewCode == [attempts |-> 0, consumed |-> FALSE, expired |-> FALSE, cooling |-> TRUE]

(* consumedAt; how old a retired code is does not matter any more. *)
Retired == [i \in DOMAIN codes |-> [codes[i] EXCEPT !.consumed = TRUE, !.expired = FALSE, !.cooling = FALSE]]

(* and one transaction retires the codes before and creates the new one. *)
IssueCode(c) ==
  /\ client[c].pc = "issuing" /\ Len(codes) < MaxCodes
  /\ codes' = Append(Retired, NewCode)
  /\ Goes(c, Away)
  /\ UNCHANGED <<account, tokens, sessions, uses>>

(* verifyLoginOtp: the latest code, as it is now, and the comparison with the guess. *)
ReadCode(c) ==
  /\ client[c].pc = "idle" /\ codes # <<>>
  /\ LET last == codes[Len(codes)]
     IN ~last.consumed /\ ~last.expired /\ last.attempts < OtpMaxAttempts
  /\ \E guess \in {"wrong", "right"} : Goes(c, At(guess, Len(codes)))
  /\ UNCHANGED <<account, codes, tokens, sessions, uses>>

CountWrongGuess(c) ==
  /\ client[c].pc = "wrong"
  /\ codes' = [codes EXCEPT ![client[c].row].attempts = @ + 1]
  /\ Goes(c, Away)
  /\ UNCHANGED <<account, tokens, sessions, uses>>

(* Faulty variant of Consumable: what was read is trusted. *)
ConsumableAsRead(i) == TRUE
Consumable(i) == ~codes[i].consumed /\ codes[i].attempts < OtpMaxAttempts

(* A right guess burns the code, if it still is live and has an attempt left. *)
ConsumeCode(c) ==
  LET i == client[c].row
  IN /\ client[c].pc = "right"
     /\ \/ /\ Consumable(i)
           /\ codes' = [codes EXCEPT ![i].consumed = TRUE]
           /\ uses' = uses \o <<[what |-> "code", row |-> i, latest |-> Len(codes), attempts |-> codes[i].attempts]>>
           /\ Goes(c, At("consumed", i))
        \/ ~Consumable(i) /\ Goes(c, Away) /\ UNCHANGED <<codes, uses>>
     /\ UNCHANGED <<account, tokens, sessions>>

(* The status of the account is checked by verifyLoginOtp and again by authorize,
   whose user goes into the session. *)
CheckAccount(c) ==
  /\ client[c].pc = "consumed"
  /\ Goes(c, IF account.active THEN At("entering", client[c].row) ELSE Away)
  /\ UNCHANGED <<account, codes, tokens, sessions, uses>>

EnterByCode(c) ==
  /\ client[c].pc = "entering"
  /\ sessions' = IF account.active
                 THEN sessions \cup {[version |-> account.version, password |-> NoPassword]} ELSE sessions
  /\ Goes(c, Away)
  /\ UNCHANGED <<account, codes, tokens, uses>>

(* authorize of the password: the user is read, the hash compared, and the user as
   it was read goes into the session. *)
ReadAccount(c) ==
  /\ client[c].pc = "idle" /\ account.active
  /\ Goes(c, [pc |-> "comparing", row |-> 0, password |-> account.password, version |-> account.version])
  /\ UNCHANGED <<account, codes, tokens, sessions, uses>>

(* Faulty variant of StampedVersion: the session gets the version of today. *)
VersionOfToday(c) == account.version
StampedVersion(c) == client[c].version

EnterByPassword(c) ==
  /\ client[c].pc = "comparing"
  /\ sessions' \in {sessions, sessions \cup {[version |-> StampedVersion(c), password |-> client[c].password]}}
  /\ Goes(c, Away)
  /\ UNCHANGED <<account, codes, tokens, uses>>
-----------------------------------------------------------------------------
Usable(i) == tokens[i].status = "unused"

(* requestPasswordReset: the account is read, *)
RequestReset(c) ==
  /\ client[c].pc = "idle" /\ account.active /\ Len(tokens) < MaxTokens
  /\ Goes(c, At("resetting", 0))
  /\ UNCHANGED <<account, codes, tokens, sessions, uses>>

(* and one transaction deletes the tokens not used and creates another. *)
IssueToken(c) ==
  /\ client[c].pc = "resetting" /\ Len(tokens) < MaxTokens
  /\ tokens' = Append([i \in DOMAIN tokens |-> IF Usable(i) THEN [tokens[i] EXCEPT !.status = "deleted"] ELSE tokens[i]],
                      [status |-> "unused", expired |-> FALSE])
  /\ Goes(c, Away)
  /\ UNCHANGED <<account, codes, sessions, uses>>

(* consumePasswordReset: the token is looked at before the password is hashed, *)
ReadToken(c) ==
  /\ client[c].pc = "idle"
  /\ \E i \in DOMAIN tokens : Usable(i) /\ ~tokens[i].expired /\ Goes(c, At("hashing", i))
  /\ UNCHANGED <<account, codes, tokens, sessions, uses>>

UseToken(i) ==
  /\ account' = [account EXCEPT !.password = @ + 1, !.version = @ + 1]
  /\ tokens' = [j \in DOMAIN tokens |-> [tokens[j] EXCEPT !.status = IF j = i THEN "used" ELSE "deleted"]]
  /\ uses' = uses \o <<[what |-> "token", row |-> i, latest |-> Len(tokens), attempts |-> 0]>>

(* and again in the transaction that uses it, by the time of the first look; the
   other tokens of the user are deleted with it. *)
ConsumeToken(c) ==
  /\ client[c].pc = "hashing" /\ account.version < AccountChanges
  /\ \/ Usable(client[c].row) /\ UseToken(client[c].row)
     \/ ~Usable(client[c].row) /\ UNCHANGED <<account, tokens, uses>>
  /\ Goes(c, Away)
  /\ UNCHANGED <<codes, sessions>>
-----------------------------------------------------------------------------
(* The event signOut, and the changes of an administrator: each counts the version up. *)
SignOut ==
  /\ account.version < AccountChanges
  /\ account' = [account EXCEPT !.version = @ + 1]
  /\ UNCHANGED <<codes, tokens, client, sessions, uses>>

Changed(active, password) == [active |-> active, password |-> password, version |-> account.version + 1]

ChangeAccount(active) ==
  /\ account.version < AccountChanges
  /\ \E password \in {account.password, account.password + 1} : account' = Changed(active, password)
  /\ UNCHANGED <<codes, tokens, client, sessions, uses>>

TimeGoesBy ==
  /\ \/ /\ codes # <<>> /\ \E expired \in BOOLEAN :
             codes' = [codes EXCEPT ![Len(codes)].cooling = FALSE, ![Len(codes)].expired = @ \/ expired]
        /\ UNCHANGED tokens
     \/ /\ tokens # <<>> /\ tokens' = [tokens EXCEPT ![Len(tokens)].expired = TRUE]
        /\ UNCHANGED codes
  /\ UNCHANGED <<account, client, sessions, uses>>

SignInNext ==
  \/ \E c \in Clients :
       \/ RequestCode(c) \/ IssueCode(c) \/ ReadCode(c) \/ CountWrongGuess(c) \/ ConsumeCode(c)
       \/ CheckAccount(c) \/ EnterByCode(c) \/ ReadAccount(c) \/ EnterByPassword(c)
       \/ RequestReset(c) \/ IssueToken(c) \/ ReadToken(c) \/ ConsumeToken(c)
  \/ SignOut \/ TimeGoesBy
  \/ \E active \in BOOLEAN : ChangeAccount(active)

SignInSpec == SignInInit /\ [][SignInNext]_signInVars
-----------------------------------------------------------------------------
SignInTypeOK ==
  /\ account \in [active : BOOLEAN, password : Nat \ {0}, version : 0..AccountChanges]
  /\ \A i \in DOMAIN codes : codes[i] \in [attempts : Nat, consumed : BOOLEAN, expired : BOOLEAN, cooling : BOOLEAN]
  /\ \A i \in DOMAIN tokens : tokens[i] \in [status : {"unused", "used", "deleted"}, expired : BOOLEAN]
  /\ sessions \subseteq [version : Nat, password : Nat]

(* "Two requests arriving together cannot both sign in", nor reset a password by one
   token; and neither works once a newer one has been issued, or once its attempts
   are spent, whenever the request was begun.  Guesses at the same time get no more
   than one each beyond the maximum. *)
AcceptedOnce ==
  /\ \A m, n \in DOMAIN uses : uses[m].what = uses[n].what /\ uses[m].row = uses[n].row => m = n
  /\ \A n \in DOMAIN uses : uses[n].row = uses[n].latest /\ uses[n].attempts < OtpMaxAttempts
  /\ \A i \in DOMAIN codes : codes[i].attempts < OtpMaxAttempts + Cardinality(Clients)

(* A session that is still accepted was opened with the password of today: every
   change ends the sessions before it, those whose sign-in it overtook included. *)
SessionsHoldCurrentPassword ==
  \A s \in sessions :
    account.active /\ s.version = account.version /\ s.password # NoPassword => s.password = account.password
=============================================================================
