------------------------------- MODULE Login -------------------------------
(***************************************************************************)
(* Login to the host server: the nonce store (auth/nonce.go), the two      *)
(* handlers of server/auth.go, the tokens (auth/auth.go) and the           *)
(* middleware that accepts them (auth/middleware.go).                      *)
(*                                                                         *)
(* Nonces are kept in memory, one per address, the newest replacing the    *)
(* others.  Verify runs under the store's mutex and consumes the nonce     *)
(* before it looks at it; the signature is checked and the token made      *)
(* after the mutex is released.  Tokens are signed with a configured       *)
(* secret, so they survive a restart of the server; nonces do not.         *)
(***************************************************************************)
EXTENDS Clock, Sequences

CONSTANTS
  Addresses,
  LoginHandlers, \* login requests served at once
  nonceTTL, tokenTTL,
  MaxNonces,    \* bound: nonces issued
  NoNonce, NoLogin, NoSignature

(* Nonces are random and never repeat: the n-th one issued is n. *)
Nonces == 1 .. MaxNonces

(* A signature of an address over the message GenerateNonce makes of the   *)
(* address itself and a nonce.                                             *)
Signature == Addresses \X Nonces

nonceEntry == [nonce : Nonces, expiresAt : 0 .. Horizon + nonceTTL]

(* at and upto record when, and after how many nonces, Verify succeeded. *)
LoginRequest == [address : Addresses, nonce : Nonces,
                 signature : Signature \cup {NoSignature},
                 at : 0 .. Horizon, upto : 0 .. MaxNonces]

Token == [address : Addresses, nonce : Nonces, at : 0 .. Horizon,
          upto : 0 .. MaxNonces, expiresAt : 0 .. Horizon + tokenTTL]

ASSUME LoginAssumption ==
  /\ nonceTTL \in Nat
  /\ tokenTTL \in Nat
  /\ MaxNonces \in Nat
  /\ Horizon \in Nat
  /\ NoNonce \notin nonceEntry
  /\ NoLogin \notin LoginRequest
  /\ NoSignature \notin Signature

VARIABLES
  nonces,    \* the nonce store
  verified,  \* the login each handler has verified the nonce of
  issued,    \* history: whom each nonce was issued to, and when
  signed,    \* the signatures users have made
  logins,    \* history: how many tokens each nonce gave
  tokens,    \* the tokens given out
  accesses   \* history: the requests the middleware let through

loginVars == <<nonces, now, verified, issued, signed, logins, tokens, accesses>>

LoginTypeOK ==
  /\ nonces \in [Addresses -> nonceEntry \cup {NoNonce}]
  /\ now \in 0 .. Horizon
  /\ verified \in [LoginHandlers -> LoginRequest \cup {NoLogin}]
  /\ issued \in Seq([address : Addresses, at : 0 .. Horizon])
  /\ Len(issued) <= MaxNonces
  /\ signed \subseteq Signature
  /\ logins \in [Nonces -> Nat]
  /\ tokens \subseteq Token
  /\ accesses \subseteq [address : Addresses, at : 0 .. Horizon]

NewNonceStore == [a \in Addresses |-> NoNonce]

LoginInit ==
  /\ nonces = NewNonceStore
  /\ now = 0
  /\ verified = [h \in LoginHandlers |-> NoLogin]
  /\ issued = <<>>
  /\ signed = {}
  /\ logins = [n \in Nonces |-> 0]
  /\ tokens = {}
  /\ accesses = {}

-----------------------------------------------------------------------------
(* Mutant of authNonce: the expiry is not set from the time to live. *)
authNonce_NoExpiry(a) ==
  /\ Len(issued) < MaxNonces
  /\ issued' = Append(issued, [address |-> a, at |-> now])
  /\ nonces' = [nonces EXCEPT ![a] = [nonce |-> Len(issued) + 1,
                                      expiresAt |-> Horizon + nonceTTL]]
  /\ UNCHANGED <<now, verified, signed, logins, tokens, accesses>>

(* Generate: a fresh nonce replaces the one the address had. *)
authNonce(a) ==
  /\ Len(issued) < MaxNonces
  /\ issued' = Append(issued, [address |-> a, at |-> now])
  /\ nonces' = [nonces EXCEPT ![a] = [nonce |-> Len(issued) + 1,
                                      expiresAt |-> now + nonceTTL]]
  /\ UNCHANGED <<now, verified, signed, logins, tokens, accesses>>

(* A user signs the message of a nonce issued to the user's address. *)
Sign(n) ==
  /\ n <= Len(issued)
  /\ signed' = signed \cup {<<issued[n].address, n>>}
  /\ UNCHANGED <<nonces, now, verified, issued, logins, tokens, accesses>>

(* Mutant of consume: the nonce is deleted only when it is wrong. *)
consume_Kept(a, n) ==
  IF nonces[a].nonce = n THEN nonces ELSE [nonces EXCEPT ![a] = NoNonce]

(* The nonce is deleted before it is compared. *)
consume(a, n) == [nonces EXCEPT ![a] = NoNonce]

(* authLogin up to Verify, with any nonce and any signature made so far.   *)
(* Without an entry for the address nothing changes.                       *)
VerifyNonce(h) ==
  /\ verified[h] = NoLogin
  /\ \E a \in Addresses, n \in Nonces, s \in signed \cup {NoSignature} :
       /\ nonces[a] # NoNonce
       /\ nonces' = consume(a, n)
       /\ verified' = IF now <= nonces[a].expiresAt /\ nonces[a].nonce = n
                   THEN [verified EXCEPT ![h] =
                           [address |-> a, nonce |-> n, signature |-> s,
                            at |-> now, upto |-> Len(issued)]]
                   ELSE verified
  /\ UNCHANGED <<now, issued, signed, logins, tokens, accesses>>

(* The rest of authLogin: VerifySignature recovers the signer of the       *)
(* message for this address and nonce; GenerateToken.                      *)
Issue(h) ==
  LET r == verified[h] IN
  /\ r # NoLogin
  /\ IF r.signature = <<r.address, r.nonce>>
       THEN /\ tokens' = tokens \cup
                 {[address |-> r.address, nonce |-> r.nonce, at |-> r.at,
                   upto |-> r.upto, expiresAt |-> now + tokenTTL]}
            /\ logins' = [logins EXCEPT ![r.nonce] = @ + 1]
       ELSE UNCHANGED <<tokens, logins>>
  /\ verified' = [verified EXCEPT ![h] = NoLogin]
  /\ UNCHANGED <<nonces, now, issued, signed, accesses>>

(* Mutant of Middleware: the expiry of the token is not checked. *)
Middleware_NoExpiry(t) ==
  /\ accesses' = accesses \cup {[address |-> t.address, at |-> now]}
  /\ UNCHANGED <<nonces, now, verified, issued, signed, logins, tokens>>

(* ValidateToken accepts, and the request runs as the token's address. *)
Middleware(t) ==
  /\ now < t.expiresAt
  /\ accesses' = accesses \cup {[address |-> t.address, at |-> now]}
  /\ UNCHANGED <<nonces, now, verified, issued, signed, logins, tokens>>

(* The expired nonces are dropped; when this happens is left to the host. *)
Cleanup ==
  /\ nonces' = [a \in Addresses |->
       IF nonces[a] # NoNonce /\ now > nonces[a].expiresAt THEN NoNonce ELSE nonces[a]]
  /\ UNCHANGED <<now, verified, issued, signed, logins, tokens, accesses>>

LoginTick ==
  /\ now < Horizon
  /\ now' = now + 1
  /\ UNCHANGED <<nonces, verified, issued, signed, logins, tokens, accesses>>

(* The server restarts; the requests it was serving end without answer. *)
LoginRestart ==
  /\ nonces' = NewNonceStore
  /\ verified' = [h \in LoginHandlers |-> NoLogin]
  /\ UNCHANGED <<now, issued, signed, logins, tokens, accesses>>

LoginNext ==
  \/ \E a \in Addresses : authNonce(a)
  \/ \E n \in Nonces : Sign(n)
  \/ \E h \in LoginHandlers : VerifyNonce(h) \/ Issue(h)
  \/ \E t \in tokens : Middleware(t)
  \/ Cleanup
  \/ LoginTick
  \/ LoginRestart

LoginSpec == LoginInit /\ [][LoginNext]_loginVars

-----------------------------------------------------------------------------
(* A nonce logs in at most once, however many requests present it at once  *)
(* and whatever restarts come between (Verify deletes under the mutex).    *)
LoginOnce == \A n \in Nonces : logins[n] <= 1

(* A token was earned with the newest nonce of its own address: the nonce  *)
(* was issued to it, signed by it, verified within nonceTTL of being       *)
(* issued, and no newer one had replaced it (Generate, Verify and          *)
(* VerifySignature together).                                              *)
LoginFresh ==
  \A t \in tokens :
     /\ issued[t.nonce].address = t.address
     /\ <<t.address, t.nonce>> \in signed
     /\ t.at - issued[t.nonce].at <= nonceTTL
     /\ \A k \in t.nonce + 1 .. t.upto : issued[k].address # t.address

(* Whoever is let through owns a token that was still valid then           *)
(* (Middleware, with tokens that outlive restarts).                        *)
AccessBacked ==
  \A x \in accesses : \E t \in tokens :
     t.address = x.address /\ t.at <= x.at /\ x.at < t.expiresAt

=============================================================================
