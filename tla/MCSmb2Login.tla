---------------------------- MODULE MCSmb2Login ----------------------------
(***************************************************************************)
(* Parties for Smb2Login: what a caller and a server can be set to, varied *)
(* around a user with the right password at a server that signs.           *)
(***************************************************************************)
EXTENDS Smb2Login

Secret == [password |-> "secret"]
Wrong == [password |-> "wrong"]
Hashed == [ntlm |-> MD4(Secret)]
Nobody == [password |-> Empty]

User ==
  [version |-> "any", seal |-> FALSE, sign |-> FALSE, mode |-> "enabled", user |-> "alice",
   password |-> Secret, wraps |-> FALSE, passthrough |-> FALSE]
Signing ==
  [version |-> "any", seal |-> FALSE, signing_enabled |-> TRUE, allow_anonymous |-> FALSE,
   users |-> "known", password |-> Secret, session |-> "accepts", hostname |-> "AniShelf"]
\* smb2_server_jni.c:133 and 780: no signing, anyone may come, no passwords.
AniShelf == [Signing EXCEPT !.signing_enabled = FALSE, !.allow_anonymous = TRUE, !.users = "unknown"]

Users ==
  {[User EXCEPT !.version = v, !.sign = s, !.mode = m] : v \in Versions, s \in BOOLEAN, m \in {"enabled", "required"}}
  \cup {[User EXCEPT !.password = p, !.mode = m, !.wraps = w, !.version = v] :
          p \in {Zero, Wrong, Hashed, Nobody}, m \in {"enabled", "required"}, w \in BOOLEAN, v \in {"any", "0300"}}
  \cup {[User EXCEPT !.seal = TRUE, !.version = v] : v \in Versions}
  \cup {[User EXCEPT !.user = u] : u \in {None, Empty}}
  \cup {[User EXCEPT !.passthrough = TRUE], [User EXCEPT !.wraps = TRUE]}
Servers ==
  {Signing, AniShelf, [Signing EXCEPT !.users = "unknown"], [Signing EXCEPT !.users = "refused"],
   [Signing EXCEPT !.signing_enabled = FALSE], [Signing EXCEPT !.allow_anonymous = TRUE],
   [Signing EXCEPT !.seal = TRUE], [Signing EXCEPT !.session = "failing"], [Signing EXCEPT !.session = "missing"],
   [Signing EXCEPT !.version = "any2"], [Signing EXCEPT !.version = "0302"],
   [Signing EXCEPT !.hostname = Empty]}
Pairs == [client : Users, server : Servers]
=============================================================================
