------------------------------- MODULE Access -------------------------------
(***************************************************************************)
(* Who may do what on the delivery server (cmd/testmaker/auth.go and       *)
(* server_invites.go), and where the secrets behind the answer come from   *)
(* (config.go).                                                            *)
(*                                                                         *)
(* Every instance started on a home directory loads the same config.json,  *)
(* fills what is missing, saves the file when it changed, and serves with  *)
(* what it holds in memory from then on.  The server keeps no list of the  *)
(* tokens it hands out: a token is believed when it was signed with the    *)
(* secret of the instance that looks at it.  A signature is modelled by    *)
(* the secret it was made with.  Nobody signs with a secret they do not    *)
(* have; the empty secret of an instance without one everybody has.        *)
(***************************************************************************)
EXTENDS Integers, FiniteSets

CONSTANTS Instances,   \* processes started on this home directory
          Takers,      \* people who are invited
          Operator,    \* the person who reads the config file
          Tests,       \* composed tests; the server never deletes one
          Attempts,    \* session ids
          Secrets,     \* what generateSecret can return
          NoSecret,    \* an empty string in the config
          Absent,      \* there is no config file
          Torn,        \* a config file that does not parse
          FirstFiles,  \* the files the first start may find
          Overrides,   \* modes the -auth flag may force on a start
          Asked,       \* expiresInSeconds of a request for an invite; nobody asks for
                       \* a negative time
          DefaultTTL,  \* how long an invite lasts when nothing was asked
          MaxTime,     \* bound on the clock
          MaxInvites   \* bound on the invites minted

(* The clock is finer than a second and the expiry of an invite is not:   *)
(* two instants to a second.                                               *)
Tick == 2

(* A duration is a 64-bit integer; the model's is as narrow as this, so   *)
(* that a request can be too long for it.                                  *)
Span == 16

Modes == {"", "none", "token"}

Config == [mode : Modes, op : Secrets \cup {NoSecret},
           secret : Secrets \cup {NoSecret}, rest : BOOLEAN]

ASSUME SecretsAssumption == NoSecret \notin Secrets
ASSUME PeopleAssumption == Operator \notin Takers
ASSUME FilesAssumption == /\ FirstFiles \subseteq Config \cup {Absent}
                          /\ Absent \notin Config /\ Torn \notin Config
                          /\ Absent # Torn
                          /\ Overrides \subseteq {"none", "token"}
ASSUME TimeAssumption == /\ Asked \subseteq Nat /\ MaxTime \in Nat
                         /\ DefaultTTL \in 1 .. 7 /\ MaxInvites \in Nat

VARIABLES file,      \* config.json
          phase,     \* where an instance is in its start
          mem,       \* the config an instance holds
          generated,      \* secrets generated so far
          raced,     \* two first starts each made a secret of their own
          now,       \* the clock
          held,      \* tokens a person was given
          asked,     \* what the invites were asked for: whom, what, until when
          started    \* attempts

home == <<file, phase, mem, generated, raced>>
surface == <<held, asked, started>>
accessVars == <<home, now, surface>>

People == Takers \cup {Operator}

-----------------------------------------------------------------------------
(* Loading the configuration                                               *)

DefaultConfig == [mode |-> "", op |-> NoSecret, secret |-> NoSecret, rest |-> FALSE]

(* A file that is not there is the default; one that does not parse ends  *)
(* the start with an error.                                                *)
ParsedBug == IF file \in {Absent, Torn} THEN {DefaultConfig} ELSE {file}

Parsed == IF file = Torn THEN {} ELSE IF file = Absent THEN {DefaultConfig} ELSE {file}

ModeOf(cfg) == IF cfg.mode = "" THEN "token" ELSE cfg.mode

(* What a secret of the config may be after the defaults were applied.    *)
Filled(cfg, old) == IF ModeOf(cfg) = "token" /\ old = NoSecret THEN Secrets \ generated ELSE {old}

(* The defaults of the other fields are filled in too.                     *)
Completed(cfg, op, secret) == [mode |-> ModeOf(cfg), op |-> op, secret |-> secret, rest |-> TRUE]

Start(i, next) ==
  /\ phase[i] = "down"
  /\ phase' = [phase EXCEPT ![i] = next]

(* Two instances that both read the file before either saved it, and that *)
(* each made a secret.                                                     *)
Overlaps(i, secret) == \E j \in Instances \ {i} : phase[j] = "unsaved" /\ mem[j].secret # secret

LoadOrCreateConfig(i) ==
  \E read \in Parsed :
    \E op \in Filled(read, read.op), secret \in Filled(read, read.secret) :
      /\ op = secret => op = NoSecret
      /\ Start(i, IF Completed(read, op, secret) = read THEN "ready" ELSE "unsaved")
      /\ mem' = [mem EXCEPT ![i] = Completed(read, op, secret)]
      /\ generated' = generated \cup ({op, secret} \ {NoSecret})
      /\ raced' = (raced \/ Overlaps(i, secret))
      /\ UNCHANGED <<file, now, surface>>

(* os.WriteFile empties the file and then writes it.                       *)
TruncateConfig(i) ==
  /\ phase[i] = "unsaved"
  /\ phase' = [phase EXCEPT ![i] = "emptied"]
  /\ file' = Torn
  /\ UNCHANGED <<mem, generated, raced, now, surface>>

WriteConfig(i) ==
  /\ phase[i] = "emptied"
  /\ phase' = [phase EXCEPT ![i] = "ready"]
  /\ file' = mem[i]
  /\ UNCHANGED <<mem, generated, raced, now, surface>>

(* The -auth flag changes the mode of this start and is not saved.         *)
Serve(i) ==
  /\ phase[i] = "ready"
  /\ phase' = [phase EXCEPT ![i] = "up"]
  /\ \E mode \in Overrides \cup {mem[i].mode} : mem' = [mem EXCEPT ![i].mode = mode]
  /\ UNCHANGED <<file, generated, raced, now, surface>>

Stop(i) ==
  /\ phase[i] # "down"
  /\ phase' = [phase EXCEPT ![i] = "down"]
  /\ mem' = [mem EXCEPT ![i] = DefaultConfig]
  /\ UNCHANGED <<file, generated, raced, now, surface>>

-----------------------------------------------------------------------------
(* Tokens                                                                  *)

Token(kind, key, about, exp) == [kind |-> kind, key |-> key, about |-> about, exp |-> exp]

NoToken == Token("", NoSecret, NoSecret, 0)

(* Minting refuses to sign with an empty secret and verify does not refuse *)
(* to compare with it: these tokens need nobody to hand them out.  They may*)
(* say anything, and an invite among them need not end while the clock of  *)
(* the model runs.                                                         *)
Unkeyed == {Token("invite", NoSecret, tid, MaxTime + 1) : tid \in Tests}
             \cup {Token("session", NoSecret, sid, 0) : sid \in Attempts}

(* What a person can put in the Authorization header.                      *)
Presentable(p) ==
  held[p] \cup {NoToken} \cup Unkeyed
    \cup IF p = Operator THEN {Token("operator", mem[i].op, NoSecret, 0) : i \in Instances} ELSE {}

Enforced(i) == mem[i].mode = "token"

(* -auth token over a config of mode "none" enforces a mode it has no      *)
(* secret for.                                                             *)
Guarded(i) == Enforced(i) /\ mem[i].secret # NoSecret

VerifyOperator(i, tok) == /\ tok.kind = "operator" /\ tok.key # NoSecret
                          /\ tok.key = mem[i].op

Verify(i, tok, kind) == tok.kind = kind /\ tok.key = mem[i].secret

VerifyInvite(i, tok) == Verify(i, tok, "invite") /\ now \div Tick < tok.exp

RequireOperator(i, tok) == Enforced(i) => VerifyOperator(i, tok)

(* The gate of answer, complete and score, verbs that Execution models.    *)
RequireSessionBug(i, tok, sid) == Enforced(i) => \/ VerifyOperator(i, tok)
                                                \/ Verify(i, tok, "session")

RequireSession(i, tok, sid) ==
  Enforced(i) => \/ VerifyOperator(i, tok)
                 \/ Verify(i, tok, "session") /\ tok.about = sid

(* expiresInSeconds times a second, in the width of a duration.            *)
Wrapped(d) == ((d + Span \div 2) % Span) - Span \div 2

Lifetime(seconds) == IF Wrapped(seconds * Tick) <= 0 THEN DefaultTTL ELSE Wrapped(seconds * Tick)

InviteFor(i, tid, seconds) ==
  Token("invite", mem[i].secret, tid, (now + Lifetime(seconds)) \div Tick)

-----------------------------------------------------------------------------
(* The verbs.  Each names the instance that serves it, who calls and with  *)
(* which token.                                                            *)

(* The invite goes to the taker it was asked for.                          *)
HandleMintInvite(i, tok, tid, taker, seconds) ==
  /\ RequireOperator(i, tok)
  /\ mem[i].secret # NoSecret
  /\ Cardinality(asked) < MaxInvites
  /\ held' = [held EXCEPT ![taker] = @ \cup {InviteFor(i, tid, seconds)}]
  /\ asked' = asked \cup {[taker |-> taker, tid |-> tid,
                           until |-> now + IF seconds > 0 THEN seconds * Tick ELSE DefaultTTL]}
  /\ UNCHANGED <<home, now, started>>

(* The attempt is saved before its token is signed: without a secret the  *)
(* caller gets an error and the attempt stays.                             *)
StartAndRespond(i, p, tid) ==
  \E sid \in Attempts \ {a.sid : a \in started} :
    /\ started' = started \cup {[sid |-> sid, tid |-> tid, by |-> p,
                                 open |-> ~Guarded(i)]}
    /\ held' = IF Guarded(i)
                 THEN [held EXCEPT ![p] = @ \cup {Token("session", mem[i].secret, sid, 0)}]
                 ELSE held
    /\ UNCHANGED <<home, now, asked>>

HandleStartSession(i, p, tok, tid) == RequireOperator(i, tok) /\ StartAndRespond(i, p, tid)

(* The gate of the invite verbs looks at the token in every mode.          *)
HandleInviteStart(i, p, tok) == VerifyInvite(i, tok) /\ StartAndRespond(i, p, tok.about)

Request(i) ==
  /\ phase[i] = "up"
  /\ \E p \in People : \E tok \in Presentable(p) :
       \/ \E tid \in Tests, taker \in Takers, seconds \in Asked :
            HandleMintInvite(i, tok, tid, taker, seconds)
       \/ \E tid \in Tests : HandleStartSession(i, p, tok, tid)
       \/ HandleInviteStart(i, p, tok)

TimePasses ==
  /\ now < MaxTime
  /\ now' = now + 1
  /\ UNCHANGED <<home, surface>>

-----------------------------------------------------------------------------
AccessInit ==
  /\ file \in FirstFiles
  /\ generated = IF file = Absent THEN {} ELSE {file.op, file.secret} \ {NoSecret}
  /\ phase = [i \in Instances |-> "down"]
  /\ mem = [i \in Instances |-> DefaultConfig]
  /\ raced = FALSE
  /\ now = 0
  /\ held = [p \in People |-> {}]
  /\ asked = {} /\ started = {}

AccessNext ==
  \/ \E i \in Instances : \/ LoadOrCreateConfig(i)
                          \/ TruncateConfig(i)
                          \/ WriteConfig(i)
                          \/ Serve(i)
                          \/ Stop(i)
                          \/ Request(i)
  \/ TimePasses

AccessSpec == AccessInit /\ [][AccessNext]_accessVars

-----------------------------------------------------------------------------
Invites == [kind : {"invite"}, key : Secrets, about : Tests, exp : Int]
Sessions == [kind : {"session"}, key : Secrets, about : Attempts, exp : Int]

(* The variables keep their types, a token is about what its kind says and *)
(* is signed with a secret.                                                *)
AccessTypeOK ==
  /\ file \in Config \cup {Absent, Torn}
  /\ phase \in [Instances -> {"down", "unsaved", "emptied", "ready", "up"}]
  /\ mem \in [Instances -> Config]
  /\ generated \subseteq Secrets
  /\ raced \in BOOLEAN
  /\ now \in 0 .. MaxTime
  /\ held \in [People -> SUBSET (Invites \cup Sessions)]
  /\ asked \subseteq [taker : Takers, tid : Tests, until : Int]
  /\ started \subseteq [sid : Attempts, tid : Tests, by : People, open : BOOLEAN]

(* A taker gets no further than the invites asked for them, over restarts, *)
(* starts in either mode and instances that disagree about the secret      *)
(* (auth.go: requireInvite, requireSession, mintInvite), at every instance *)
(* that has a secret.  A token of theirs that it takes for an invite is for*)
(* a test they were invited to, before the time that was asked for, however*)
(* long that was and whatever the width of a duration made of it.          *)
InvitesEndInTime ==
  \A i \in Instances, p \in Takers : phase[i] = "up" /\ mem[i].secret # NoSecret =>
    \A tok \in Presentable(p) : VerifyInvite(i, tok) =>
      \E q \in asked : q.taker = p /\ q.tid = tok.about /\ now < q.until

(* Where the mode is enforced too they answer, complete and read the score *)
(* of nobody's attempt but their own.                                      *)
AttemptsAreTheirOwn ==
  \A i \in Instances, p \in Takers : phase[i] = "up" /\ Guarded(i) =>
    \A tok \in Presentable(p), a \in started : RequireSession(i, tok, a.sid) => a.by = p

(* And every attempt that was started there was started by the operator or *)
(* by a taker invited to its test.                                         *)
StartsWereInvited ==
  \A a \in started :
    \/ a.open \/ a.by = Operator
    \/ \E q \in asked : q.taker = a.by /\ q.tid = a.tid

TakersKeepToTheirOwn == InvitesEndInTime /\ AttemptsAreTheirOwn /\ StartsWereInvited

(* Unless two first starts overlapped, a token that was handed out carries*)
(* the signature of every instance that is up, now and after any restart, *)
(* crash in the middle of a save, or backfill of an old file (auth.go:25- *)
(* 27, "any instance verifies any token").                                 *)
TokensVerifyEverywhere ==
  raced \/ \A i \in Instances, p \in People :
             phase[i] = "up" => \A tok \in held[p] : tok.key = mem[i].secret
=============================================================================
