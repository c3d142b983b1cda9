------------------------------- MODULE Config -------------------------------
(***************************************************************************)
(* What config.Load makes of the environment and the .env file, and what   *)
(* the cache makes of the TTL it is given.                                 *)
(*                                                                         *)
(* A value is unset, empty, bad (it does not parse), or a number: a port,  *)
(* a duration, 1 for true, anything for a text.  A duration counts units,  *)
(* Millisecond of them to the millisecond, in words of 16 bits where Go    *)
(* has nanoseconds in words of 64.                                         *)
(***************************************************************************)
EXTENDS Integers

Value(kind, n) == [is |-> kind, n |-> n]
Unset    == Value("unset", 0)
Empty    == Value("empty", 0)
Bad      == Value("bad", 0)
Given(n) == Value("given", n)

Keys == {"APP_MODE", "HTTP_PORT", "DATABASE_URL", "REDIS_URL", "REDIS_TTL",
         "PPROF_ENABLED", "PPROF_PORT"}

MaxDuration == 2^15 - 1
Word(n)     == ((n + 2^15) % 2^16) - 2^15
Millisecond == 20
DefaultTTL  == 1000                 \* for a minute, which is beyond 16 bits

\* A .env file that cannot be read although it is there.
Broken == [k \in Keys |-> Bad]

\* godotenv.Load sets what the process was not given, and does not replace what
\* it was given, though it be empty; os.Getenv reads nothing for unset.
Effective(env, file) ==
    [k \in Keys |-> LET v == IF env[k] = Unset THEN file[k] ELSE env[k]
                    IN  IF v = Unset THEN Empty ELSE v]

Or(v, default) == IF v = Empty THEN default ELSE v.n

Parsed(e) ==
    [database |-> e["DATABASE_URL"] # Empty,
     cache |-> e["REDIS_URL"] # Empty, ttl |-> Or(e["REDIS_TTL"], DefaultTTL),
     port  |-> Or(e["HTTP_PORT"], 8080),
     pprof |-> Or(e["PPROF_ENABLED"], 0) = 1, pprofPort |-> Or(e["PPROF_PORT"], 6060)]

AnyPort   == Nat
ValidPort == 1..65535

Validates(c) ==
    /\ c.database
    /\ c.port \in ValidPort
    /\ c.cache => c.ttl > 0
    /\ c.pprof => c.pprofPort \in ValidPort /\ c.pprofPort # c.port

Configs == [database : BOOLEAN, cache : BOOLEAN, ttl : Int, port : Int, pprof : BOOLEAN,
            pprofPort : Int]

\* The configurations Load returns: none when it returns an error.
Load(env, file) ==
    LET e == Effective(env, file)
    IN  {c \in {Parsed(e)} :
            file # Broken /\ (\A k \in Keys : e[k] # Bad) /\ Validates(c)}

-----------------------------------------------------------------------------
(* The TTLs the cache derives.                                             *)

NoTTL == 0

\* go-redis rounds a TTL below a millisecond up to one, and sends none that is
\* not positive: the key stays for good.
Sent(d) == IF d <= 0 THEN NoTTL ELSE IF d < Millisecond THEN 1 ELSE d \div Millisecond

PageTTL(c)       == Sent(c.ttl)
RetiredTTL(c)    == Sent(Word(10 * c.ttl))
\* listKey rounds the TTL itself, as the script's PSETEX refuses zero.
Truncated(c)     == Word(10 * c.ttl) \div Millisecond
GenerationTTL(c) == IF Truncated(c) < 1 THEN 1 ELSE Truncated(c)

-----------------------------------------------------------------------------
(* Bounds: the environments told apart.                                    *)

Ports == {Empty, Given(0), Given(6060), Given(65535), Given(65536)}
TTLs  == {Empty, Bad} \cup
         {Given(d) : d \in {0, 1, 2, Millisecond, MaxDuration \div 10,
                            MaxDuration \div 10 + 1, MaxDuration}}

Environments ==
    [APP_MODE : {Empty, Bad}, HTTP_PORT : Ports, DATABASE_URL : {Unset, Empty, Given(0)},
     REDIS_URL : {Empty, Given(0)}, REDIS_TTL : TTLs,
     PPROF_ENABLED : {Empty, Given(0), Given(1)}, PPROF_PORT : Ports]

NoFile == [k \in Keys |-> Unset]
Files  == {NoFile, Broken,
           [NoFile EXCEPT !["DATABASE_URL"] = Given(0), !["HTTP_PORT"] = Given(0)]}

=============================================================================
