-------------------------------- MODULE Dns ---------------------------------
(***************************************************************************)
(* The resolver of the gateway, src/dns/dns.c: a list of names, a thread   *)
(* for each name that is being resolved, and a thread that counts down how *)
(* long the answers hold.                                                  *)
(*                                                                         *)
(* When all attempts fail, or there is no socket, the entry keeps the      *)
(* state RESOLVING although no thread resolves it, and no query starts     *)
(* another one.                                                            *)
(***************************************************************************)
EXTENDS Integers, FiniteSets

CONSTANTS
    Names,
    Attempts,      \* DNS_QUERY_ATTEMPTS
    TimesToLive,   \* the times to live the server gives, in ticks of the thread
    MaxMoves,      \* bound: changes of the address of a name
    MaxDnsFailures \* bound: messages lost or late, errors of the server, sockets not created

VARIABLES
    query,        \* the entry of each name: status, address, time to live
    resolver,     \* the resolver thread of each name
    dnsMessages,  \* queries and answers on their way
    location,     \* the address of each name, and how often it changed
    failed,       \* history: attempts of the last resolver thread that failed
    dnsFailures

dnsVars == <<query, resolver, dnsMessages, location, failed, dnsFailures>>

\* tries: attempts left; heard: what the socket holds.
NoThread == [pc |-> "none", tries |-> 0]
Unknown == -1

Init ==
    /\ query = [n \in Names |-> [status |-> "none", ip |-> Unknown, ttl |-> 0]]
    /\ resolver = [n \in Names |-> NoThread]
    /\ dnsMessages = {}
    /\ location = [n \in Names |-> 0]
    /\ failed = [n \in Names |-> 0] /\ dnsFailures = 0

TypeOK ==
    /\ \A n \in Names :
          /\ query[n].status \in {"none", "invalid", "resolving", "valid"}
          /\ query[n].ip \in {Unknown} \cup 0 .. MaxMoves
          /\ query[n].ttl \in 0 .. 1 \cup TimesToLive
          /\ resolver[n].pc \in {"none", "started", "ask", "wait"} /\ resolver[n].tries \in 0 .. Attempts
    /\ location \in [Names -> 0 .. MaxMoves]
    /\ failed \in [Names -> 0 .. Attempts] /\ dnsFailures \in 0 .. MaxDnsFailures

Fails == dnsFailures < MaxDnsFailures /\ dnsFailures' = dnsFailures + 1

-----------------------------------------------------------------------------
\* dns_a_query: adds the name, or starts a resolver for an entry that is not valid
\* (dns_i8_add_entry, start_resolver).  What it returns may be the address of an old answer.
Query(n) ==
    /\ \/ /\ query[n].status = "none"
          /\ query' = [query EXCEPT ![n].status = "invalid"]
          /\ UNCHANGED <<resolver, failed>>
       \/ /\ query[n].status = "invalid"
          /\ query' = [query EXCEPT ![n].status = "resolving"]
          /\ resolver' = [resolver EXCEPT ![n] = [pc |-> "started", tries |-> Attempts]]
          /\ failed' = [failed EXCEPT ![n] = 0]
    /\ UNCHANGED <<dnsMessages, location, dnsFailures>>

\* resolver_thread: without a socket the thread exits.
OpenSocket(n) ==
    /\ resolver[n].pc = "started"
    /\ \/ resolver' = [resolver EXCEPT ![n].pc = "ask"] /\ UNCHANGED <<failed, dnsFailures>>
       \/ /\ resolver' = [resolver EXCEPT ![n] = NoThread]
          /\ failed' = [failed EXCEPT ![n] = Attempts] /\ Fails
    /\ UNCHANGED <<query, dnsMessages, location>>

\* build_query and the sending; an attempt is used up by it.
SendQuery(n) ==
    /\ resolver[n].pc = "ask"
    /\ resolver' = [resolver EXCEPT ![n] = [pc |-> "wait", tries |-> @.tries - 1]]
    /\ dnsMessages' = dnsMessages \cup {[kind |-> "query", name |-> n]}
    /\ UNCHANGED <<query, location, failed, dnsFailures>>

\* Mutant: the thread ends with the first attempt that fails.
Again_Never(thread) == NoThread
\* The next attempt, or none is left.
Again(thread) == IF thread.tries = 0 THEN NoThread ELSE [thread EXCEPT !.pc = "ask"]

Misses(n) ==
    /\ resolver' = [resolver EXCEPT ![n] = Again(@)]
    /\ failed' = [failed EXCEPT ![n] = @ + 1]

\* The socket's timer; with a message on its way that is a failure too.
TimedOut(n) ==
    /\ resolver[n].pc = "wait"
    /\ IF \E msg \in dnsMessages : msg.name = n THEN Fails ELSE UNCHANGED dnsFailures
    /\ Misses(n)
    /\ UNCHANGED <<query, dnsMessages, location>>

\* dns_i8_parse_A_record: an address and how long it holds, at least for one tick, or an
\* error.  A socket that is closed or was not asked does not take the message.
Hear(msg) ==
    LET n == msg.name IN
    /\ msg \in dnsMessages /\ msg.kind = "answer"
    /\ dnsMessages' = dnsMessages \ {msg}
    /\ UNCHANGED <<location, dnsFailures>>
    /\ \/ /\ resolver[n].pc = "wait" /\ msg.ip # Unknown
          /\ query' = [query EXCEPT ![n] = [status |-> "valid", ip |-> msg.ip,
                                            ttl |-> IF msg.ttl = 0 THEN 1 ELSE msg.ttl]]
          /\ resolver' = [resolver EXCEPT ![n] = NoThread]
          /\ UNCHANGED failed
       \/ /\ resolver[n].pc = "wait" /\ msg.ip = Unknown
          /\ Misses(n)
          /\ UNCHANGED query
       \/ /\ resolver[n].pc # "wait"
          /\ UNCHANGED <<query, resolver, failed>>

\* Mutant: an answer holds for ever.
Counted_Valid(entry) == [entry EXCEPT !.ttl = IF @ > 0 THEN @ - 1 ELSE 0]
\* dns_thread, once a second.
Counted(entry) ==
    LET ttl == IF entry.ttl > 0 THEN entry.ttl - 1 ELSE 0 IN
    [entry EXCEPT !.ttl = ttl,
                  !.status = IF ttl = 0 /\ @ = "valid" THEN "invalid" ELSE @]
DnsThread ==
    /\ query' = [n \in Names |-> Counted(query[n])]
    /\ UNCHANGED <<resolver, dnsMessages, location, failed, dnsFailures>>

-----------------------------------------------------------------------------
\* The server, and the network.
Serve(msg) ==
    /\ msg \in dnsMessages /\ msg.kind = "query"
    /\ \/ \E ttl \in TimesToLive :
             /\ dnsMessages' = (dnsMessages \ {msg}) \cup
                   {[kind |-> "answer", name |-> msg.name, ip |-> location[msg.name], ttl |-> ttl]}
             /\ UNCHANGED dnsFailures
       \/ /\ dnsMessages' = (dnsMessages \ {msg}) \cup
                {[kind |-> "answer", name |-> msg.name, ip |-> Unknown, ttl |-> 0]}
          /\ Fails
    /\ UNCHANGED <<query, resolver, location, failed>>

DnsMessageLost(msg) ==
    /\ dnsMessages' = dnsMessages \ {msg} /\ Fails
    /\ UNCHANGED <<query, resolver, location, failed>>

Move(n) ==
    /\ location[n] < MaxMoves
    /\ location' = [location EXCEPT ![n] = @ + 1]
    /\ UNCHANGED <<query, resolver, dnsMessages, failed, dnsFailures>>

ResolverThread(n) == OpenSocket(n) \/ SendQuery(n) \/ TimedOut(n)

Next ==
    \/ \E n \in Names : Query(n) \/ ResolverThread(n) \/ Move(n)
    \/ \E msg \in dnsMessages : Hear(msg) \/ Serve(msg) \/ DnsMessageLost(msg)
    \/ DnsThread

Spec == Init /\ [][Next]_dnsVars

\* An entry whose resolver is gone for good.
Abandoned(n) == query[n].status = "resolving" /\ resolver[n].pc = "none"

\* An entry is abandoned only when every attempt of its last resolver failed.
AbandonedAfterAllAttempts == \A n \in Names : Abandoned(n) => failed[n] = Attempts

\* A name that is asked for again and again follows the address that the server has for it,
\* whatever answers are lost, late, errors or of an older address, unless it is abandoned.
NamesFollow ==
    /\ [](TypeOK /\ AbandonedAfterAllAttempts)
    /\ \A n \in Names : \/ /\ <>[](query[n].status = "valid" => query[n].ip = location[n])
                           /\ []<>(query[n].status = "valid")
                        \/ <>[]Abandoned(n)
=============================================================================
