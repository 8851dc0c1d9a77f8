---------------------------- MODULE LogProperties ----------------------------
(***************************************************************************)
(* liblog/properties.cpp: whether a message is loggable, from properties     *)
(* that threads read through caches they share under a trylock, while the    *)
(* properties change.                                                        *)
(*                                                                          *)
(* The properties are external: property[k] is [value, serial], serial 0     *)
(* when it was never set, and area the serial number of all of them.  Key    *)
(* <<"persist", t>> is persist.log.tag.<t>, <<"log", t>> is log.tag.<t>;     *)
(* tag "" is the global default.  A cache is [pinfo, serial, c] with pinfo   *)
(* TRUE once the property was found and c "" for no character.               *)
(***************************************************************************)
EXTENDS Integers, Sequences, FiniteSets

CONSTANTS Threads, Tags, Values, MaxChanges, MaxCalls

Scopes == {"tag", "global"}
Where == {"persist", "log"}
Keys == Where \X (Tags \cup {""})

VARIABLES property, area,
          cache,              \* tag_cache and global_cache
          last_tag, global_serial, lock,
          thread,             \* the calls of __android_log_level() under way
          changes, calls      \* bounds
vars == <<property, area, cache, last_tag, global_serial, lock, thread, changes, calls>>

NoCache == [pinfo |-> FALSE, serial |-> 0, c |-> ""]
Idle == [pc |-> "idle"]

Init ==
    /\ property = [k \in Keys |-> [value |-> "", serial |-> 0]] /\ area = 1
    /\ cache = [k \in Scopes \X (1 .. 2) |-> NoCache]
    /\ last_tag = "" /\ global_serial = 0 /\ lock = ""
    /\ thread = [t \in Threads |-> Idle] /\ changes = 0 /\ calls = 0

\* What a value sets the level to: "" and anything else that is no level do not.
Level(c) == IF c = "V" THEN 2 ELSE IF c = "E" THEN 6 ELSE IF c \in {"S", "false"} THEN 8 ELSE -1

check_cache(x, k) == x.pinfo /\ property[k].serial # x.serial
KeyOf(scope, i, tag) == <<IF i = 1 THEN "persist" ELSE "log", IF scope = "tag" THEN tag ELSE "">>

\* __system_property_set(), by init
SetProperty(k, v) ==
    /\ changes < MaxChanges /\ changes' = changes + 1
    /\ area' = area + 1
    /\ property' = [property EXCEPT ![k] = [value |-> v, serial |-> area + 1]]
    /\ UNCHANGED <<cache, last_tag, global_serial, lock, thread, calls>>

-----------------------------------------------------------------------------
(***************************************************************************)
(* __android_log_level()                                                    *)
(***************************************************************************)
\* The known serial numbers are compared, if the lock is free.
TryLock(t, tag) ==
    LET locked == lock = ""
        changed(scope, of) == locked => \E i \in 1 .. 2 : check_cache(cache[<<scope, i>>], KeyOf(scope, i, of))
    IN
    /\ thread[t].pc = "idle" /\ calls < MaxCalls /\ calls' = calls + 1
    /\ lock' = IF locked THEN t ELSE lock
    /\ thread' = [thread EXCEPT ![t] =
          [pc |-> IF locked THEN "serial" ELSE "find", tag |-> tag, locked |-> locked, scope |-> "tag",
           i |-> 1, change |-> [s \in Scopes |-> changed(s, last_tag)], area |-> 0, c |-> "",
           temp |-> NoCache, since |-> changes]]
    /\ UNCHANGED <<property, area, cache, last_tag, global_serial, changes>>

\* The serial number of all properties, and the tag of the cache
Invalidated(tag) == [k \in DOMAIN cache |-> IF k[1] = "tag" /\ tag # last_tag
                                            THEN [cache[k] EXCEPT !.pinfo = FALSE, !.c = ""] ELSE cache[k]]
Serial(t) ==
    /\ thread[t].pc = "serial"
    /\ thread' = [thread EXCEPT ![t].pc = "find", ![t].area = area,
          ![t].change = [s \in Scopes |-> \/ @[s] \/ area # global_serial
                                          \/ s = "tag" /\ thread[t].tag # last_tag]]
    /\ cache' = Invalidated(thread[t].tag) /\ last_tag' = thread[t].tag
    /\ UNCHANGED <<property, area, global_serial, lock, changes, calls>>

\* The next cache, the global caches, or the end
Onward(x, c) ==
    IF c # "" /\ (x.scope = "global" \/ Level(c) >= 0) THEN [x EXCEPT !.pc = "unlock", !.c = c]
    ELSE IF c = "" /\ x.i = 1 THEN [x EXCEPT !.pc = "find", !.i = 2]
    ELSE IF x.scope = "tag" THEN [x EXCEPT !.pc = "find", !.scope = "global", !.i = 1, !.c = c]
    ELSE [x EXCEPT !.pc = "unlock"]

\* refresh_cache(), up to the serial number; a thread without the lock has its own
Find(t) ==
    LET x == thread[t]
        k == KeyOf(x.scope, x.i, x.tag)
        shared == cache[<<x.scope, x.i>>]
        mine == IF x.locked \/ x.scope = "global" THEN shared ELSE NoCache
        found == [mine EXCEPT !.pinfo = TRUE, !.serial = property[k].serial]
    IN
    /\ x.pc = "find"
    /\ \/ /\ ~x.change[x.scope] \/ (~mine.pinfo /\ property[k].serial = 0)
          /\ thread' = [thread EXCEPT ![t] = Onward(x, mine.c)] /\ UNCHANGED cache
       \/ /\ x.change[x.scope] /\ (mine.pinfo \/ property[k].serial > 0)
          /\ thread' = [thread EXCEPT ![t].pc = "read", ![t].temp = found]
          /\ cache' = IF x.locked THEN [cache EXCEPT ![<<x.scope, x.i>>] = found] ELSE cache
    /\ UNCHANGED <<property, area, last_tag, global_serial, lock, changes, calls>>

\* The value is read after its serial number.
Cached(x, k) == [x EXCEPT !.c = property[k].value]

Read(t) ==
    LET x == thread[t]
        new == Cached(x.temp, KeyOf(x.scope, x.i, x.tag))
    IN
    /\ x.pc = "read"
    /\ cache' = IF x.locked THEN [cache EXCEPT ![<<x.scope, x.i>>] = new] ELSE cache
    /\ thread' = [thread EXCEPT ![t] = Onward(x, new.c)]
    /\ UNCHANGED <<property, area, last_tag, global_serial, lock, changes, calls>>

\* The serial number from before the caches were looked at
SerialSeen_Late(t) == area
SerialSeen(t) == thread[t].area

Unlock(t) ==
    /\ thread[t].pc = "unlock"
    /\ global_serial' = IF thread[t].locked THEN SerialSeen(t) ELSE global_serial
    /\ lock' = IF thread[t].locked THEN "" ELSE lock
    /\ thread' = [thread EXCEPT ![t].pc = "return"]
    /\ UNCHANGED <<property, area, cache, last_tag, changes, calls>>

Return(t) ==
    /\ thread[t].pc = "return" /\ thread' = [thread EXCEPT ![t] = Idle]
    /\ UNCHANGED <<property, area, cache, last_tag, global_serial, lock, changes, calls>>

\* __android_log_is_loggable_len(): minimum -1 is ANDROID_LOG_DEFAULT
IsLoggable(prio, level, minimum, default) ==
    IF level >= 0 /\ minimum >= 0 THEN prio >= (IF level < minimum THEN level ELSE minimum)
    ELSE IF level >= 0 THEN prio >= level
    ELSE IF minimum >= 0 THEN prio >= minimum ELSE prio >= default

Next == \/ \E k \in Keys, v \in Values : SetProperty(k, v)
        \/ \E t \in Threads : \/ \E tag \in Tags : TryLock(t, tag)
                              \/ Serial(t) \/ Find(t) \/ Read(t) \/ Unlock(t) \/ Return(t)
Spec == Init /\ [][Next]_vars

-----------------------------------------------------------------------------
\* The level without any cache: the first of the two that is set, for the tag or else for
\* all.  The order is that of the code, which looks at persist.log.tag.<tag> before
\* log.tag.<tag>; the comment on the caches and README.property give the other one.
First(ks) == LET set == {i \in DOMAIN ks : property[ks[i]].value # ""}
             IN  IF set = {} THEN "" ELSE property[ks[CHOOSE i \in set : \A j \in set : i <= j]].value
PersistFirst(tag) == <<<<"persist", tag>>, <<"log", tag>>>>
DirectLevel(tag) ==
    IF Level(First(PersistFirst(tag))) >= 0 THEN Level(First(PersistFirst(tag)))
    ELSE Level(First(PersistFirst("")))

Decided(t) == thread[t].pc = "unlock" /\ thread[t].since = changes
Returning(t) == thread[t].pc = "return" /\ thread[t].since = changes

IsCurrent(t) == Level(thread[t].c) = DirectLevel(thread[t].tag)

(* If all calls are for one tag, the caches are never stale: a call under     *)
(* which no property changes gives the level that the properties say,         *)
(* whatever any thread cached before it.                                     *)
LevelIsCurrent == \A t \in Threads : Returning(t) => IsCurrent(t)

\* A call for another tag had its level from properties of that tag, and has recorded the
\* serial number of all properties without a look at the global ones: one of these was set
\* and is in no cache, and the call at hand believes that none has changed.
GlobalUnseen(t) ==
    /\ thread[t].scope = "global" /\ ~thread[t].change["global"]
    /\ \E i \in 1 .. 2 : ~cache[<<"global", i>>].pinfo /\ property[KeyOf("global", i, "")].serial > 0

(* With several tags, a call gives the level that the properties say, unless  *)
(* it has missed a global property that no call has looked at yet.           *)
LevelIsCurrentOrUnseen == \A t \in Threads : Decided(t) => IsCurrent(t) \/ GlobalUnseen(t)

(* "If both a priority for a tag and a minimum priority are set, then the    *)
(* lowest of the two values": no call ends with a level that makes a message *)
(* loggable that the properties as they are, with some minimum, do not.      *)
LowestOfTheTwo ==
    \A t \in Threads : Returning(t) =>
        \A prio \in {2, 6, 8}, minimum \in {-1, 2, 6} :
            LET set == {n \in {DirectLevel(thread[t].tag), minimum} : n >= 0}
            IN  IsLoggable(prio, Level(thread[t].c), minimum, 4) <=>
                    IF set = {} THEN prio >= 4 ELSE \E n \in set : prio >= n
=============================================================================
