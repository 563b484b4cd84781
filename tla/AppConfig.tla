----------------------------- MODULE AppConfig -----------------------------
(***************************************************************************)
(* application_config: the value of a key comes from an argument, the      *)
(* environment or a configuration file; files stay open once read, until   *)
(* reload() reads them anew for the values that are linked.                *)
(***************************************************************************)
EXTENDS ProgramArgs, FiniteSets

CONSTANTS
    ConfigKeys,             \* keys of values
    ConfigVals,             \* values that fit; Unreadable is one that does not
    Groups,                 \* the groups searched: the app's name, without prefix,
                            \* --config-group, "defaults", in this order
    Tags,                   \* the tags that are not empty, in order
    Loaders,                \* application_reconfig_value objects
    EditPlaces,             \* bound: the positions in the search whose files change
    MaxEdits                \* bound: changes of files

ASSUME ConfigAssumption == {None, Unreadable} \cap ConfigVals = {}

NoFile == <<>>

NoValue == [key |-> None, val |-> None]

FileContent == [ConfigKeys -> ConfigVals \cup {None, Unreadable}]

VARIABLES
    argOf, envOf,           \* what arguments and environment say of a key
    disk,                   \* the files there are: contents by place, or NoFile
    opened,                 \* _open_configs, as far as read
    values,                 \* of the loaders: [key, val]
    fresh,                  \* no file has changed since the last reload
    edits

configVars == <<argOf, envOf, disk, opened, values, fresh, edits>>

-----------------------------------------------------------------------------
(* Files.  A place is the group, the tag in the name or None, the kind of  *)
(* directory and the extension; the secrets come last.                     *)

Secrets == <<"secrets">>

TagOrNone == Append(Tags, None)

\* _find_config_of() for every group, and _find_in_secrets_fs().
SearchOrder ==
    LET kinds == <<"user", "system", "install">>
        exts == <<"yaml", "json">>
        T == Len(TagOrNone)
        N == Len(Groups) * 3 * T * 2
    IN  [n \in 1..(N + 1) |->
            IF n > N THEN Secrets
            ELSE <<Groups[((n - 1) \div (6 * T)) + 1], kinds[(((n - 1) \div (2 * T)) % 3) + 1],
                   TagOrNone[(((n - 1) \div 2) % T) + 1], exts[((n - 1) % 2) + 1]>>]

Places == {SearchOrder[n] : n \in DOMAIN SearchOrder}

\* _get_config(): a file that exists is read once.
ConfigAt(place, onDisk, cache) ==
    IF onDisk[place] = NoFile THEN NoFile
    ELSE IF cache[place] # NoFile THEN cache[place] ELSE onDisk[place]

FoundLast(key, onDisk, cache) ==    \* mutant of FoundAt
    LET has == {n \in DOMAIN SearchOrder :
                  LET c == ConfigAt(SearchOrder[n], onDisk, cache) IN c # NoFile /\ c[key] # None}
    IN  IF has = {} THEN 0 ELSE CHOOSE n \in has : \A k \in has : n >= k

\* _find_in(), for all the places in order: the first that has the key.
FoundAt(key, onDisk, cache) ==
    LET has == {n \in DOMAIN SearchOrder :
                  LET c == ConfigAt(SearchOrder[n], onDisk, cache) IN c # NoFile /\ c[key] # None}
    IN  IF has = {} THEN 0 ELSE CHOOSE n \in has : \A k \in has : n <= k

\* The files that the search opens on its way.
OpenedBy(key, onDisk, cache) ==
    LET stop == FoundAt(key, onDisk, cache) IN
    [p \in Places |->
        IF cache[p] # NoFile \/ onDisk[p] = NoFile THEN cache[p]
        ELSE IF stop # 0 /\ \E n \in (stop + 1)..Len(SearchOrder) : SearchOrder[n] = p THEN cache[p]
        ELSE onDisk[p]]

FromFiles(key, onDisk, cache) ==
    LET n == FoundAt(key, onDisk, cache)
    IN  IF n = 0 THEN None ELSE ConfigAt(SearchOrder[n], onDisk, cache)[key]

\* fetch(): the first source with a value that can be read; None is a failure.
Fetched(key, args, env, onDisk, cache) ==
    IF args[key] \in ConfigVals THEN args[key]
    ELSE IF env[key] \in ConfigVals THEN env[key]
    ELSE LET v == FromFiles(key, onDisk, cache) IN IF v \in ConfigVals THEN v ELSE None

\* Only a fetch that gets as far as the files reads any.
CacheAfterFetch(key, args, env, onDisk, cache) ==
    IF {args[key], env[key]} \cap ConfigVals # {} THEN cache ELSE OpenedBy(key, onDisk, cache)

-----------------------------------------------------------------------------
ConfigInit ==
    /\ argOf \in [ConfigKeys -> {None, Unreadable} \cup ConfigVals]
    /\ envOf \in [ConfigKeys -> {None} \cup ConfigVals]
    /\ disk = [p \in Places |-> NoFile]
    /\ opened = [p \in Places |-> NoFile]
    /\ values = [l \in Loaders |-> NoValue]
    /\ fresh = FALSE
    /\ edits = 0

\* Somebody writes, changes or removes a file.
EditFile(p, c) ==
    /\ edits < MaxEdits /\ disk[p] # c
    /\ disk' = [disk EXCEPT ![p] = c]
    /\ edits' = edits + 1
    /\ fresh' = FALSE
    /\ UNCHANGED <<argOf, envOf, opened, values>>

\* An application_reconfig_value is made: fetched and linked.
CreateValue(l, key, initial) ==
    /\ values[l] = NoValue
    /\ LET v == Fetched(key, argOf, envOf, disk, opened)
       IN  values' = [values EXCEPT ![l] = [key |-> key, val |-> IF v = None THEN initial ELSE v]]
    /\ opened' = CacheAfterFetch(key, argOf, envOf, disk, opened)
    /\ fresh' = FALSE
    /\ UNCHANGED <<argOf, envOf, disk, edits>>

DestroyValue(l) ==
    /\ values[l] # NoValue
    /\ values' = [values EXCEPT ![l] = NoValue]
    /\ UNCHANGED <<argOf, envOf, disk, opened, fresh, edits>>

\* reload(): when there is something linked, forget the files and fetch all of
\* it again; a value that is no longer found stays what it was.
Linked == {l \in Loaders : values[l] # NoValue}

Reload ==
    /\ Linked # {}
    /\ LET empty == [p \in Places |-> NoFile]
           Again(l) == Fetched(values[l].key, argOf, envOf, disk, empty)
       IN  /\ values' = [l \in Loaders |->
                            IF l \notin Linked \/ Again(l) = None THEN values[l]
                            ELSE [values[l] EXCEPT !.val = Again(l)]]
           /\ opened' = [p \in Places |->
                            LET by == {l \in Linked : CacheAfterFetch(values[l].key, argOf, envOf, disk, empty)[p] # NoFile}
                            IN  IF by = {} THEN NoFile ELSE disk[p]]
    /\ fresh' = TRUE
    /\ UNCHANGED <<argOf, envOf, disk, edits>>

ConfigNext ==
    \/ \E n \in EditPlaces, c \in FileContent \cup {NoFile} : EditFile(SearchOrder[n], c)
    \/ \E l \in Loaders : DestroyValue(l) \/ \E k \in ConfigKeys, v \in ConfigVals : CreateValue(l, k, v)
    \/ Reload

-----------------------------------------------------------------------------
\* What a search in the files finds is the value of the first place in the order
\* that has the key: user before system before installed, tagged before plain,
\* the application's own before the defaults and the secrets.
Precedes(p, q) == \E i, j \in DOMAIN SearchOrder : i < j /\ SearchOrder[i] = p /\ SearchOrder[j] = q

\* After a reload every linked value is what its best source says now, wherever
\* it was read before; a file that is open never hides a change that it was
\* told to look at.
ReloadedValuesAreCurrent ==
    fresh => \A l \in Linked :
        LET k == values[l].key IN
        \/ values[l].val = argOf[k]
        \/ argOf[k] \notin ConfigVals /\ values[l].val = envOf[k]
        \/ /\ {argOf[k], envOf[k]} \cap ConfigVals = {}
           /\ LET having == {p \in Places : disk[p] # NoFile /\ disk[p][k] # None}
              IN  \/ having = {}
                  \/ \E p \in having : /\ \A q \in having \ {p} : Precedes(p, q)
                                       /\ disk[p][k] \in {values[l].val, Unreadable}
=============================================================================
