------------------------------- MODULE Icons --------------------------------
(***************************************************************************)
(* icons.c: which .desktop file belongs to a class of windows, the icon it  *)
(* gives, the user's overrides and the cache of answers.                   *)
(*                                                                         *)
(* A file is [stem, suffix, icon, exec, wmclass]; "" is a key it does not   *)
(* have.  Its name is the stem and .desktop ("plain"), the same in other    *)
(* letters ("caps"), or goes on after that, as that of a backup file does   *)
(* ("more").  A list of files is in the order in which the code meets them: *)
(* directory by directory, and in one directory as readdir() gives them.   *)
(***************************************************************************)
EXTENDS Selection, SequencesExt

CONSTANTS
    Class,      \* classes of windows
    Fold,       \* Fold[c]: its lower case
    LastPart,   \* LastPart[c]: what follows its last dot, in lower case; or ""
    Within,     \* the pairs <<stem, Fold[c]>> where strstr finds the second
                \* in the lower-cased name that has the first
    MaxCache    \* MAX_CACHE: 128 in the code

ASSUME CacheAssumption == MaxCache \in Nat \ {0}

FALLBACK_ICON == "application-x-executable"

(* The first file of a list that passes a test; none has no name. *)
NoFile == [stem |-> "", suffix |-> "", icon |-> "", exec |-> "", wmclass |-> ""]
First(files, Test(_)) ==
    LET n == SelectInSeq(files, Test) IN IF n = 0 THEN NoFile ELSE files[n]

(* The first of several answers that is one. *)
FirstFound(found) == First(found, LAMBDA f : f # NoFile)

(* A name that is put together is looked up as it is. *)
named(files, name) == First(files, LAMBDA f : f.suffix = "plain" /\ f.stem = name)

search_exact(files, c) == named(files, c)
search_lower(files, c) == named(files, Fold[c])

(* The full name, which is tried as well, has been tried by search_lower.   *)
search_reverse_domain(files, c) ==
    IF LastPart[c] = "" THEN NoFile ELSE named(files, LastPart[c])

(* The directories are read for names that end in .desktop ... *)
search_scan(files, c) ==
    First(files, LAMBDA f : f.suffix # "more" /\ <<f.stem, Fold[c]>> \in Within)
search_wmclass(files, c) ==
    First(files, LAMBDA f : /\ f.suffix # "more"
                            /\ f.wmclass # "" /\ Fold[f.wmclass] = Fold[c])

(* ... but for the launcher's scan .desktop may stand anywhere in the name. *)
scan_anywhere(files, c) == First(files, LAMBDA f : <<f.stem, Fold[c]>> \in Within)

(* The file whose icon is used: only files with an Icon key count. *)
IconFile(files, c) ==
    LET with == MembersIn(files, {f \in Range(files) : f.icon # ""})
    IN  FirstFound(<<search_exact(with, c), search_lower(with, c),
                     search_reverse_domain(with, c), search_scan(with, c),
                     search_wmclass(with, c)>>)

search(files, c) ==
    LET f == IconFile(files, c) IN IF f = NoFile THEN FALLBACK_ICON ELSE f.icon

(* Mutant of icons_find_desktop: StartupWMClass before the scan. *)
findWmclassFirst(files, c) ==
    FirstFound(<<search_exact(files, c), search_lower(files, c),
                 search_wmclass(files, c), scan_anywhere(files, c)>>)

(* The file that is launched: no matter whether it has an icon, without the *)
(* reverse-domain strategy, and with a scan of its own.                    *)
icons_find_desktop(files, c) ==
    FirstFound(<<search_exact(files, c), search_lower(files, c),
                 scan_anywhere(files, c), search_wmclass(files, c)>>)

-----------------------------------------------------------------------------
(* The cache and the overrides: sequences of [class, icon]. *)

(* Mutant of Entry: classes are compared as they are spelt. *)
EntryAsSpelt(table, c) == SelectInSeq(table, LAMBDA e : e.class = c)

(* Its place in a table; 0 if it has none. *)
Entry(table, c) == SelectInSeq(table, LAMBDA e : Fold[e.class] = Fold[c])

(* Mutant of cache_insert: the cache is full one entry later. *)
insertOneMore(cache, c, icon) ==
    (IF Len(cache) > MaxCache THEN Tail(cache) ELSE cache)
        \o <<[class |-> c, icon |-> icon]>>

(* A full cache loses its oldest entry. *)
cache_insert(cache, c, icon) ==
    (IF Len(cache) >= MaxCache THEN Tail(cache) ELSE cache)
        \o <<[class |-> c, icon |-> icon]>>

icons_set_override(overrides, l) ==
    LET n == Entry(overrides, l.class)
    IN  IF n # 0 THEN [overrides EXCEPT ![n].icon = l.icon]
        ELSE IF Len(overrides) < MaxCache THEN Append(overrides, l)
        ELSE overrides

(* icons_get_name: the answer, and the cache afterwards. *)
Answer(icon, cache) == [icon |-> icon, cache |-> cache]

icons_get_name(files, overrides, cache, c) ==
    LET o == Entry(overrides, c)
        n == Entry(cache, c)
        icon == search(files, c)
    IN  IF o # 0 THEN Answer(overrides[o].icon, cache)
        ELSE IF n # 0 THEN Answer(cache[n].icon, cache)
        ELSE Answer(icon, cache_insert(cache, c, icon))
=============================================================================
