------------------------------ MODULE CoreCfg ------------------------------
(***************************************************************************)
(* The settings of a server (LXZCoreCfg.cpp), and what scripts do to them  *)
(* (LuaLXZCoreCfg.cpp): a list of named values with one getter and one     *)
(* setter per type, saved to a file and loaded from it.  A value lives in  *)
(* a union next to the type it was made with; a setter of another type     *)
(* changes the union and not the type, and a getter of another type calls  *)
(* the setter with its default.  A call may bring the index of an entry    *)
(* (the reference), and then uses that entry whatever its name; a getter   *)
(* without one may bring a second name (the alias).                        *)
(*                                                                         *)
(* Values are small sets; floats are ones that "%f" prints exactly.  The   *)
(* save flag is left out: save does not look at it.                        *)
(***************************************************************************)
EXTENDS Integers, Sequences, FiniteSets, SequencesExt

CONSTANTS
  Names,     \* the names, as <<letters, case>>; case 0 is lower case
  Types,     \* the types callers use
  CfgValues, \* the values of every type
  MaxMixed   \* bound: calls stop breaking agreements once so many keys are mixed

CfgTypes == {"cfg_i", "cfg_f", "cfg_cstr", "cfg_p", "cfg_b", "cfg_u"}

ASSUME TypesAssumption == Types \subseteq CfgTypes
ASSUME ValueAssumption == CfgValues \subseteq Nat
ASSUME CfgBoundAssumption == MaxMixed \in Nat

\* tolower_.
Lower(name) == name[1]

Keys == {Lower(name) : name \in Names}

Unset == -1
NoRef == 0     \* the reference -1: entries are counted from 1 here
NoAlias == <<>>

VARIABLES
  m_vecCfg,  \* the entries: name, type and what the union holds
  file,      \* the lines of the saved file
  crashed,   \* the process died on a wild pointer
  kind,      \* key -> the type its callers agree on
  mixed,     \* the keys whose entry was used with another type or through a reference
             \* of another name, or that were loaded as another type (history)
  given,     \* other key -> the value it was last given (history)
  onDisk     \* other key -> the value it had when the file was saved (history)

cfgVars == <<m_vecCfg, file, crashed, kind, mixed, given, onDisk>>

\* A new object, for callers that agree on the given types.
CfgStart(agreed) ==
  /\ m_vecCfg = <<>>
  /\ file = <<>>
  /\ crashed = FALSE
  /\ kind = agreed
  /\ mixed = {}
  /\ given = [k \in Keys |-> Unset]
  /\ onDisk = [k \in Keys |-> Unset]

CfgInit == \E agreed \in [Keys -> Types] : CfgStart(agreed)

\* Mutant: names are compared as they are.
Ref_CaseMatters(cfg, name, alias) ==
  SelectInSeq(cfg, LAMBDA e : e.name = name \/ alias = <<Lower(e.name), 0>>)

\* Ref: the first entry of a name, whatever its case, or of its alias, which must be in
\* lower case; or 0.
Ref(cfg, name, alias) ==
  SelectInSeq(cfg, LAMBDA e : Lower(e.name) = Lower(name) \/ alias = <<Lower(e.name), 0>>)

\* The setter of type t: a new entry, or the union of entry at.  No entry is ever given
\* an alias of its own, so the setters' test of it never holds.
SetValue(cfg, at, name, t, v) ==
  IF at = 0 THEN Append(cfg, [name |-> name, type |-> t, holds |-> <<t, v>>])
            ELSE [cfg EXCEPT ![at].holds = <<t, v>>]

\* SetCString frees the string it replaces, and the caller of GetCString reads the one
\* it gets, whatever the union holds.
UsesWildString(cfg, at, t) == t = "cfg_cstr" /\ at # 0 /\ cfg[at].holds[1] # "cfg_cstr"

\* The entry a call uses, and the key it is an entry of.
Reached(name, alias, ref) == IF ref = NoRef THEN Ref(m_vecCfg, name, alias) ELSE ref

KeyAt(at, name) == IF at = 0 THEN Lower(name) ELSE Lower(m_vecCfg[at].name)

\* The history of the keys that are not mixed.
Kept(f) == [k \in Keys |-> IF k \in mixed' THEN Unset ELSE f[k]]

\* A call breaks the agreement about some keys.
Breaks(keys) ==
  /\ keys # {} => Cardinality(mixed) < MaxMixed
  /\ mixed' = mixed \cup keys

\* SetInt, SetFloat, SetCString, SetObj, SetBool, SetUint.  A wild string may be NULL,
\* which does no harm.
Set(name, ref, t, v) ==
  LET at == Reached(name, NoAlias, ref)
      k == KeyAt(at, name)
  IN /\ ~crashed
     /\ m_vecCfg' = SetValue(m_vecCfg, at, name, t, v)
     /\ crashed' \in {FALSE, UsesWildString(m_vecCfg, at, t)}
     /\ Breaks(IF k # Lower(name) THEN {k, Lower(name)} ELSE IF t # kind[k] THEN {k} ELSE {})
     /\ given' = Kept([given EXCEPT ![k] = v])
     /\ onDisk' = Kept(onDisk)
     /\ UNCHANGED <<file, kind>>

\* GetInt and the others: a missing entry, or one of another type, is set to the
\* default.
Get(name, alias, ref, t, def) ==
  LET at == Reached(name, alias, ref)
      k == KeyAt(at, name)
  IN /\ ~crashed
     /\ m_vecCfg' = IF at = 0 \/ m_vecCfg[at].type # t
                      THEN SetValue(m_vecCfg, at, name, t, def) ELSE m_vecCfg
     /\ crashed' \in {FALSE, UsesWildString(m_vecCfg, at, t)}
     /\ Breaks(IF t # kind[k] THEN {k} ELSE {})
     /\ given' = Kept(IF at = 0 THEN [given EXCEPT ![k] = def] ELSE given)
     /\ onDisk' = Kept(onDisk)
     /\ UNCHANGED <<file, kind>>

\* A getter or a setter with a reference to no entry, as after release or if a script
\* passes nil (0) for an empty list: it uses what is behind the end of the list, an entry
\* that was released or no pointer at all.
UseStaleRef(name) ==
  /\ ~crashed
  /\ crashed' \in BOOLEAN
  /\ Breaks({Lower(name)})
  /\ given' = Kept(given)
  /\ onDisk' = Kept(onDisk)
  /\ UNCHANGED <<m_vecCfg, file, kind>>

\* What save prints for entry i, by its type; for an object nothing is printed and
\* the buffer holds the line before it.
Line(i) ==
  [name |-> m_vecCfg[i].name, type |-> m_vecCfg[i].type, v |-> m_vecCfg[i].holds[2]]

Printed(i) ==
  LET printing == {j \in 1 .. i : m_vecCfg[j].type # "cfg_p"}
      last == CHOOSE j \in printing : \A h \in printing : h <= j
  IN IF printing = {} THEN <<>> ELSE <<Line(last)>>

WildEntry == \E i \in DOMAIN m_vecCfg : UsesWildString(m_vecCfg, i, m_vecCfg[i].type)

\* save.  A string entry is printed through its pointer; if the process dies of it a part
\* of the file is written.
Save ==
  LET lines == FlattenSeq([i \in DOMAIN m_vecCfg |-> Printed(i)])
  IN /\ ~crashed
     /\ crashed' \in {FALSE, WildEntry}
     /\ file' \in IF crashed' THEN Prefixes(lines) ELSE {lines}
     /\ mixed' = IF crashed' THEN Keys ELSE mixed
     /\ given' = Kept(given)
     /\ onDisk' = Kept(given)
     /\ UNCHANGED <<m_vecCfg, kind>>

\* release, which frees the strings, or the end of the process: a new list.
Release ==
  /\ crashed' \in {FALSE, ~crashed /\ WildEntry}
  /\ m_vecCfg' = <<>>
  /\ given' = [k \in Keys |-> Unset]
  /\ UNCHANGED <<file, kind, mixed, onDisk>>

\* The type load gives to a printed value: one with the prefix u is set as an int.
Parsed(t) == IF t = "cfg_u" THEN "cfg_i" ELSE t

\* load, for one line of the file.
LoadLine(cfg, line) ==
  SetValue(cfg, Ref(cfg, line.name, NoAlias), line.name, Parsed(line.type), line.v)

\* load: the lines are set one by one in the list there is.
Load ==
  LET loaded[n \in 0 .. Len(file)] ==
        IF n = 0 THEN m_vecCfg ELSE LoadLine(loaded[n - 1], file[n])
      Wild(n) == UsesWildString(loaded[n - 1], Ref(loaded[n - 1], file[n].name, NoAlias),
                                file[n].type)
      saved == {Lower(file[n].name) : n \in DOMAIN file}
  IN /\ ~crashed
     /\ m_vecCfg' = loaded[Len(file)]
     /\ crashed' \in {FALSE, \E n \in DOMAIN file : Wild(n)}
     /\ mixed' = mixed \cup {k \in saved : kind[k] = "cfg_u"}
     /\ given' = Kept([k \in Keys |-> IF kind[k] = "cfg_p" \/ onDisk[k] = Unset
                                        THEN given[k] ELSE onDisk[k]])
     /\ onDisk' = Kept(onDisk)
     /\ UNCHANGED <<file, kind>>

\* What C++ code and scripts call: with a reference, with an alias, or with neither.
CfgCall ==
  \E name \in Names, t \in Types, v \in CfgValues :
    \/ \E ref \in 0 .. Len(m_vecCfg) : Set(name, ref, t, v) \/ Get(name, NoAlias, ref, t, v)
    \/ \E alias \in Names : Get(name, alias, NoRef, t, v)

CfgNext == CfgCall \/ (\E name \in Names : UseStaleRef(name)) \/ Save \/ Release \/ Load

CfgSpec == CfgInit /\ [][CfgNext]_cfgVars
-----------------------------------------------------------------------------
\* A name whose callers agree on its type and use no reference of another name, nor it
\* theirs, keeps the value it was last given, or the first default, through misuse of
\* other names, aliases, saving and loading: it has one entry, of that type, whatever
\* the case it is written in.  Only a name that was misused can bring the server down.
KeepsValue ==
  /\ crashed => mixed # {}
  /\ \A k \in Keys \ mixed :
       LET entries == {i \in DOMAIN m_vecCfg : Lower(m_vecCfg[i].name) = k}
       IN IF given[k] = Unset THEN entries = {}
          ELSE /\ \E i \in entries : entries = {i}
               /\ \A i \in entries : /\ m_vecCfg[i].type = kind[k]
                                     /\ m_vecCfg[i].holds = <<kind[k], given[k]>>
=============================================================================
