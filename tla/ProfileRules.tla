----------------------------- MODULE ProfileRules ---------------------------
(* Which commands a device is sent, and which columns of the sheet its       *)
(* answers fill: the shipped profiles and those of the user in               *)
(* custom_rules.yaml (vendors/__init__.py), the profile that is resolved     *)
(* for one device (core/profile_resolver.py), the settings that leave out    *)
(* and order (core/settings.py), the rules applied to the output             *)
(* (core/inspector.py), and the saving of one profile among the others       *)
(* (service.py).  The file may be changed by another program at any time.    *)
EXTENDS Naturals, Sequences, SequencesExt, FiniteSets, Functions

CONSTANTS
    Shipped,       \* the profile the program brings for "shipped" devices
    BaseDocs,      \* profiles for a vendor and OS that are saved
    ModelDocs,     \* profiles for one model of them that are saved
    Written,       \* what other programs write into the file
    Setups,        \* settings: what is left out, aliases, orders
    Inventories,   \* lists: sequences of devices
    MaxSaves,      \* bound: profiles saved
    MaxWrites      \* bound: how often another program writes

VARIABLES
    rulesFile,       \* custom_rules.yaml
    loaded,     \* the file the program's modules were last loaded from
    setup,      \* settings.yaml
    work,       \* the run
    offers,     \* the files profiles may be copied from
    saves,      \* how many profiles were saved
    writes      \* how often another program wrote

ruleVars == <<rulesFile, loaded, setup, work, offers, saves, writes>>

Pairs == {"shipped", "own"}    \* a vendor and OS the program knows, and one of the user
NoProfile == [cmds |-> <<>>]
Nothing == <<>>                  \* a function on nothing

Readable(base, model) == [ok |-> TRUE, base |-> base, model |-> model]
Unreadable == [ok |-> FALSE]
NoRules == Readable([p \in Pairs |-> NoProfile], [p \in Pairs |-> NoProfile])

(* What a profile, a file, the settings and a list look like.  A rule that   *)
(* computes a usage turns one column into another.  An alias stands for a    *)
(* name that has no alias of its own: the code applies the aliases to a name *)
(* more than once, which then makes no difference.                           *)
IsSeq(s) == s \in Seq(ToSet(s))
IsItem(item) == IsSeq(item.cols) /\ (item.kind = "usage" => Len(item.cols) = 2)

IsProfile(p) ==
    /\ DOMAIN p = {"cmds", "backup", "rules", "conn", "handler"}
    /\ IsSeq(p.cmds)
    /\ p.rules = [c \in DOMAIN p.rules |-> p.rules[c]]
    /\ \A c \in DOMAIN p.rules : IsSeq(p.rules[c]) /\ \A item \in ToSet(p.rules[c]) : IsItem(item)

IsFile(f) ==
    \/ f = Unreadable
    \/ /\ f = Readable(f.base, f.model)
       /\ \A part \in {f.base, f.model} :
             /\ part = [p \in Pairs |-> part[p]]
             /\ \A p \in Pairs : part[p] = NoProfile \/ IsProfile(part[p])

IsSetup(s) ==
    /\ IsSeq(s.order) /\ \A p \in Pairs : IsSeq(s.orders[p])
    /\ \A x \in DOMAIN s.alias : s.alias[x] \in DOMAIN s.alias => s.alias[s.alias[x]] = s.alias[x]

IsInventory(devices) == IsSeq(devices) /\ \A d \in ToSet(devices) : d.pair \in Pairs /\ d.model \in BOOLEAN

ASSUME RulesAssumption ==
    /\ {MaxSaves, MaxWrites} \subseteq Nat
    /\ \A p \in {Shipped} \cup BaseDocs \cup ModelDocs : IsProfile(p)
    /\ \A f \in Written : IsFile(f)
    /\ \A s \in Setups : IsSetup(s)
    /\ \A devices \in Inventories : IsInventory(devices)

(* What a sequence has at the positions P, in their order; of a set; and     *)
(* without what it had before.                                               *)
Chosen(seq, P) ==
    LET Nth(k) == CHOOSE i \in P : Cardinality({j \in P : j <= i}) = k
    IN [k \in 1 .. Cardinality(P) |-> seq[Nth(k)]]
Only(seq, S) == Chosen(seq, {i \in DOMAIN seq : seq[i] \in S})
Once(seq) == Chosen(seq, {i \in DOMAIN seq : \A j \in 1 .. i - 1 : seq[j] # seq[i]})

----------------------------------------------------------------------------
(* Loading.  An entry of the file adds to what is shipped: its commands come *)
(* after, its rule for a command replaces the shipped one.                   *)
\* g, and f where g says nothing
Over(f, g) == [x \in DOMAIN f \cup DOMAIN g |-> IF x \in DOMAIN g THEN g[x] ELSE f[x]]

BuiltIn(p) ==
    IF p = "shipped" THEN Shipped
    ELSE [cmds |-> <<>>, backup |-> "", rules |-> Nothing, conn |-> Nothing, handler |-> Nothing]

\* _merge_inspection_commands
AddedCommands(had, cmds) == had \o Only(cmds, ToSet(cmds) \ ToSet(had))

Loaded(f, p) ==
    LET had == BuiltIn(p) IN
    IF ~f.ok \/ f.base[p] = NoProfile THEN had
    ELSE LET own == f.base[p] IN
         [cmds    |-> AddedCommands(had.cmds, own.cmds),
          backup  |-> IF own.backup = "" THEN had.backup ELSE own.backup,
          rules   |-> Over(had.rules, own.rules),
          conn    |-> IF DOMAIN own.conn = {} THEN had.conn ELSE own.conn,
          handler |-> IF DOMAIN own.handler = {} THEN had.handler ELSE own.handler]

HasModel(f, p) == f.ok /\ f.model[p] # NoProfile

\* resolve_device_profile: what a device of a pair, or of the model, gets
Resolved(f, d) ==
    LET base == Loaded(f, d.pair) IN
    IF ~d.model \/ ~HasModel(f, d.pair) THEN base
    ELSE LET own == f.model[d.pair] IN
         [own EXCEPT !.conn = Over(base.conn, @), !.handler = Over(base.handler, @)]

\* unsupported_inventory_profiles
Supported(f, d) == Loaded(f, d.pair).cmds # <<>> \/ (d.model /\ HasModel(f, d.pair))

----------------------------------------------------------------------------
(* Saving one profile (merge_custom_profile_rules_text): only its entry is   *)
(* replaced, in each section.                                                *)
Merged(f, p, isModel, doc) ==
    IF isModel THEN [f EXCEPT !.model[p] = doc] ELSE [f EXCEPT !.base[p] = doc]

\* what loads, saves and generates profiles is locked while a run is on
NoRun == work.st # "run"

\* save_custom_rules_text: a copy first, then the whole file at once, and the modules anew
SaveProfile(p, isModel, doc) ==
    /\ NoRun
    /\ saves < MaxSaves /\ saves' = saves + 1
    /\ rulesFile.ok
    /\ rulesFile' = Merged(rulesFile, p, isModel, doc)
    /\ loaded' = rulesFile'
    /\ UNCHANGED <<setup, work, offers, writes>>

WriteOutside ==
    /\ writes < MaxWrites
    /\ writes' = writes + 1
    /\ rulesFile' \in Written \ {rulesFile}
    /\ UNCHANGED <<loaded, setup, work, offers, saves>>

\* _ensure_runtime_modules_current, by whatever asks for profiles
Reload ==
    /\ NoRun /\ loaded # rulesFile
    /\ loaded' = rulesFile
    /\ UNCHANGED <<rulesFile, setup, work, offers, saves, writes>>

----------------------------------------------------------------------------
(* Rules.  A rule has items: one column, a group of columns, a column that   *)
(* is turned into another one, or code that may give more than it names.  s  *)
(* are the settings.                                                         *)
Named(item) == ToSet(item.cols)

\* _get_parse_ids_for_command, _get_output_columns_for_command
RulesFor(profile, c) == IF c \in DOMAIN profile.rules THEN profile.rules[c] ELSE <<>>
Listed(profile, c) == LET items == RulesFor(profile, c) IN FlattenSeq([i \in DOMAIN items |-> items[i].cols])
ColumnsOf(profile, c) == ToSet(Listed(profile, c))

LeftOut(s, p) == s.out[p]    \* [cmds, cols], per vendor and OS
Alias(s, col) == IF col \in DOMAIN s.alias THEN s.alias[col] ELSE col

\* the column is left out of what the command gives
Hidden(s, p, c, col) == c \in LeftOut(s, p).cmds \/ <<c, col>> \in LeftOut(s, p).cols

CommandsAnyHidden(s, p, profile) ==    \* MUTANT: one column that is left out takes the command along
    Only(profile.cmds, {c \in ToSet(profile.cmds) :
        c \notin LeftOut(s, p).cmds /\ \A col \in ColumnsOf(profile, c) : ~Hidden(s, p, c, col)})

\* _get_device_commands
CommandsFor(s, p, profile) ==
    Only(profile.cmds, {c \in ToSet(profile.cmds) :
        /\ c \notin LeftOut(s, p).cmds
        /\ ColumnsOf(profile, c) = {} \/ \E col \in ColumnsOf(profile, c) : ~Hidden(s, p, c, col)})

\* one item applied to an output it matches
Applied(got, item) ==
    IF item.kind = "usage"
    THEN IF item.cols[1] \in got THEN (got \ {item.cols[1]}) \cup {item.cols[2]} ELSE got
    ELSE got \cup (IF item.kind = "code" THEN item.more ELSE Named(item))

\* what the items up to the n-th leave, when those in "hits" match
After(items, hits) ==
    LET got[n \in 0 .. Len(items)] ==
            IF n = 0 THEN {} ELSE IF n \in hits THEN Applied(got[n - 1], items[n]) ELSE got[n - 1]
    IN got

\* _parse_command_output
Parsed(s, p, profile, c, hits) ==
    LET items == RulesFor(profile, c) IN
    {Alias(s, col) : col \in {k \in After(items, hits)[Len(items)] : ~Hidden(s, p, c, k)}}

\* what the outputs of the commands fill: <<k, i>> is the i-th item of the k-th command
Items(profile, cmds) == UNION {{<<k, i>> : i \in DOMAIN RulesFor(profile, cmds[k])} : k \in DOMAIN cmds}
Filled(s, p, profile, cmds, hits) ==
    UNION {Parsed(s, p, profile, cmds[k], {i \in DOMAIN RulesFor(profile, cmds[k]) : <<k, i>> \in hits}) : k \in DOMAIN cmds}

----------------------------------------------------------------------------
(* The sheet.                                                                *)
\* the columns a command gives, by the names the sheet has for them
Shown(s, p, profile, c) ==
    LET shown == Only(Listed(profile, c), {col \in ColumnsOf(profile, c) : ~Hidden(s, p, c, col)}) IN
    [j \in DOMAIN shown |-> Alias(s, shown[j])]

ShownFor(s, p, profile) ==
    LET cmds == CommandsFor(s, p, profile) IN FlattenSeq([k \in DOMAIN cmds |-> Shown(s, p, profile, cmds[k])])

\* get_available_inspection_columns
Available(s, rules, devices) ==
    Once(FlattenSeq([i \in DOMAIN devices |-> ShownFor(s, devices[i].pair, Resolved(rules, devices[i]))]))

\* resolve_inspection_column_order: the order for all, those of the profiles, the rest
Aliased(s, columns) == [i \in DOMAIN columns |-> Alias(s, columns[i])]
OrderOf(s, rules, devices) ==
    LET there == Available(s, rules, devices)
        profiles == Once([i \in DOMAIN devices |-> devices[i].pair])
        wanted == s.order \o FlattenSeq([i \in DOMAIN profiles |-> s.orders[profiles[i]]]) IN
    Once(Only(Aliased(s, wanted), ToSet(there)) \o there)

NoWork == [st |-> "idle"]
NoSheet == [first |-> <<>>, rest |-> {}]

\* run: "rules" is history, what the file held when the run began
BeginWork(devices) ==
    /\ work.st = "idle"
    /\ \A i \in DOMAIN devices : Supported(rulesFile, devices[i])
    /\ loaded' = rulesFile
    /\ work' = [st |-> "run", rules |-> rulesFile, all |-> devices, todo |-> devices, sent |-> <<>>,
                rows |-> [i \in DOMAIN devices |-> {}], order |-> OrderOf(setup, rulesFile, devices),
                sheet |-> NoSheet]
    /\ UNCHANGED <<rulesFile, setup, offers, saves, writes>>

\* the next device
WorkOnDevice ==
    /\ work.st = "run" /\ work.todo # <<>>
    /\ LET d == Head(work.todo)
           profile == Resolved(loaded, d)
           cmds == CommandsFor(setup, d.pair, profile) IN
       \E hits \in SUBSET Items(profile, cmds) :
          work' = [work EXCEPT !.todo = Tail(@), !.sent = Append(@, cmds),
                               !.rows[Len(work.sent) + 1] = Filled(setup, d.pair, profile, cmds, hits)]
    /\ UNCHANGED <<rulesFile, loaded, setup, offers, saves, writes>>

\* save_results_to_excel: the columns that are there, in their order, then the others
Sheet(rows, order) ==
    LET there == UNION {rows[i] : i \in DOMAIN rows} IN
    [first |-> Only(order, there), rest |-> there \ ToSet(order)]

EndWork ==
    /\ work.st = "run" /\ work.todo = <<>>
    /\ work' = [work EXCEPT !.st = "done", !.sheet = Sheet(work.rows, work.order)]
    /\ UNCHANGED <<rulesFile, loaded, setup, offers, saves, writes>>

PutAway == work.st = "done" /\ work' = NoWork /\ UNCHANGED <<rulesFile, loaded, setup, offers, saves, writes>>

----------------------------------------------------------------------------
(* What the profile dialog offers to copy (supported_profile_definitions):   *)
(* what is loaded, then files of the user's folder and the program's for     *)
(* kinds that are not loaded, the first one that names commands.             *)
Offered(f, folder) ==
    IF Loaded(f, "own").cmds # <<>> THEN "loaded" ELSE IF folder = "mine" THEN "mine" ELSE "example"

\* ensure_vendor_profile_files: a file for each kind that is offered, of what is loaded for it
GenerateFiles ==
    /\ NoRun
    /\ loaded' = rulesFile
    /\ offers' = IF Loaded(rulesFile, "own").cmds = <<>> THEN "empty" ELSE "mine"
    /\ UNCHANGED <<rulesFile, setup, work, saves, writes>>

----------------------------------------------------------------------------
RulesInit ==
    /\ rulesFile \in {NoRules} \cup Written
    /\ loaded = rulesFile
    /\ setup \in Setups
    /\ work = NoWork
    /\ offers \in {"none", "mine"}
    /\ saves = 0 /\ writes = 0

RulesNext ==
    \/ \E p \in Pairs, doc \in BaseDocs : SaveProfile(p, FALSE, doc)
    \/ \E p \in Pairs, doc \in ModelDocs : SaveProfile(p, TRUE, doc)
    \/ WriteOutside \/ Reload \/ GenerateFiles
    \/ \E devices \in Inventories : BeginWork(devices)
    \/ WorkOnDevice \/ EndWork \/ PutAway

----------------------------------------------------------------------------
DeviceKinds == [pair : Pairs, model : BOOLEAN]

(* Saving a profile changes what devices of that kind get, and of its models *)
(* only the way to connect; the profile of a new kind then is exactly the    *)
(* saved one.  A file that cannot be read is not replaced.                   *)
OneProfileSaved ==
    /\ rulesFile.ok
    /\ \E p \in Pairs, isModel \in BOOLEAN :
         /\ \A d \in DeviceKinds :
              \/ d = [pair |-> p, model |-> isModel]
              \/ d.pair = p /\ ~isModel /\ ~HasModel(rulesFile, p)
              \/ LET was == Resolved(rulesFile, d)  is == Resolved(loaded', d) IN
                 /\ was.cmds = is.cmds /\ was.backup = is.backup /\ was.rules = is.rules
                 /\ d.pair = p \/ was = is
         /\ p = "own" \/ isModel => \E doc \in BaseDocs \cup ModelDocs :
              LET is == Resolved(loaded', [pair |-> p, model |-> isModel]) IN
              <<is.cmds, is.backup, is.rules>> = <<doc.cmds, doc.backup, doc.rules>>

SaveTouchesOneProfile == [][saves' # saves => OneProfileSaved]_ruleVars

(* A run sends each device, in order, the commands of one profile as it was  *)
(* when the run began, and leaves one out only if the settings name it or    *)
(* everything it would fill.  No column the settings leave out is filled,    *)
(* and every one that is filled has its place, unless it came from code.     *)
RunFollowsTheProfiles ==
    work.st # "idle" =>
        \A i \in DOMAIN work.sent :
            LET d == work.all[i]
                profile == Resolved(work.rules, d)
                items == UNION {ToSet(profile.rules[c]) : c \in DOMAIN profile.rules}
                code == UNION {item.more : item \in {k \in items : k.kind = "code"}}
                spared == ToSet(profile.cmds) \ ToSet(work.sent[i]) IN
            /\ work.sent[i] = Only(profile.cmds, ToSet(work.sent[i]))
            /\ \A c \in spared :
                  \/ c \in LeftOut(setup, d.pair).cmds
                  \/ ColumnsOf(profile, c) # {} /\ \A col \in ColumnsOf(profile, c) : Hidden(setup, d.pair, c, col)
            /\ work.rows[i] \subseteq ToSet(work.order) \cup {Alias(setup, col) : col \in code}
            /\ \A col \in work.rows[i] : \E c \in ToSet(work.sent[i]) :
                  \E k \in ColumnsOf(profile, c) \cup code : Alias(setup, k) = col /\ ~Hidden(setup, d.pair, c, k)

\* a occurs before any b
Before(seq, a, b) == \E i \in DOMAIN seq : seq[i] = a /\ \A j \in 1 .. i : seq[j] # b

\* the sheet has every filled column once, and those the user ordered as he did
SheetIsComplete ==
    work.st = "done" =>
        LET first == work.sheet.first IN
        /\ ToSet(first) \cup work.sheet.rest = UNION {work.rows[i] : i \in DOMAIN work.rows}
        /\ Cardinality(ToSet(first)) = Len(first) /\ ToSet(first) \cap work.sheet.rest = {}
        /\ \A m, n \in DOMAIN first : Before(Aliased(setup, setup.order), first[m], first[n]) => m < n

\* a kind of device for which the program brings an example can always be copied
ExamplesStayOffered == Offered(loaded, offers) \in {"loaded", "mine", "example"}

(* The profiles are what the user saved, and a run does what they say.       *)
ProfilesAreRight == SaveTouchesOneProfile /\ [](RunFollowsTheProfiles /\ SheetIsComplete /\ ExamplesStayOffered)
=============================================================================
