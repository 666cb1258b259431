-------------------------------- MODULE AmOpts --------------------------------
(***************************************************************************)
(* The options of src/src/libam_opts.c: descriptors that a program         *)
(* registers, and command lines that set the members they describe.  A     *)
(* text is the dashes it begins with and the rest; a command line is drawn *)
(* as it is read, an argument or an option with its value at a time.       *)
(* Nothing here is locked or returns before it is done.                    *)
(***************************************************************************)
EXTENDS AmList, SequencesExt

CONSTANTS Options,    \* the descriptors of the program
          Descriptor, \* their members
          Texts,      \* the texts on command lines
          Names,      \* the texts that do as names: printable, no spaces, short
          Lines,      \* the printable texts
          Number,     \* the texts that are decimals, with what they read as
          Whole,      \* those without a dot
          OptAnchor,  \* the link opt_list
          ReadLimit,  \* bound: calls of amopts_read
          ListLimit,  \* bound: the options registered
          Absent      \* NULL

Types == {"FLAG", "UINT64", "UDOUBLE", "STRING", "CUSTOM"}

ASSUME OptsAssumption ==
    /\ OptAnchor \notin Options /\ Absent \notin Options /\ Absent \notin {0, 1}
    /\ IsFiniteSet(Options)
    /\ Whole \subseteq DOMAIN Number /\ DOMAIN Number \subseteq Texts
    /\ \A o \in Options : DOMAIN Descriptor[o] =
          {"form_short", "form_long", "type", "default_value", "accepts", "parse"}

VARIABLES opt_list, \* the links of the descriptors, and the anchor
          parse,    \* the descriptors with a parsing function
          is_set,   \* the descriptors with is_set
          member,   \* the members of the structure; Absent: what the caller left there
          reading,  \* in the loop of amopts_read
          outcome,  \* what the last call came to
          reads,    \* calls of amopts_read
          known,    \* history: the descriptors registered, in order
          clean     \* history: no value was refused after it was stored

optsVars == <<opt_list, parse, is_set, member, reading, outcome, reads, known, clean>>

\* amopts_init
OptsInit ==
    /\ opt_list = ListInit(Links(Options \cup {OptAnchor}, Absent), OptAnchor)
    /\ parse = {o \in Options : Descriptor[o].parse}
    /\ is_set = {}
    /\ member = [o \in Options |-> Absent]
    /\ reading = FALSE /\ outcome = "none" /\ reads = 0
    /\ known = <<>> /\ clean = TRUE

-----------------------------------------------------------------------------
(* Values *)

\* amopts_validate_numeric, never with a sign
Numeric(text, dotOk) == text \in IF dotOk THEN DOMAIN Number ELSE Whole

\* What opn->parse may store for a text, Absent if it refuses.  A string is copied,
\* for which there may be no memory; a custom function may do either.
Parsed(o, text) ==
    CASE Descriptor[o].type = "UINT64" -> {IF Numeric(text, FALSE) THEN Number[text] ELSE Absent}
      [] Descriptor[o].type = "UDOUBLE" -> {IF Numeric(text, TRUE) THEN Number[text] ELSE Absent}
      [] OTHER -> {text, Absent}

\* opn->validate, of the options that have one
Accepted(o, v) == Descriptor[o].accepts # Absent => v \in Descriptor[o].accepts

-----------------------------------------------------------------------------
(* amopts_register_option *)

\* amopts_validate.  An empty long name is only complained about.
Valid(o) ==
    LET d == Descriptor[o]
    IN  /\ d.form_short # "" => d.form_short \in Names
        /\ d.form_long \in Names
        /\ d.type \in Types
        /\ d.default_value # Absent => d.default_value \in Lines
        /\ (d.type = "CUSTOM") <=> o \in parse
        /\ d.type = "FLAG" => d.accepts = Absent

Append_(o) == /\ opt_list' = ListAddTail(opt_list, OptAnchor, o)
              /\ known' = Append(known, o)

\* A program does not register a custom option again once it is: that would link
\* it twice.  A standard one it may, and is refused.
Registers(o) ==
    /\ ~reading /\ Len(known) < ListLimit
    /\ Descriptor[o].type = "CUSTOM" => o \notin ToSet(known)

RegisterInvalid(o) ==
    /\ Registers(o) /\ ~Valid(o)
    /\ outcome' = "invalid"
    /\ UNCHANGED <<opt_list, parse, is_set, member, reading, reads, known, clean>>

RegisterFlag(o) ==
    /\ Registers(o) /\ Valid(o) /\ Descriptor[o].type = "FLAG"
    /\ parse' = parse \cup {o}
    /\ is_set' = is_set \cup {o}
    /\ member' = [member EXCEPT ![o] = IF Descriptor[o].default_value = Absent THEN 0 ELSE 1]
    /\ Append_(o)
    /\ outcome' = "registered"
    /\ UNCHANGED <<reading, reads, clean>>

\* Without a default the option is mandatory.
RegisterMandatory(o) ==
    /\ Registers(o) /\ Valid(o)
    /\ Descriptor[o].type # "FLAG" /\ Descriptor[o].default_value = Absent
    /\ parse' = parse \cup {o}
    /\ is_set' = is_set \ {o}
    /\ Append_(o)
    /\ outcome' = "registered"
    /\ UNCHANGED <<member, reading, reads, clean>>

\* A default that does not parse leaves the parsing function behind.
RegisterDefault(o) == \E v \in Parsed(o, Descriptor[o].default_value) :
    /\ Registers(o) /\ Valid(o)
    /\ Descriptor[o].type # "FLAG" /\ Descriptor[o].default_value # Absent
    /\ parse' = parse \cup {o}
    /\ \/ /\ v # Absent
          /\ is_set' = is_set \cup {o}
          /\ member' = [member EXCEPT ![o] = v]
          /\ Append_(o)
          /\ outcome' = "registered"
       \/ /\ v = Absent
          /\ is_set' = is_set \ {o}
          /\ outcome' = "invalid"
          /\ UNCHANGED <<opt_list, member, known>>
    /\ UNCHANGED <<reading, reads, clean>>

-----------------------------------------------------------------------------
(* amopts_read *)

\* amopts_search_long and amopts_search_short: the first registered of that name.
Matches(o, text) ==
    \/ text.dashes = 2 /\ Descriptor[o].form_long = text.rest
    \/ text.dashes = 1 /\ text.rest # "" /\ Descriptor[o].form_short = text.rest

Named(text) ==
    LET entries == ListEntries(opt_list, OptAnchor)
        at == {i \in DOMAIN entries : Matches(entries[i], text)}
    IN  IF at = {} THEN Absent ELSE entries[Min(at)]

ReadCall ==
    /\ ~reading /\ reads < ReadLimit
    /\ reading' = TRUE /\ reads' = reads + 1 /\ outcome' = "none"
    /\ UNCHANGED <<opt_list, parse, is_set, member, known, clean>>

EndRead(r) == reading' = FALSE /\ outcome' = r

ReadUnknown(text) ==
    /\ reading /\ Named(text) = Absent
    /\ EndRead("unknown")
    /\ UNCHANGED <<opt_list, parse, is_set, member, reads, known, clean>>

ReadFlag(text) ==
    /\ reading /\ Named(text) # Absent /\ Descriptor[Named(text)].type = "FLAG"
    /\ member' = [member EXCEPT ![Named(text)] = 1]
    /\ UNCHANGED <<opt_list, parse, is_set, reading, outcome, reads, known, clean>>

\* The command line ends with the name of an option, or its value does not parse.
ReadNoValue(text) ==
    /\ reading /\ Named(text) # Absent /\ Descriptor[Named(text)].type # "FLAG"
    /\ EndRead("no value")
    /\ UNCHANGED <<opt_list, parse, is_set, member, reads, known, clean>>

\* amopts_read_value: the value is stored, and then validated.
ReadValue(text, value) == \E v \in Parsed(Named(text), value) \ {Absent} :
    LET o == Named(text)
    IN  /\ member' = [member EXCEPT ![o] = v]
        /\ \/ /\ Accepted(o, v)
              /\ is_set' = is_set \cup {o}
              /\ UNCHANGED <<reading, outcome, clean>>
           \/ /\ ~Accepted(o, v)
              /\ EndRead("refused")
              /\ clean' = FALSE
              /\ UNCHANGED is_set
        /\ UNCHANGED <<opt_list, parse, reads, known>>

ReadOption(text, value) ==
    /\ reading /\ Named(text) # Absent /\ Descriptor[Named(text)].type # "FLAG"
    /\ ReadValue(text, value)

Unset == ToSet(ListEntries(opt_list, OptAnchor)) \ is_set

ReadMissing ==
    /\ reading /\ Unset # {}
    /\ EndRead("missing")
    /\ UNCHANGED <<opt_list, parse, is_set, member, reads, known, clean>>

\* Slip: the loop over the options ends before the last.
ReadDoneShort ==
    /\ reading /\ Cardinality(Unset) <= 1
    /\ \E rc \in {"SUCCESS", "ERROR"} : EndRead(rc)
    /\ UNCHANGED <<opt_list, parse, is_set, member, reads, known, clean>>

\* final_val, which the program may have given, has the last word.
ReadDone ==
    /\ reading /\ Unset = {}
    /\ \E rc \in {"SUCCESS", "ERROR"} : EndRead(rc)
    /\ UNCHANGED <<opt_list, parse, is_set, member, reads, known, clean>>

-----------------------------------------------------------------------------
OptsNext ==
    \/ \E o \in Options : \/ RegisterInvalid(o) \/ RegisterFlag(o)
                          \/ RegisterMandatory(o) \/ RegisterDefault(o)
    \/ ReadCall \/ ReadMissing \/ ReadDone
    \/ \E text \in Texts : \/ ReadUnknown(text) \/ ReadFlag(text) \/ ReadNoValue(text)
                           \/ \E value \in Texts : ReadOption(text, value)

OptsSpec == OptsInit /\ [][OptsNext]_optsVars

-----------------------------------------------------------------------------
(* Properties *)

\* amopts_print_opt stars an option in the help text.
Starred(o) == Descriptor[o].default_value = Absent /\ Descriptor[o].type # "FLAG"

\* The list that lookups walk is that of the options registered, in order, both
\* ways, whatever was refused in between or tried again.
RegistryListed ==
    /\ ListEntries(opt_list, OptAnchor) = known
    /\ Reverse(Walk(opt_list.prev, OptAnchor)) = known
    /\ IsInjective(known)

\* An option nobody can name: it has the long name of an earlier one, and no
\* letter of its own.
Shadowed(o) == \E i, j \in 1 .. Len(known) :
    /\ i < j /\ known[j] = o
    /\ Descriptor[known[i]].form_long = Descriptor[o].form_long
    /\ Descriptor[o].form_short = ""

\* When a command line is accepted, every option has a value: that of its default
\* or one its validation accepted, unless an earlier line had a value refused,
\* which stays stored.  No line is accepted while a mandatory option cannot be
\* named, and one is refused for a missing value only on account of an option
\* that the help text stars.
ReadHonest ==
    /\ outcome = "SUCCESS" => \A o \in ToSet(known) :
        LET d == Descriptor[o]
        IN  /\ member[o] # Absent
            /\ Starred(o) => ~Shadowed(o)
            /\ \/ ~clean \/ Accepted(o, member[o])
               \/ d.default_value # Absent /\ member[o] \in Parsed(o, d.default_value)
    /\ outcome = "missing" => \E o \in ToSet(known) : Starred(o) /\ o \notin is_set

\* The list of amopts_register and the answers of amopts_read.
OptsSound == RegistryListed /\ ReadHonest
=============================================================================
