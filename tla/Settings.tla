------------------------------ MODULE Settings ------------------------------
(***************************************************************************)
(* The settings of the game and the file they come from.  A file is        *)
(* absent, or broken where it is no JSON, or has a value for some keys: a  *)
(* number, or a text where a number is wanted.                             *)
(***************************************************************************)
EXTENDS Integers, Sequences, SequencesExt, TLC

\* The keys, in the order in which Load looks for them.
settings_names ==
    <<"min_players_to_start", "max_players", "time_to_start", "start_market_level",
      "start_money", "start_sources", "start_products", "start_factories",
      "source_unit_charge", "product_unit_charge", "factory_unit_charge",
      "new_factory_unit_cost", "production_product_cost", "turns_to_build_factory">>

\* What holds for a key that no file has.
GameSettings ==
    [min_players_to_start |-> 2, max_players |-> 8, time_to_start |-> 10,
     start_market_level |-> 3, start_money |-> 10000, start_sources |-> 4,
     start_products |-> 2, start_factories |-> 2, source_unit_charge |-> 300,
     product_unit_charge |-> 500, factory_unit_charge |-> 1000,
     new_factory_unit_cost |-> 5000, production_product_cost |-> 2000,
     turns_to_build_factory |-> 5]

Least == 1

Greatest ==
    [min_players_to_start |-> 8, max_players |-> 8, time_to_start |-> 300,
     start_market_level |-> 5, start_money |-> 999999999, start_sources |-> 10,
     start_products |-> 10, start_factories |-> 10, source_unit_charge |-> 999999,
     product_unit_charge |-> 999999, factory_unit_charge |-> 999999,
     new_factory_unit_cost |-> 999999, production_product_cost |-> 999999,
     turns_to_build_factory |-> 100]

Allowed(name, value) ==
    /\ value >= IF name = "time_to_start" THEN 5 ELSE Least
    /\ value <= Greatest[name]

Absent          == [is |-> "absent"]
Broken          == [is |-> "broken"]
Number(n)       == [type |-> "number", n |-> n]
Text            == [type |-> "text"]
Object(entries) == [is |-> "object", entries |-> entries]

-----------------------------------------------------------------------------
\* A value out of its range is passed over; one of the wrong type ends the
\* loading with the keys before it set.
Key(config, name, entries) ==
    IF config.ends # "true" \/ name \notin DOMAIN entries THEN config
    ELSE IF entries[name].type = "text" THEN [config EXCEPT !.ends = "type_error"]
    ELSE IF ~Allowed(name, entries[name].n) THEN config
    ELSE [config EXCEPT !.game_settings[name] = entries[name].n]

\* How loading into fresh settings ends, and with what.
Load(file) ==
    LET With(ends) == [ends |-> ends, game_settings |-> GameSettings]
    IN  CASE file.is = "absent" -> With("false")
          [] file.is = "broken" -> With("parse_error")
          [] file.is = "object" ->
                FoldLeft(LAMBDA config, name : Key(config, name, file.entries),
                         With("true"), settings_names)

\* What the instances of other modules may have for settings.
CanBeLoaded(settings) ==
    LET names == {settings_names[i] : i \in 1..Len(settings_names)}
    IN  Load(Object([name \in names |-> Number(settings[name])])).game_settings = settings

\* At the start an absent file is as good as an empty one.
Launch(file) ==
    LET config == Load(file)
    IN  IF config.ends \in {"true", "false"}
        THEN [runs |-> TRUE, game_settings |-> config.game_settings]
        ELSE [runs |-> FALSE, game_settings |-> GameSettings]

\* In a running server, which both errors end.  What the file does not have is
\* not what it was, but what it is by default.
ReloadGameConfig(running, file) ==
    LET config == Load(file)
    IN  CASE config.ends = "true"  -> [runs |-> TRUE, game_settings |-> config.game_settings]
          [] config.ends = "false" -> [runs |-> TRUE, game_settings |-> running]
          [] OTHER                 -> [runs |-> FALSE, game_settings |-> running]

-----------------------------------------------------------------------------
(***************************************************************************)
(* What the settings are to be, whatever the file has.  They are facts     *)
(* about one call, so they are assumptions TLC evaluates and not           *)
(* invariants of a run.                                                    *)
(***************************************************************************)
Names == {settings_names[i] : i \in 1..Len(settings_names)}

\* The values about the limits of a key, and what is no number.
Values(name) == {Text} \cup {Number(n) : n \in {-1, 0, 1, 4, 5, Greatest[name], Greatest[name] + 1}}

\* Files with one or two keys.
Files ==
    {Object(a :> u @@ b :> v) : a \in Names, b \in {"max_players", "turns_to_build_factory"},
                                u \in {Text, Number(1), Number(0)}, v \in {Text, Number(2), Number(101)}}
    \cup UNION {{Object(name :> value) : value \in Values(name)} : name \in Names}
    \cup {Absent, Broken, Object(<<>>)}

\* No file takes a setting out of its range.
ASSUME LoadedAreAllowed ==
    \A file \in Files : \A name \in Names : Allowed(name, Load(file).game_settings[name])

\* Whoever starts the server and then has a file loaded plays by the same settings
\* as whoever starts it with that file.
ASSUME ReloadingIsRestarting ==
    \A first \in {Object(name :> Number(Greatest[name])) : name \in Names}, file \in Files :
        LET restarted == Launch(file)
            reloaded  == ReloadGameConfig(Launch(first).game_settings, file)
        IN  /\ reloaded.runs = restarted.runs
            /\ reloaded.runs /\ file # Absent => reloaded = restarted

\* More players to start with than there are seats can be asked for, by two keys
\* that are each in their range: such a lobby never starts.
ASSUME ALobbyMayNeverStart ==
    \E file \in Files : LET s == Load(file).game_settings IN s.min_players_to_start > s.max_players

=============================================================================
