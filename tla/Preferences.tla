----------------------------- MODULE Preferences ------------------------------
(***************************************************************************)
(* What a visitor chose once and a browser keeps: the language             *)
(* (i18n/index.tsx) and the banners put away.  Every tab reads a           *)
(* preference when the part of the page that shows it is mounted, and from *)
(* then on has its own: a choice changes the tab it is made in and, unless *)
(* the browser refuses, localStorage.                                      *)
(***************************************************************************)
EXTENDS Naturals, Sequences, SequencesExt

CONSTANTS
  Tabs,
  Banners,     \* those that can be put away
  Tags,        \* the language tags a browser may prefer: a base and what follows it
  MaxChoices   \* bound on the choices made

ASSUME PreferencesAssumption == "language" \notin Banners

\* The catalogues whose code is a tag's base; the others are named below.
BaseCodes == {"en", "fr", "de", "it", "pl", "ru", "ja", "ko", "th", "tr"}
Languages == BaseCodes \cup {"es", "es-LA", "pt-BR", "zh-Hans", "zh-Hant"}

Keys == {"language"} \cup Banners

Unset == "none"
PutAway == "1"

VARIABLES
  storage,     \* localStorage
  accepted,    \* navigator.languages
  tabShows,    \* for every tab: the language, and each banner: "shown", PutAway, or
               \* Unset where it is not mounted
  chosen,      \* history: the last choice of every preference
  unkept,      \* history: the preferences a choice of which was not kept
  choices

preferenceVars == <<storage, accepted, tabShows, chosen, unkept, choices>>

\* The language of a tag.
LanguageOf(tag) ==
  IF tag.base = "pt" THEN "pt-BR"
  ELSE IF tag.base = "zh" THEN
    IF tag.more \in {"tw", "hk", "mo", "hant"} THEN "zh-Hant" ELSE "zh-Hans"
  ELSE IF tag.base = "es" THEN IF tag.more \in {"", "es"} THEN "es" ELSE "es-LA"
  ELSE IF tag.base \in BaseCodes THEN tag.base
  ELSE Unset

Understood == {i \in DOMAIN accepted : LanguageOf(accepted[i]) # Unset}

\* Mutant: the browser's preference goes before what was saved.
DetectLangAnew ==
  IF Understood # {}
    THEN LanguageOf(accepted[CHOOSE i \in Understood : \A j \in Understood : i <= j])
  ELSE IF storage["language"] \in Languages THEN storage["language"]
  ELSE "en"

\* detectLang: what was saved, or else the first preference there is a catalogue for.
DetectLang ==
  IF storage["language"] \in Languages THEN storage["language"]
  ELSE IF Understood = {} THEN "en"
  ELSE LanguageOf(accepted[CHOOSE i \in Understood : \A j \in Understood : i <= j])

BannerAtMount(k) == IF storage[k] = PutAway THEN PutAway ELSE "shown"

AtMount(k) == IF k = "language" THEN DetectLang ELSE BannerAtMount(k)

\* A catalogue that is no more may have been saved.
PreferencesInit ==
  /\ storage \in {[k \in Keys |-> Unset], [k \in Keys |-> IF k = "language" THEN "eo" ELSE Unset]}
  /\ accepted \in SeqOf(Tags, 2)
  /\ tabShows = [t \in Tabs |-> [k \in Keys |-> Unset]]
  /\ chosen = [k \in Keys |-> Unset]
  /\ unkept = {}
  /\ choices = 0

-----------------------------------------------------------------------------
\* The tab is loaded, the dashboard mounted, or the overview shown.
Mount(t, k) ==
  /\ tabShows[t][k] = Unset
  /\ tabShows' = [tabShows EXCEPT ![t][k] = AtMount(k)]
  /\ UNCHANGED <<storage, accepted, chosen, unkept, choices>>

\* The tab is loaded again, or the page that has the banner is left.
Unmount(t, k) ==
  /\ tabShows[t][k] # Unset
  /\ tabShows' = [tabShows EXCEPT ![t] =
       [j \in Keys |-> IF j = k \/ k = "language" THEN Unset ELSE @[j]]]
  /\ UNCHANGED <<storage, accepted, chosen, unkept, choices>>

\* A choice, which localStorage keeps or refuses.
Choose(t, k, v) ==
  /\ choices < MaxChoices
  /\ choices' = choices + 1
  /\ tabShows' = [tabShows EXCEPT ![t][k] = v]
  /\ chosen' = [chosen EXCEPT ![k] = v]
  /\ \/ storage' = [storage EXCEPT ![k] = v] /\ unkept' = unkept \ {k}
     \/ storage' = storage /\ unkept' = unkept \cup {k}
  /\ UNCHANGED accepted

\* The selector of the header, or of the drawer; setLang.
SetLang(t, l) == tabShows[t]["language"] # Unset /\ Choose(t, "language", l)

Dismiss(t, b) == tabShows[t][b] = "shown" /\ Choose(t, b, PutAway)

Offered == {"en", "fr", "th"}   \* a few of the catalogues

PreferencesNext ==
  \E t \in Tabs :
    \/ \E k \in Keys : Mount(t, k) \/ Unmount(t, k)
    \/ \E l \in Offered : SetLang(t, l)
    \/ \E b \in Banners : Dismiss(t, b)

PreferencesSpec == PreferencesInit /\ [][PreferencesNext]_preferenceVars

-----------------------------------------------------------------------------
\* What was last chosen in any tab comes back wherever it is read again: unless
\* localStorage refused it, no language is guessed and no banner is back.
ChoiceComesBack ==
  [][\A t \in Tabs, k \in Keys :
       Mount(t, k) /\ chosen[k] # Unset /\ k \notin unkept
         => tabShows'[t][k] = chosen[k]]_preferenceVars

=============================================================================
