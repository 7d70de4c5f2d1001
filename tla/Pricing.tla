------------------------------- MODULE Pricing -------------------------------
(***************************************************************************)
(* What a request costs, and in which currency it is shown                  *)
(* (crates/limits/src/lib.rs, fx.rs, pricing.rs).  A model id is a sequence *)
(* of pieces, separators being pieces of their own; pieces side by side     *)
(* have no separator between them.  Rates are micro-USD per thousand tokens *)
(* (every rate of the book is a multiple of a thousand per million).        *)
(***************************************************************************)
EXTENDS Integers, Sequences, FiniteSets, SequencesExt

Separator == {"-", "/", "."}
Row(pat, short, prompt, completion) ==
    [pat |-> pat, short |-> short, prompt |-> prompt, completion |-> completion]

\* The two gpt-4o rows the other way round: the general one hides the specific one.
PRICE_BOOKMutant ==
    <<Row(<<"gpt", "-", "4o">>, FALSE, 3000, 10000),
      Row(<<"gpt", "-", "4o", "-", "mini">>, FALSE, 150, 600),
      Row(<<"o1">>, TRUE, 15000, 60000)>>

\* Most specific first.
PRICE_BOOK ==
    <<Row(<<"gpt", "-", "4o", "-", "mini">>, FALSE, 150, 600),
      Row(<<"gpt", "-", "4o">>, FALSE, 3000, 10000),
      Row(<<"o1", "-", "mini">>, FALSE, 1100, 4400),
      Row(<<"o1">>, TRUE, 15000, 60000),
      Row(<<"gpt", "-", "4", "-", "turbo">>, FALSE, 10000, 30000),
      Row(<<"gpt", "-", "3.5">>, FALSE, 500, 1500),
      Row(<<"claude", "-", "3", "-", "5", "-", "haiku">>, FALSE, 800, 4000),
      Row(<<"claude", "-", "3", "-", "haiku">>, FALSE, 250, 1250),
      Row(<<"claude", "-", "3", "-", "opus">>, FALSE, 15000, 75000),
      Row(<<"claude", "-", "3", "-", "5", "-", "sonnet">>, FALSE, 3000, 15000),
      Row(<<"claude", "-", "3">>, FALSE, 3000, 15000),
      Row(<<"claude">>, FALSE, 3000, 15000),
      Row(<<"gemini", "-", "1.5", "-", "flash">>, FALSE, 75, 300),
      Row(<<"gemini", "-", "2.0", "-", "flash">>, FALSE, 100, 400),
      Row(<<"gemini", "-", "1.5", "-", "pro">>, FALSE, 1250, 5000),
      Row(<<"gemini">>, FALSE, 1250, 5000)>>
DEFAULT_RATE == Row(<<>>, FALSE, 2000, 6000)

\* A pattern matches anywhere, a short one only as a whole part of the id.
pattern_matches(model, row) ==
    \E i \in 1..(Len(model) + 1 - Len(row.pat)) :
        LET last == i + Len(row.pat) - 1
        IN  /\ SubSeq(model, i, last) = row.pat
            /\ row.short => /\ i = 1 \/ model[i - 1] = "/"
                            /\ last = Len(model) \/ model[last + 1] \in Separator

Matching(model) == {k \in DOMAIN PRICE_BOOK : pattern_matches(model, PRICE_BOOK[k])}
price_for(model) ==
    IF Matching(model) = {} THEN DEFAULT_RATE
    ELSE PRICE_BOOK[CHOOSE k \in Matching(model) : \A l \in Matching(model) : k <= l]

estimate_cost_micro_usd(model, prompt, completion) ==
    (prompt * price_for(model).prompt + completion * price_for(model).completion) \div 1000

-----------------------------------------------------------------------------
\* Exchange rates

DefaultFx == [rates |-> [INR |-> 8300, EUR |-> 92, AED |-> 3672, USD |-> 100],
              region |-> [IN |-> "INR", EU |-> "EUR", AE |-> "AED"], default |-> "USD"]

Over(f, g) == [k \in DOMAIN f \cup DOMAIN g |-> IF k \in DOMAIN g THEN g[k] ELSE f[k]]

\* A default currency without a rate is taken as it is.
mergedMutant(fx, cfg) ==
    [rates |-> Over(fx.rates, cfg.rates), region |-> Over(fx.region, cfg.region),
     default |-> IF cfg.default # "" THEN cfg.default ELSE fx.default]

\* FxRates::merged: a default currency without a rate is refused.
merged(fx, cfg) ==
    [rates |-> Over(fx.rates, cfg.rates), region |-> Over(fx.region, cfg.region),
     default |-> IF cfg.default # "" /\ cfg.default \in DOMAIN fx.rates \cup DOMAIN cfg.rates
                 THEN cfg.default ELSE fx.default]
\* from_json_str: what does not parse leaves the default table.
from_json_str(raw) == IF raw.parses THEN merged(DefaultFx, raw) ELSE DefaultFx
\* from_env: the variable, else the file if it can be read, else the default table.
from_env(json, file) ==
    IF json.present THEN from_json_str(json)
    ELSE IF file.present /\ file.readable THEN from_json_str(file) ELSE DefaultFx

region_currency(fx, region) == IF region \in DOMAIN fx.region THEN fx.region[region] ELSE fx.default
\* FxRates::resolve: the currency asked for, else the region's, else the default.
resolve(fx, display, region) ==
    LET code == IF display \in DOMAIN fx.rates THEN display
                ELSE IF region_currency(fx, region) \in DOMAIN fx.rates THEN region_currency(fx, region)
                ELSE fx.default
    IN  [currency |-> code, rate |-> IF code \in DOMAIN fx.rates THEN fx.rates[code] ELSE 100]
micro_usd_to_minor_units(micro, rate) == (micro * rate) \div 1000000
cost_breakdown_with(fx, display, model, region, prompt, completion) ==
    LET micro == estimate_cost_micro_usd(model, prompt, completion)
        r == resolve(fx, display, region)
    IN  [micro_usd |-> micro, currency |-> r.currency,
         minor_units |-> micro_usd_to_minor_units(micro, r.rate), region |-> region]

-----------------------------------------------------------------------------
\* Properties

\* No row of the price book is hidden by an earlier one: the model a row is named after is
\* priced by that row; and whatever the exchange table was merged from, a cost is shown in
\* a currency the table has a rate for, of the amount that rate gives, the billed amount
\* being the same in every currency (limits lib.rs price_for, fx.rs resolve).
CostIsWellPriced(raw, display, region, model) ==
    LET fx == from_env(raw, raw)
        c == cost_breakdown_with(fx, display, model, region, 900, 40)
    IN  /\ \A k \in DOMAIN PRICE_BOOK : price_for(PRICE_BOOK[k].pat) = PRICE_BOOK[k]
        /\ c.currency \in DOMAIN fx.rates
        /\ c.minor_units = (c.micro_usd * fx.rates[c.currency]) \div 1000000
        /\ c.micro_usd = estimate_cost_micro_usd(model, 900, 40)
        /\ display \in DOMAIN fx.rates => c.currency = display
=============================================================================
