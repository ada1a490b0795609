----------------------------- MODULE MCIngestion -----------------------------
(* Two aliases of one crop at data.gov.in and one at agmarknet; two markets. *)
EXTENDS Ingestion

const_Adapters == <<"data_gov_in", "agmarknet">>
const_KeysOf == [data_gov_in |-> <<"Onion", "OnionRed">>, agmarknet |-> <<"Onion">>]
const_Band == [min |-> 20, max |-> 90]

Item(commodity, market, min, modal, max) ==
  [readable |-> TRUE, commodity |-> commodity, market |-> market, variety |-> "General",
   unit |-> "quintal", min |-> min, modal |-> modal, max |-> max]

\* Proper, the same row again with another price, disordered, out of the band.
const_Items ==
  [Onion |-> {Item("Onion", "Yeola", 0, 3, 4), Item("Onion", "Yeola", Missing, 5, 4),
              Item("Onion", "Manmad", 2, 9, Missing)},
   OnionRed |-> {Item("OnionRed", "Yeola", Missing, 5, Infinite),
                 Item("OnionRed", "Yeola", 4, 4, 4), Item("OnionRed", "Manmad", 1, 1, 1)}]

const_Scrapes ==
  {<<>>, <<Item("Onion", "Yeola", 3, 3, 3)>>, <<Item("Onion", "Pune", 3, 3, 3)>>,
   <<Item("Onion", "Yeola", 0, 3, 3)>>, <<Item("Onion", "Yeola", Missing, 0, 3)>>,
   <<Item("Onion", "Yeola", 3, 3, 3), Item("Onion", "Manmad", 3, Infinite, 5)>>}
=============================================================================
