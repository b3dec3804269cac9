SPECIFICATION FairSpec
CONSTANTS
  event = event  holiday = holiday
  inbox = inbox  work = work  first = first  second = second  other = other
  Items <- MCItems
  Events = Events
  Holidays = Holidays
  Lists = Lists
  Home <- MCHome
  PageOf <- MCPageOf
  MaxChanges = 2
INVARIANTS TypeOK NoSpuriousFailure
PROPERTIES ReadsTheAccount Recovers AsksForConsent
