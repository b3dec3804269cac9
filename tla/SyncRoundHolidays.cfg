SPECIFICATION Spec
CONSTANTS
  event = event  holiday = holiday
  inbox = inbox  work = work  first = first  second = second  other = other
  Items <- MCItems
  Events = Events
  Holidays = Holidays
  Lists = Lists
  Home <- MCHome
  PageOf <- MCPageOf
  MaxChanges = 2
PROPERTIES HolidaysKept
