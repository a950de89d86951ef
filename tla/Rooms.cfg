SPECIFICATION RoomsSpec
CONSTANTS
  t1 = t1
  t2 = t2
  t3 = t3
  ada = ada
  bob = bob
  Tabs = {t1, t2, t3}
  Users = {ada, bob}
  UserOf <- TwoTabsAndOne
  Codes = {A, B, C}
  NoUser = NoUser
  NoRoom = NoRoom
SYMMETRY Names
PROPERTIES RemovedByItsPresenter
