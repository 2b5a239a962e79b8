SPECIFICATION ServersSpec
CONSTANTS
  Servers = {1, 2, 3, 4}
  Outputs = 2
  Scores = {1, 2, 4}
  Margin = 50
  Confirm = 2
  MaxChanges = 3
PROPERTIES OneSlotPerServer MovesOnlyIfBeaten Settles
